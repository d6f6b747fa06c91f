----------------------------- MODULE MCPipeline -----------------------------
(* Instances of Pipeline for TLC.                                          *)
EXTENDS Pipeline, TLC

CONSTANTS q1, w1, e1, e2, t1

\* Two windows of two seconds meet at tick 4, between the two events.  The first
\* is eligible for both rules, the second by its severity for one of them.
MCEventOf == [e \in Events |->
    [tenant |-> t1, source |-> <<"a">>, type |-> <<"b">>, asset |-> NoAsset,
     words |-> IF e = e1 THEN {"auth_failure"} ELSE {},
     severity |-> IF e = e1 THEN "LOW" ELSE "HIGH",
     at |-> IF e = e1 THEN 3 ELSE 4]]

\* Both rules were deactivated: with no active row left, the defaults apply.
MCCatalogue == {<<"R-INFRA-001", FALSE>>, <<"R-AUTH-001", FALSE>>}

MCPartitionOf == [t \in {t1} |-> q1]
=============================================================================
