------------------------------ MODULE MCLibrary ------------------------------
(***************************************************************************)
(* The rest of the library for TLC.  The parts share no state: a behaviour    *)
(* is one of the part that 'part' names, and the others do not change.        *)
(***************************************************************************)
EXTENDS Pipeline, PolicyCalls, Loader, Values, MarketData, TLC

CONSTANTS u1, u2, u3, m1, p1, p2, o1, o2, x1, x2

VARIABLE part

Init ==
    /\ PipelineInit /\ PolicyCallsInit
    /\ \/ part \in {"traders", "admins", "policies", "orders"}
          /\ LoaderOff /\ ValuesOff /\ MarketOff
       \/ part = "loader" /\ LoaderInit /\ ValuesOff /\ MarketOff
       \/ /\ part = "values" /\ LoaderOff /\ MarketOff
          /\ \E gs \in Sums :
               ValuesStart(gs, IF gs = AdjustmentOperations THEN {x1} ELSE Aggregates)
       \/ part = "market" /\ LoaderOff /\ ValuesOff /\ MarketInit

Next ==
    /\ UNCHANGED part
    /\ \/ /\ \/ part = "traders" /\ PipelineNext(Users)
             \/ part = "admins" /\ PipelineNext({u1, m1})
          /\ UNCHANGED <<policyCallVars, loaderVars, valuesVars, marketVars>>
       \/ /\ \/ part = "policies" /\ PolicyCallsNext(Policies, {o1})
             \/ part = "orders" /\ PolicyCallsNext({p1}, Orders)
          /\ UNCHANGED <<pipelineVars, loaderVars, valuesVars, marketVars>>
       \/ part = "loader" /\ LoaderNext
          /\ UNCHANGED <<pipelineVars, policyCallVars, valuesVars, marketVars>>
       \/ part = "values" /\ ValuesNext
          /\ UNCHANGED <<pipelineVars, policyCallVars, loaderVars, marketVars>>
       \/ part = "market" /\ MarketNext
          /\ UNCHANGED <<pipelineVars, policyCallVars, loaderVars, valuesVars>>

Spec ==
    Init /\ [][Next]_<<part, pipelineVars, policyCallVars, loaderVars, valuesVars, marketVars>>

AnyBlock == Permutations(Blocks)

=============================================================================
