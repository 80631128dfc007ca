-------------------------- MODULE VersionedRegister --------------------------
(***************************************************************************)
(* What whole-state synchronisation promises (README.md: "optimistic       *)
(* concurrency"; schemas/sync.py: SyncPayload.version): one register per   *)
(* user with a version.  A write names the version it was made from; it is *)
(* accepted, and the version goes up by one, exactly when the register is  *)
(* still at that version, and it is rejected only when it is not.  Reads   *)
(* and the answers of accepted writes show the register as it stands.      *)
(***************************************************************************)
EXTENDS Integers

CONSTANTS
    Req,        \* operations in flight
    Payload,
    Version,    \* the versions a write may name
    Default,    \* what the register holds before the first write
    Nothing     \* no argument, no result

VARIABLES
    reg,
    op,      \* how far each operation has come
    arg,     \* its argument, if it is a write
    res      \* what it was shown

vars == <<reg, op, arg, res>>

Init ==
    /\ reg = [payload |-> Default, version |-> 0]
    /\ op = [r \in Req |-> "none"]
    /\ arg = [r \in Req |-> Nothing]
    /\ res = [r \in Req |-> Nothing]

InvokeWrite(r, base, payload) ==
    /\ op[r] = "none"
    /\ op' = [op EXCEPT ![r] = "write"]
    /\ arg' = [arg EXCEPT ![r] = [base |-> base, payload |-> payload]]
    /\ UNCHANGED <<reg, res>>

InvokeRead(r) ==
    /\ op[r] = "none"
    /\ op' = [op EXCEPT ![r] = "read"]
    /\ UNCHANGED <<reg, arg, res>>

Accept(r) ==
    /\ op[r] = "write"
    /\ arg[r].base = reg.version
    /\ reg' = [payload |-> arg[r].payload, version |-> reg.version + 1]
    /\ op' = [op EXCEPT ![r] = "written"]
    /\ UNCHANGED <<arg, res>>

Reject(r) ==
    /\ op[r] = "write"
    /\ arg[r].base # reg.version
    /\ op' = [op EXCEPT ![r] = "rejected"]
    /\ UNCHANGED <<reg, arg, res>>

Show(r) ==
    /\ op[r] \in {"read", "written"}
    /\ op' = [op EXCEPT ![r] = "shown"]
    /\ res' = [res EXCEPT ![r] = reg]
    /\ UNCHANGED <<reg, arg>>

\* A write may be refused for a reason that has nothing to do with versions.
Break(r) ==
    /\ op[r] = "write"
    /\ op' = [op EXCEPT ![r] = "broken"]
    /\ UNCHANGED <<reg, arg, res>>

\* An operation ends, with its answer or, at any earlier point, without one.
Return(r) ==
    /\ op[r] # "none"
    /\ op' = [op EXCEPT ![r] = "none"]
    /\ arg' = [arg EXCEPT ![r] = Nothing]
    /\ res' = [res EXCEPT ![r] = Nothing]
    /\ UNCHANGED reg

Next ==
    \E r \in Req :
        \/ \E base \in Version, payload \in Payload : InvokeWrite(r, base, payload)
        \/ InvokeRead(r)
        \/ Accept(r)
        \/ Reject(r)
        \/ Show(r)
        \/ Break(r)
        \/ Return(r)

Spec == Init /\ [][Next]_vars
===============================================================================
