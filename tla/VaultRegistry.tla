---------------------------- MODULE VaultRegistry ----------------------------
(***************************************************************************)
(* What the vault service promises (apps/api/src/vaults/service.ts): for   *)
(* every key, a member of a tenant or a team of it, one vault, made the    *)
(* first time anybody asks for it.  Asking is one step, however many ask   *)
(* at once.  A vault goes only with the tenant or the team it belongs to.  *)
(***************************************************************************)
CONSTANTS
    Key,        \* what a vault is kept for
    VaultId,    \* the vaults' ids
    Caller      \* those who ask

VARIABLES
    vaultOf,    \* the vault of each key that has one
    answers     \* what each caller has been told

Answers == SUBSET (Key \X VaultId)

TypeOK ==
    /\ vaultOf \in UNION {[K -> VaultId] : K \in SUBSET Key}
    /\ answers \in [Caller -> Answers]

Init ==
    /\ vaultOf = [k \in {} |-> {}]
    /\ answers = [c \in Caller |-> {}]

(* A caller asks anew and forgets what it was told before. *)
Begin(c) ==
    /\ answers' = [answers EXCEPT ![c] = {}]
    /\ UNCHANGED vaultOf

(* Get or create, and tell the caller. *)
Ensure(c, k, v) ==
    /\ \/ k \in DOMAIN vaultOf /\ vaultOf[k] = v /\ UNCHANGED vaultOf
       \/ /\ k \notin DOMAIN vaultOf
          /\ \A j \in DOMAIN vaultOf : vaultOf[j] # v
          /\ vaultOf' = [j \in DOMAIN vaultOf \cup {k} |-> IF j = k THEN v ELSE vaultOf[j]]
    /\ answers' = [answers EXCEPT ![c] = @ \cup {<<k, v>>}]

Delete(K) ==
    /\ vaultOf' = [k \in DOMAIN vaultOf \ K |-> vaultOf[k]]
    /\ UNCHANGED answers

Next ==
    \/ \E c \in Caller : Begin(c) \/ \E k \in Key, v \in VaultId : Ensure(c, k, v)
    \/ \E K \in SUBSET Key : Delete(K)

Spec == Init /\ [][Next]_<<vaultOf, answers>>
==============================================================================
