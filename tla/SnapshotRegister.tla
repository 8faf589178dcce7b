-------------------------- MODULE SnapshotRegister --------------------------
(***************************************************************************)
(* What a publication slot promises, without locks, channels or fan-out:   *)
(* one register that only publications change, a generation at a time, and *)
(* per subscriber a mailbox that holds at most one snapshot. A mailbox is  *)
(* filled with what the register holds at that moment, never with an       *)
(* earlier snapshot; an unread snapshot may be discarded to make room;     *)
(* what was read stays read. Store.Subscribe promises this in its comment: *)
(* "a slow consumer skips intermediate snapshots but always converges on   *)
(* the latest".                                                            *)
(***************************************************************************)
EXTENDS Naturals

CONSTANTS Subscribers, Contents, Nothing

VARIABLES
    register,  \* the snapshot that is served
    mailbox,   \* per subscriber: a snapshot it has not read, or Nothing
    heard      \* per subscriber: the snapshot it read last

vars == <<register, mailbox, heard>>

Init ==
    /\ register = Nothing
    /\ mailbox = [s \in Subscribers |-> Nothing]
    /\ heard = [s \in Subscribers |-> Nothing]

Write ==
    /\ register' \in [gen : {register.gen + 1}, content : Contents]
    /\ UNCHANGED <<mailbox, heard>>

Offer(s) ==
    /\ mailbox[s] = Nothing
    /\ mailbox' = [mailbox EXCEPT ![s] = register]
    /\ UNCHANGED <<register, heard>>

\* To make room for what the register holds now, which may be the same snapshot.
Discard(s) ==
    /\ mailbox[s] # Nothing
    /\ mailbox' = [mailbox EXCEPT ![s] = Nothing]
    /\ UNCHANGED <<register, heard>>

Read(s) ==
    /\ mailbox[s] # Nothing
    /\ heard' = [heard EXCEPT ![s] = mailbox[s]]
    /\ mailbox' = [mailbox EXCEPT ![s] = Nothing]
    /\ UNCHANGED register

Next == Write \/ \E s \in Subscribers : Offer(s) \/ Discard(s) \/ Read(s)

Spec == Init /\ [][Next]_vars
=============================================================================
