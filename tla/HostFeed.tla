------------------------------ MODULE HostFeed ------------------------------
(***************************************************************************)
(* What a HostNotifier promises the node, as the chain its receiver puts   *)
(* together from the notifications: always one hash-linked chain, that     *)
(* moves by whole notifications and keeps every block up to the height     *)
(* delivered as final.                                                     *)
(***************************************************************************)
EXTENDS HostChain

VARIABLES feed, final

Init == IsChain(feed) /\ final = 0

\* A commit, a revert or a reorganisation, above what is final.
Deliver ==
  /\ IsChain(feed')
  /\ Len(feed') >= final /\ Prefix(feed', final) = Prefix(feed, final)
  /\ final' \in final..Len(feed')

Spec == Init /\ [][Deliver]_<<feed, final>>
=============================================================================
