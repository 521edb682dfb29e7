------------------------------ MODULE NonceLane ------------------------------
(***************************************************************************)
(* The in-memory counter of one (sender, chain) lane, as a value.  It is   *)
(* built from the durable high-water mark each time the lane lock is taken *)
(* and dropped with it.  Nonces are natural numbers: an account never      *)
(* reaches the top of uint64.                                              *)
(***************************************************************************)
EXTENDS Naturals

Lane == [known : BOOLEAN, next : Nat]

EmptyLane == [known |-> FALSE, next |-> 0]

observe(l, nonce) ==
  IF ~l.known \/ nonce + 1 > l.next THEN [known |-> TRUE, next |-> nonce + 1] ELSE l

\* Fault: the high-water mark is compared off by one.
reserveReadyOffByOne(l, rpcNonce) == ~(l.known /\ rpcNonce + 1 < l.next)

\* reserve hands out the node's pending nonce unchanged, or refuses.
reserveReady(l, rpcNonce) == ~(l.known /\ rpcNonce < l.next)

\* Fault: any assigned nonce passes for the tip.
isTipOrBelow(l, nonce) == l.known /\ l.next >= nonce + 1

\* Fault: next is taken for the tip itself.
isTipOffByOne(l, nonce) == l.known /\ l.next = nonce

isTip(l, nonce) == l.known /\ l.next = nonce + 1
=============================================================================
