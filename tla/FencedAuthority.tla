-------------------------- MODULE FencedAuthority --------------------------
(***************************************************************************)
(* What the lease ports of the agent (ports/leases.py) promise to the code *)
(* that writes under a lease, whatever coordinator is behind them.         *)
(*                                                                         *)
(* A slot is one purpose of one tenant (its durable writer, its decision). *)
(* Authority over a slot is granted under a fencing token.  A token is     *)
(* issued once, always above every earlier one, only while nobody has      *)
(* authority, and whoever has authority has it under the newest token.     *)
(*                                                                         *)
(* Slots are independent, and one step of a coordinator (its clock moving  *)
(* on, say) may end the authority of several at once: a step here is one   *)
(* choice per slot.                                                        *)
(***************************************************************************)
EXTENDS Naturals

CONSTANTS
  Slots,       \* the (tenant, purpose) pairs that can be leased
  LossIsFinal  \* TRUE when authority once lost is never resumed

VARIABLES
  fence,       \* newest token issued per slot; 0 before the first one
  holder       \* token under which authority is held; 0 when nobody holds it

vars == <<fence, holder>>

Nobody == 0

Init ==
  /\ fence = [s \in Slots |-> 0]
  /\ holder = [s \in Slots |-> Nobody]

\* A new token is issued, above all earlier ones, and carries the authority.
Grant(s) ==
  /\ holder[s] = Nobody
  /\ fence'[s] = fence[s] + 1
  /\ holder'[s] = fence'[s]

\* A token is issued to a holder that dies before it can use it.
Burn(s) ==
  /\ holder[s] = Nobody
  /\ fence'[s] = fence[s] + 1
  /\ holder'[s] = Nobody

\* Expiry, release or the death of the holder.
Lose(s) ==
  /\ holder'[s] = Nobody
  /\ fence'[s] = fence[s]

\* Only under a clock that can step back: the last holder is in time again.
Regain(s) ==
  /\ ~LossIsFinal
  /\ holder[s] = Nobody
  /\ fence[s] # 0
  /\ fence'[s] = fence[s]
  /\ holder'[s] = fence[s]

Keep(s) ==
  /\ fence'[s] = fence[s]
  /\ holder'[s] = holder[s]

Next == \A s \in Slots : Grant(s) \/ Burn(s) \/ Lose(s) \/ Regain(s) \/ Keep(s)

Spec == Init /\ [][Next]_vars
=============================================================================
