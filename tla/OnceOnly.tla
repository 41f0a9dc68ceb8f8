------------------------------ MODULE OnceOnly ------------------------------
(***************************************************************************)
(* What a command bus promises a tenant, with no ledger, no files and no   *)
(* processes: a command takes effect at most once, in time, after it was   *)
(* published, and an effect is never taken back.  A command and its retry  *)
(* under another id share an idempotency key and count as one.             *)
(***************************************************************************)
EXTENDS Naturals, Sequences

CONSTANT Commands  \* records with an id, a key, the tick they expire at, and
                   \* whether they were issued for a generation that is over

VARIABLES
  published,  \* commands that can be read
  effects     \* effects in the order they were taken: [id, key, tick]

bus == <<published, effects>>

EffectInTime(c, t) == t \in Nat /\ t < c.expires

Unused(c) ==
  \A i \in 1 .. Len(effects) : effects[i].id # c.id /\ effects[i].key # c.key

Init == published = {} /\ effects = <<>>

Publish ==
  /\ published' \in SUBSET Commands
  /\ published \subseteq published'
  /\ UNCHANGED effects

Effect(c, t) ==
  /\ c \in published
  /\ ~c.stale
  /\ EffectInTime(c, t)
  /\ Unused(c)
  /\ effects' = Append(effects, [id |-> c.id, key |-> c.key, tick |-> t])
  /\ UNCHANGED published

\* The tick of an effect is the one the entry itself carries.
TakeEffect ==
  /\ Len(effects') = Len(effects) + 1
  /\ \E c \in published : Effect(c, effects'[Len(effects')].tick)

Spec == Init /\ [][Publish \/ TakeEffect]_bus
=============================================================================
