----------------------------- MODULE Exploration -----------------------------
(* Where the workers look for resources (planning/exploration.py) and what becomes of  *)
(* what they find: a book of the chunks seen, harvested, due and refuted, the cells     *)
(* remembered, and the targets of those who explore. Every tick the decider brings the  *)
(* book up to date, adds the remembered cells to what it sees, builds the targets,       *)
(* assigns the tasks (WorkerAssignment) and notes who arrived.                          *)
(*                                                                                     *)
(* The book keeps, by chunk, the ticks it was seen, harvested, next refills, was probed *)
(* and was refuted, and its anchor; by cell, when it was last seen (known), until when   *)
(* it is a tombstone (tombs), and whether it was found empty once (struck).              *)
EXTENDS WorkerAssignment

CONSTANTS ChunkSize, RefillTicks, HungerTicks,
          SweepStep, SweepCount, HungerSweepCount,   \* the rings around the core, normally and when hungry
          FrontierRadius, BarrenRadius, FrontierBudget,
          Sight, Threats, FirstMines,                \* how far the workers see, the enemies that may stand about, the resources at first
          MaxMishaps                                 \* bound: workers held up and mines taken by rivals in a behaviour
\* What the constants must be.
ExplorationAssumption == ChunkSize \in Nat \ {0} /\ RefillTicks \in Nat \ {0} /\ FrontierRadius <= BarrenRadius

VARIABLES book, mines,   \* what is remembered, and the resources that really are there
          recovering,    \* the core was respawned and is being built up again
          mishaps,       \* workers held up and mines taken so far
          targets        \* where this tick's explorers are sent: target of each worker, and the cells visited before
exploreVars == <<vars, book, mines, recovering, mishaps, targets>>

ChunkOf(c) == <<c[1] \div ChunkSize, c[2] \div ChunkSize>>
ChunkCenter(chunk) == <<chunk[1] * ChunkSize + ChunkSize \div 2, chunk[2] * ChunkSize + ChunkSize \div 2>>
RefillTickAtOrAfter(t) == t + ((RefillTicks - (t % RefillTicks)) % RefillTicks)
At(f, key, default) == IF key \in DOMAIN f THEN f[key] ELSE default
Without(f, keys) == [k \in DOMAIN f \ keys |-> f[k]]

EmptyBook == [seen |-> <<>>, harvest |-> <<>>, refill |-> <<>>, probe |-> <<>>, refuted |-> <<>>, anchor |-> <<>>,
              visited |-> {}, hungrySince |-> -1, known |-> <<>>, cargo |-> <<>>, tombs |-> <<>>, struck |-> {}]

-----------------------------------------------------------------------------
(* Bringing the book up to date. Seen is s: [tick, units, visible].                    *)
\* What is visible is known, and its chunk is not refuted any more.
NoteVisible(b, s) ==
  LET chunks == {ChunkOf(c) : c \in s.visible}
      \* of several in a chunk the last one in the snapshot's order
      anchor == [k \in chunks |-> CHOOSE c \in s.visible : ChunkOf(c) = k /\ \A o \in s.visible : ChunkOf(o) = k => ~Before(c, o)]
  IN  [b EXCEPT !.seen = [k \in chunks |-> s.tick] @@ @, !.anchor = anchor @@ @, !.known = [c \in s.visible |-> s.tick] @@ @,
                !.refuted = Without(@, chunks)]

\* A harvest at a cell: its chunk is due at the next refill.
Harvested(b, now, c) ==
  LET k == ChunkOf(c)
  IN  [b EXCEPT !.harvest = k :> now @@ @, !.refill = k :> RefillTickAtOrAfter(now) @@ @, !.anchor = k :> c @@ @,
                !.refuted = Without(@, {k}), !.hungrySince = now]
\* Workers that were told to harvest and carry cargo now.
NoteOrdered(b, s, previous) ==
  LET done == {id \in DOMAIN previous \cap DOMAIN s.units : previous[id].type = "HARVEST_CURRENT" /\ s.units[id].cargo > 0}
  IN  FoldLeft(LAMBDA x, id : Harvested(x, s.tick, previous[id].target), b, InOrder(done))
ExpireTombs(b, s) == [b EXCEPT !.tombs = Without(@, {c \in DOMAIN @ : @[c] <= s.tick})]
\* Workers whose cargo appeared on a remembered cell: the cell is a tombstone until the refill.
NoteCargo(b, s) ==
  LET Noted(x, id) ==
        LET c == s.units[id].pos
            took == At(x.cargo, id, 0) = 0 /\ s.units[id].cargo > 0 /\ c \in DOMAIN x.known
            h == Harvested(x, s.tick, c)
        IN  [(IF took THEN [h EXCEPT !.known = Without(@, {c}), !.tombs = c :> RefillTickAtOrAfter(s.tick) @@ @] ELSE x)
               EXCEPT !.cargo = id :> s.units[id].cargo @@ @]
  IN  FoldLeft(Noted, b, InOrder(DOMAIN s.units))

\* Mutant: nothing is ever struck.
StrikeEmptyEarly(b, s, id) == b
\* A worker with empty hands on a remembered cell after its refill finds it stale: parked for two refills
\* the first time, forgotten the second.
StrikeEmpty(b, s, id) ==
  LET c == s.units[id].pos
      stale == s.units[id].cargo = 0 /\ c \in DOMAIN b.known /\ At(b.refill, ChunkOf(c), s.tick) <= s.tick
      gone == [b EXCEPT !.known = Without(@, {c})]
  IN  IF ~stale THEN b
      ELSE IF c \in b.struck THEN [gone EXCEPT !.struck = @ \ {c}, !.tombs = Without(@, {c})]
      ELSE [gone EXCEPT !.struck = @ \cup {c}, !.tombs = c :> RefillTickAtOrAfter(s.tick) + RefillTicks @@ @]
NoteEmpty(b, s) == FoldLeft(LAMBDA x, id : StrikeEmpty(x, s, id), b, InOrder(DOMAIN s.units))

\* Mutant: whatever was probed is refuted.
RefuteUnseen(b, s) ==
  LET empty == {k \in DOMAIN b.refill \ DOMAIN b.refuted :
                  b.refill[k] <= s.tick /\ k \in DOMAIN b.probe /\ b.probe[k] >= b.refill[k] /\ s.tick - b.probe[k] <= RefillTicks}
  IN  [b EXCEPT !.refuted = [k \in empty |-> s.tick] @@ @]
\* A chunk that was due, was probed since and lately, and shows nothing.
Refute(b, s) ==
  LET empty == {k \in DOMAIN b.refill \ DOMAIN b.refuted :
                  /\ b.refill[k] <= s.tick /\ k \in DOMAIN b.probe
                  /\ b.probe[k] >= b.refill[k] /\ s.tick - b.probe[k] <= RefillTicks
                  /\ \A c \in s.visible : ChunkOf(c) # k}
  IN  [b EXCEPT !.refuted = [k \in empty |-> s.tick] @@ @]

ObserveExploration(b, s, previous) ==
  Refute(NoteEmpty(NoteCargo(ExpireTombs(NoteOrdered(NoteVisible(b, s), s, previous), s), s), s), s)

\* The cells seen, and those remembered whose chunk is not refuted.
WithMemory(b, visible) ==
  LET remembered == {c \in DOMAIN b.known \ visible : ChunkOf(c) \notin DOMAIN b.refuted}
  IN  [c \in visible |-> [visible |-> TRUE, seeded |-> FALSE, lastSeen |-> 0]]
      @@ [c \in remembered |-> [visible |-> FALSE, seeded |-> FALSE, lastSeen |-> b.known[c]]]

-----------------------------------------------------------------------------
(* The targets.                                                                        *)
Compass == <<<<1, 0>>, <<1, 1>>, <<0, 1>>, <<-1, 1>>, <<-1, 0>>, <<-1, -1>>, <<0, -1>>, <<1, -1>>>>
IsHungry(b, now) == b.hungrySince # -1 /\ now - b.hungrySince > HungerTicks
RefillDue(b, k, now) == At(b.refill, k, now + 1) <= now /\ now - At(b.probe, k, now - RefillTicks) >= RefillTicks

\* Where a due chunk is probed: its anchor, its centre, its corners.
ChunkRecheckLadder(k, anchor) ==
  LET low == <<k[1] * ChunkSize, k[2] * ChunkSize>>
      high == <<low[1] + ChunkSize - 1, low[2] + ChunkSize - 1>>
      corners == <<high, <<low[1], high[2]>>, low, <<high[1], low[2]>>>>
      Push(ladder, c) == IF Contains(ladder, c) THEN ladder ELSE Append(ladder, c)
  IN  FoldLeft(Push, <<>>, (IF anchor = NoCell THEN <<>> ELSE <<anchor>>) \o <<ChunkCenter(k)>> \o corners)
\* The due chunks, the nearest to the core first; of two as near the code takes the one it booked first.
DueLadder(b, now) ==
  LET Far(k) == Manhattan(CorePosition, ChunkCenter(k))
      due == SetToSortSeq({k \in DOMAIN b.refill : RefillDue(b, k, now)},
                          LAMBDA j, k : Far(j) < Far(k) \/ (Far(j) = Far(k) /\ Before(j, k)))
  IN  FoldLeft(LAMBDA all, k : all \o ChunkRecheckLadder(k, At(b.anchor, k, NoCell)), <<>>, due)

SweepRadii(hungry) == [i \in 1..(IF hungry THEN HungerSweepCount ELSE SweepCount) |-> SweepStep * i]
RingBandCandidates(core, radii) ==
  LET Point(r, v) == LET scale == r \div (Abs(v[1]) + Abs(v[2])) IN <<core[1] + v[1] * scale, core[2] + v[2] * scale>>
  IN  FoldLeft(LAMBDA all, r : all \o [i \in 1..8 |-> Point(r, Compass[i])], <<>>, radii)

\* Mutant: whatever is near is taken to be within reach.
ReachedAny(flood, blocked, from, c, radius) == TRUE
Reached(flood, blocked, from, c, radius) == blocked = {} \/ Chebyshev(from, c) > radius \/ c \in DOMAIN flood.seen
\* In open terrain nothing is flooded, and there is no frontier to fall back to.
FloodTarget(flood, from, candidates, blocked, visited, taken, radius) ==
  FirstWhere(candidates, LAMBDA c : c \notin blocked \cup taken \cup visited /\ Reached(flood, blocked, from, c, radius),
             IF blocked = {} THEN NoCell ELSE FirstWhere(flood.order, LAMBDA c : c \notin visited \cup taken, NoCell))
TargetOf(from, candidates, blocked, visited, taken, radius) ==
  FloodTarget(Routed(from, {}, blocked, radius, FrontierBudget), from, candidates, blocked, visited, taken, radius)

SendOne(sent, id, t) == IF t = NoCell THEN sent ELSE id :> t @@ sent
SentTo(candidates, b, s, blocked, radius) ==
  FoldLeft(LAMBDA sent, id : SendOne(sent, id, TargetOf(s.units[id].pos, candidates, blocked, b.visited,
                                                     {sent[o] : o \in DOMAIN sent}, radius)),
           <<>>, InOrder(DOMAIN s.units))
BuildExplorationTargets(b, s, blocked, hungry, barren) ==
  SentTo(DueLadder(b, s.tick) \o RingBandCandidates(CorePosition, SweepRadii(hungry)), b, s, blocked,
         IF barren THEN BarrenRadius ELSE FrontierRadius)

\* Whoever is next to the target it explores has visited it, and probed its chunk.
MarkReached(b, s, tasks) ==
  LET there == {tasks[id].target : id \in {i \in DOMAIN tasks : /\ tasks[i].type = "EXPLORE" /\ tasks[i].target # NoCell
                                                                /\ Manhattan(s.units[i].pos, tasks[i].target) <= 1}}
  IN  [b EXCEPT !.visited = @ \cup there, !.probe = [k \in {ChunkOf(c) : c \in there} |-> s.tick] @@ @]

-----------------------------------------------------------------------------
(* One call of the decider, and the game around it: workers do their tasks, one may be  *)
(* held up, a rival may take a mine, and at a refill a mine may appear.                  *)
SurveyCap(none) == IF none \/ recovering THEN Larger(Mission.cap, 2) ELSE 1

Concluded(noted, s, merged, sent, answer) ==
  [book |-> MarkReached(noted, s, answer.tasks), cells |-> merged, answer |-> answer,
   targets |-> [sent |-> sent, visited |-> noted.visited]]
DecideSent(noted, s, previous, held, merged, sent) ==
  Concluded(noted, s, merged, sent,
            AssignWorkerTasks([tick |-> s.tick, units |-> s.units, cells |-> merged, enemies |-> enemies,
                               cap |-> SurveyCap(merged = <<>>)],
                              previous, held, TRUE, {}, sent))
DecideMerged(noted, s, previous, held, merged, barren) ==
  DecideSent(noted, s, previous, held, merged,
             BuildExplorationTargets(noted, s, Obstacles \cup enemies, IsHungry(noted, s.tick) \/ barren, barren))
DecideNoted(noted, s, previous, held, merged) ==
  DecideMerged(noted, s, previous, held, merged, recovering /\ merged = <<>>)
DecideBook(noted, s, previous, held) == DecideNoted(noted, s, previous, held, WithMemory(noted, s.visible))
Decide(b, s, previous, held) == DecideBook(ObserveExploration(b, s, previous), s, previous, held)

Visible(at, there) == {m \in there : \E id \in DOMAIN at : Chebyshev(at[id].pos, m) <= Sight}
Decided(d) == book' = d.book /\ cells' = d.cells /\ last' = d.answer /\ targets' = d.targets

ExploreInit ==
  /\ tick = 1 /\ burst = TRUE /\ enemies \in Threats /\ recovering \in BOOLEAN
  /\ units = [id \in Workers |-> [pos |-> CorePosition, cargo |-> 0, health |-> 2]]
  /\ mines \in FirstMines /\ mishaps = 0
  /\ \E d \in {Decide(EmptyBook, [tick |-> 1, units |-> units, visible |-> Visible(units, mines)], <<>>, <<>>)} :
       book = d.book /\ cells = d.cells /\ last = d.answer /\ targets = d.targets

Digs(id) == last.tasks[id].type = "HARVEST_CURRENT" /\ units[id].pos \in mines
Worked(id) == IF last.tasks[id].type = "HARVEST_CURRENT" THEN [units[id] EXCEPT !.cargo = IF Digs(id) THEN 1 ELSE 0]
              ELSE Stepped(units[id], last.tasks[id])
ExploreTick ==
  /\ tick < MaxTick /\ tick' = tick + 1 /\ UNCHANGED <<burst, enemies, recovering>>
  /\ \E idle \in {{}} \cup {{id} : id \in Workers}, robbed \in {{}} \cup {{m} : m \in mines},
        grown \in {{}} \cup (IF tick' % RefillTicks = 0 THEN {{m} : m \in Cells \ mines} ELSE {}) :
       LET busy == Workers \ idle
           dug == {units[id].pos : id \in {w \in busy : Digs(w)}}
           moved == [id \in Workers |-> IF id \in busy THEN Worked(id) ELSE units[id]]
           standing == (mines \ (dug \cup robbed)) \cup grown
       IN  /\ mishaps' = mishaps + Cardinality(idle) + Cardinality(robbed) /\ mishaps' <= MaxMishaps
           /\ dug \cap robbed = {}
           /\ units' = moved /\ mines' = standing
           /\ \E d \in {Decide(book, [tick |-> tick', units |-> moved, visible |-> Visible(moved, standing)], last.tasks, last.claims)} :
                Decided(d)
ExploreNext == ExploreTick

-----------------------------------------------------------------------------
\* Explorers are sent to different open cells nobody explored before, which they can get to as far as the search
\* looks; and in walled terrain nobody is without a target while such a cell is left.
TargetsAreSound ==
  LET blocked == Obstacles \cup enemies
      sent == targets.sent
      radius == IF recovering /\ cells = <<>> THEN BarrenRadius ELSE FrontierRadius
      Near(from) == {<<x, y>> : x \in (from[1] - radius)..(from[1] + radius), y \in (from[2] - radius)..(from[2] + radius)} \ blocked
      Grown(from, set) == set \cup {c \in Near(from) : \E d \in Direction : StepTo(c, d) \in set}
      Closure(from) == While({from}, LAMBDA set : Grown(from, set) = set, LAMBDA set : Grown(from, set), 4 * radius * radius)
  IN  \A id \in Workers :
        LET from == units[id].pos
            reach == Closure(from)
        IN  IF id \in DOMAIN sent
            THEN /\ sent[id] \notin blocked \cup targets.visited
                 /\ \A o \in DOMAIN sent \ {id} : sent[o] # sent[id]
                 /\ Chebyshev(from, sent[id]) <= radius => sent[id] \in reach
            ELSE blocked # {} => reach \ {from} \subseteq targets.visited \cup {sent[o] : o \in DOMAIN sent}

\* A worker only waits with empty hands on a remembered cell while its chunk was harvested within a refill.
EmptyCellsAreGivenUp ==
  \A id \in Workers : LET c == units[id].pos
                      IN  units[id].cargo = 0 /\ c \in DOMAIN book.known
                            => tick - At(book.harvest, ChunkOf(c), tick - RefillTicks) < RefillTicks

\* A chunk is only given up after its refill, and nothing was seen or harvested in it since.
RefutedChunksAreEmpty ==
  \A k \in DOMAIN book.refuted :
    LET r == book.refuted[k] IN At(book.seen, k, 0) < r /\ At(book.harvest, k, 0) < r /\ At(book.refill, k, r + 1) <= r

\* What a worker dug is on the books at once, and the cell is not offered to anybody before it is seen again.
HarvestsAreBooked ==
  \A id \in Workers :
    units[id].cargo = 0 /\ units'[id].cargo = 1 =>
      LET c == units'[id].pos
      IN  /\ At(book'.harvest, ChunkOf(c), 0) = tick' /\ book'.hungrySince = tick' /\ ChunkOf(c) \notin DOMAIN book'.refuted
          /\ c \in mines' \/ c \notin DOMAIN cells' \cup DOMAIN book'.known

\* A mine that was seen stays known until a worker stands on it.
MinesStayKnown ==
  \A c \in DOMAIN book.known \ DOMAIN book'.known : \E id \in Workers : units'[id].pos = c
=============================================================================
