-------------------------- MODULE LiquidationProofs --------------------------
(* One attempt per user, one place per payload and no attempt on a healthy    *)
(* account that was read well, for any users, processors, protocols, accounts *)
(* and capacities.                                                            *)
EXTENDS Liquidation, FiniteSetTheorems, SequenceTheorems, TLAPS

EnvironmentTypes ==
    /\ chain \in [Users -> [Protocols -> Accounts]] /\ priced \in BOOLEAN
    /\ changes \in 0..MaxChanges /\ faults \in 0..MaxFaults
    /\ justified \subseteq Users \X Protocols

TrackerTypes ==
    /\ logChan \in Seq([user : Users \cup {Nobody}, proto : Protocols]) /\ Len(logChan) <= LogCap
    /\ positions \in [Users -> PositionRecords] /\ known \subseteq Users /\ quiet \subseteq known
    /\ liquidating \subseteq Users

ActorTypes == actor \in [Actors -> ActorRecords]

LoadRecords == [user : Users \cup {Nobody}, pos : PositionRecords]

OutputTypes ==
    /\ pool \subseteq Payloads
    /\ load \in [Payloads -> LoadRecords]
    /\ exec \in Seq(Payloads) /\ Len(exec) <= ExecCap

AttemptPcs == {"estimate", "simulate", "submit", "release"}

\* An actor that works for a user has one, and a protocol.
BusyInv ==
    \A a \in Actors : actor[a].pc \notin {"idle", "next", "gone"} =>
        actor[a].user \in Users /\ actor[a].proto \in Protocols

\* Whoever makes use of a position has read one.
ReadInv ==
    \A a \in Actors : actor[a].pc \in {"store", "trigger", "estimate", "simulate", "submit"} =>
        actor[a].pos.proto \in Protocols

\* Every account that may be liquidated at present is among the justified.
JustifiedInv ==
    \A u \in Users, pr \in Protocols :
        Under(pr, chain[u][pr]) \/ (~ priced /\ pr \in Blind) => <<u, pr>> \in justified

Sound(u, pos) == pos.sound => <<u, pos.proto>> \in justified

\* What an attempt is made on was found to be unhealthy with good reason.
VerdictInv ==
    \A a \in Actors :
        \/ actor[a].pc \in {"trigger", "estimate", "simulate", "submit"}
        \/ actor[a].pc = "store" /\ actor[a].pos.unhealthy
        => Sound(actor[a].user, actor[a].pos)

\* And so was what a payload in use was filled with.
LoadInv == \A p \in Payloads \ pool : Sound(load[p].user, load[p].pos)

\* Who holds a payload, and that it is nowhere else.
HoldInv ==
    \A a \in Actors :
        /\ actor[a].payload # None <=> actor[a].pc \in {"simulate", "submit"}
        /\ actor[a].payload \notin pool
        /\ \A b \in Actors : actor[a].payload = actor[b].payload /\ a # b => actor[a].payload = None

QueueInv ==
    \A i \in 1..Len(exec) :
        /\ exec[i] \notin pool
        /\ \A a \in Actors : actor[a].payload # exec[i]
        /\ \A j \in 1..Len(exec) : exec[i] = exec[j] => i = j

\* No payload is lost.
KeptInv ==
    \A p \in Payloads \ pool :
        (\E a \in Actors : actor[a].payload = p) \/ (\E i \in 1..Len(exec) : exec[i] = p)

PlaceInv == HoldInv /\ QueueInv /\ KeptInv

Groups == EnvironmentTypes /\ TrackerTypes /\ ActorTypes /\ OutputTypes

SafetyInv ==
    Groups /\ OneAttemptPerUser /\ BusyInv /\ ReadInv /\ JustifiedInv /\ VerdictInv /\ LoadInv /\ PlaceInv

LEMMA GroupsAreTypes == Groups <=> TypeOK
  BY DEF Groups, TypeOK, EnvironmentTypes, TrackerTypes, ActorTypes, OutputTypes, LoadRecords
-----------------------------------------------------------------------------
(* Readings. *)

LEMMA IdleTyped == IdleActor \in ActorRecords /\ NoPosition \in PositionRecords
  BY LiquidationAssumption
  DEF IdleActor, ActorRecords, NoPosition, PositionRecords, Pcs, Nobody, None

\* A reading has the protocol it was asked for, and a sound verdict is right for the
\* account that it is of, or there was no price.
LEMMA ReadingSound ==
  ASSUME NEW pr \in Protocols, NEW a \in Accounts, NEW b \in Accounts,
         NEW pos \in updatePosition(pr, a, b) \cup Unanswered(pr, a, b)
  PROVE  /\ pos \in PositionRecords /\ pos.proto = pr
         /\ pos.unhealthy /\ pos.sound => Under(pr, b) \/ (~ priced /\ pr \in Blind)
<1>1. /\ a \in [coll : Nat, rest : Nat, debt : Nat] /\ b \in [coll : Nat, rest : Nat, debt : Nat]
      /\ Total(a) \in Nat /\ Total(b) \in Nat
  BY LiquidationAssumption DEF Total
<1>2. ASSUME NEW debt \in Nat, NEW unhealthy \in BOOLEAN, NEW sound \in BOOLEAN,
             NEW q, q \in Found(pr, debt, unhealthy, sound)
      PROVE  /\ q \in PositionRecords /\ q.proto = pr
             /\ q.unhealthy => unhealthy
             /\ q.sound => sound
  <2>1. q = [proto |-> pr, debt |-> debt, unhealthy |-> unhealthy, sound |-> sound]
    BY <1>2, Zenon DEF Found
  <2>2. q.unhealthy = unhealthy /\ q.sound = sound /\ q.proto = pr
    BY <2>1
  <2>3. QED
    BY <2>1, <2>2 DEF PositionRecords
\* The reading of an account without WETH is never sound.
<1>3. ASSUME pr = "Compound", pos \in WithoutWETH(a, b)
      PROVE  pos \in PositionRecords /\ pos.proto = pr /\ ~ pos.sound
  <2>1. pos \in Found(pr, a.debt, TRUE, FALSE)
    BY <1>3 DEF WithoutWETH, NoReading
  <2>2. a.debt \in Nat
    BY <1>1
  <2>3. pos \in PositionRecords /\ pos.proto = pr /\ (pos.sound => FALSE)
    BY <1>2, <2>1, <2>2, Zenon
  <2>4. QED
    BY <2>3
<1>4. CASE pr = "Aave"
  <2>1. ASSUME pos \in Found(pr, a.debt, Total(b) * 80 < b.debt * 100, a = b), a.debt # 0
        PROVE  /\ pos \in PositionRecords /\ pos.proto = pr
               /\ pos.unhealthy /\ pos.sound => Under(pr, b) \/ (~ priced /\ pr \in Blind)
    <3>1. a.debt \in Nat /\ (Total(b) * 80 < b.debt * 100) \in BOOLEAN /\ (a = b) \in BOOLEAN
      BY <1>1
    <3>2. pos \in PositionRecords /\ pos.proto = pr /\ (pos.unhealthy => Total(b) * 80 < b.debt * 100) /\ (pos.sound => a = b)
      BY <1>2, <2>1, <3>1, Zenon
    <3>3. QED
      BY <1>1, <1>4, <2>1, <3>2 DEF Under, Threshold, Total
  <2>2. CASE pos \in updateAave(a, b)
    <3>1. a.debt # 0 /\ pos \in Found(pr, a.debt, Total(b) * 80 < b.debt * 100, a = b)
      BY <1>4, <2>2 DEF updateAave, NoReading
    <3>2. QED
      BY <2>1, <3>1
  <2>3. CASE pos \notin updateAave(a, b)
    <3>1. pos \in Unanswered(pr, a, b)
      BY <1>4, <2>3 DEF updatePosition
    <3>2. pos \in Found(pr, a.debt, TRUE, FALSE)
      BY <1>4, <3>1 DEF Unanswered, NoReading
    <3>3. a.debt \in Nat
      BY <1>1
    <3>4. pos \in PositionRecords /\ pos.proto = pr /\ (pos.sound => FALSE)
      BY <1>2, <3>2, <3>3, Zenon
    <3>5. QED
      BY <3>4
  <2>4. QED
    BY <2>2, <2>3
<1>5. CASE pr = "Compound"
  <2>1. ASSUME pos \in Found(pr, a.debt, ~ priced \/ b.coll * 85 < a.debt * 100, (a = b /\ b.rest = 0)), a.debt # 0
        PROVE  /\ pos \in PositionRecords /\ pos.proto = pr
               /\ pos.unhealthy /\ pos.sound => Under(pr, b) \/ (~ priced /\ pr \in Blind)
    <3>1. a.debt \in Nat /\ (~ priced \/ b.coll * 85 < a.debt * 100) \in BOOLEAN /\ ((a = b /\ b.rest = 0)) \in BOOLEAN
      BY <1>1
    <3>2. pos \in PositionRecords /\ pos.proto = pr /\ (pos.unhealthy => (~ priced \/ b.coll * 85 < a.debt * 100)) /\ (pos.sound => (a = b /\ b.rest = 0))
      BY <1>2, <2>1, <3>1, Zenon
    <3>3. QED
      BY <1>1, <1>5, <2>1, <3>2 DEF Under, Threshold, Total, Blind
  <2>2. CASE pos \in WithoutWETH(a, b)
    BY <1>3, <1>5, <2>2
  <2>3. CASE pos \notin WithoutWETH(a, b)
    <3>1. pos \in updateCompound(a, b)
      BY <1>5, <2>3 DEF updatePosition, Unanswered
    <3>2. a.debt # 0 /\ pos \in Found(pr, a.debt, ~ priced \/ b.coll * 85 < a.debt * 100, (a = b /\ b.rest = 0))
      BY <1>5, <2>3, <3>1 DEF updateCompound, NoReading
    <3>3. QED
      BY <2>1, <3>2
  <2>4. QED
    BY <2>2, <2>3
<1>6. CASE pr = "Morpho"
  <2>1. ASSUME pos \in Found(pr, b.debt, Total(b) * 86 < b.debt * 100, a = b), b.debt # 0
        PROVE  /\ pos \in PositionRecords /\ pos.proto = pr
               /\ pos.unhealthy /\ pos.sound => Under(pr, b) \/ (~ priced /\ pr \in Blind)
    <3>1. b.debt \in Nat /\ (Total(b) * 86 < b.debt * 100) \in BOOLEAN /\ (a = b) \in BOOLEAN
      BY <1>1
    <3>2. pos \in PositionRecords /\ pos.proto = pr /\ (pos.unhealthy => Total(b) * 86 < b.debt * 100) /\ (pos.sound => a = b)
      BY <1>2, <2>1, <3>1, Zenon
    <3>3. QED
      BY <1>1, <1>6, <2>1, <3>2 DEF Under, Threshold, Total
  <2>2. pos \in updateMorpho(a, b)
    BY <1>6 DEF updatePosition, Unanswered, NoReading
  <2>3. b.debt # 0 /\ pos \in Found(pr, b.debt, Total(b) * 86 < b.debt * 100, a = b)
    BY <1>6, <2>2 DEF updateMorpho, NoReading
  <2>4. QED
    BY <2>1, <2>3
<1>7. CASE pr = "Exactly"
  <2>1. ASSUME pos \in Found(pr, b.debt, Total(b) < b.debt, a = b), b.debt # 0
        PROVE  /\ pos \in PositionRecords /\ pos.proto = pr
               /\ pos.unhealthy /\ pos.sound => Under(pr, b) \/ (~ priced /\ pr \in Blind)
    <3>1. b.debt \in Nat /\ (Total(b) < b.debt) \in BOOLEAN /\ (a = b) \in BOOLEAN
      BY <1>1
    <3>2. pos \in PositionRecords /\ pos.proto = pr /\ (pos.unhealthy => Total(b) < b.debt) /\ (pos.sound => a = b)
      BY <1>2, <2>1, <3>1, Zenon
    <3>3. QED
      BY <1>1, <1>7, <2>1, <3>2 DEF Under, Threshold, Total
  <2>2. pos \in updateExactly(a, b)
    BY <1>7 DEF updatePosition, Unanswered, NoReading
  <2>3. b.debt # 0 /\ pos \in Found(pr, b.debt, Total(b) < b.debt, a = b)
    BY <1>7, <2>2 DEF updateExactly, NoReading
  <2>4. QED
    BY <2>1, <2>3
<1>8. CASE pr = "Moonwell"
  <2>1. ASSUME pos \in Found(pr, a.debt, ~ priced \/ Total(a) < a.debt, a = b), a.debt # 0
        PROVE  /\ pos \in PositionRecords /\ pos.proto = pr
               /\ pos.unhealthy /\ pos.sound => Under(pr, b) \/ (~ priced /\ pr \in Blind)
    <3>1. a.debt \in Nat /\ (~ priced \/ Total(a) < a.debt) \in BOOLEAN /\ (a = b) \in BOOLEAN
      BY <1>1
    <3>2. pos \in PositionRecords /\ pos.proto = pr /\ (pos.unhealthy => (~ priced \/ Total(a) < a.debt)) /\ (pos.sound => a = b)
      BY <1>2, <2>1, <3>1, Zenon
    <3>3. QED
      BY <1>1, <1>8, <2>1, <3>2 DEF Under, Threshold, Total, Blind
  <2>2. pos \in updateMoonwell(a, b)
    BY <1>8 DEF updatePosition, Unanswered, NoReading
  <2>3. a.debt # 0 /\ pos \in Found(pr, a.debt, ~ priced \/ Total(a) < a.debt, a = b)
    BY <1>8, <2>2 DEF updateMoonwell, NoReading
  <2>4. QED
    BY <2>1, <2>3
<1>9. CASE pr = "Ionic"
  <2>1. ASSUME pos \in Found(pr, b.debt, Total(b) < b.debt, a = b), b.debt # 0
        PROVE  /\ pos \in PositionRecords /\ pos.proto = pr
               /\ pos.unhealthy /\ pos.sound => Under(pr, b) \/ (~ priced /\ pr \in Blind)
    <3>1. b.debt \in Nat /\ (Total(b) < b.debt) \in BOOLEAN /\ (a = b) \in BOOLEAN
      BY <1>1
    <3>2. pos \in PositionRecords /\ pos.proto = pr /\ (pos.unhealthy => Total(b) < b.debt) /\ (pos.sound => a = b)
      BY <1>2, <2>1, <3>1, Zenon
    <3>3. QED
      BY <1>1, <1>9, <2>1, <3>2 DEF Under, Threshold, Total
  <2>2. pos \in updateIonic(a, b)
    BY <1>9 DEF updatePosition, Unanswered, NoReading
  <2>3. b.debt # 0 /\ pos \in Found(pr, b.debt, Total(b) < b.debt, a = b)
    BY <1>9, <2>2 DEF updateIonic, NoReading
  <2>4. QED
    BY <2>1, <2>3
<1>10. QED
  BY <1>4, <1>5, <1>6, <1>7, <1>8, <1>9, LiquidationAssumption DEF ProtocolNames
-----------------------------------------------------------------------------
(* What a step of one actor does to the actors. *)

Becomes(a, r) == actor' = [actor EXCEPT ![a] = r]

LEMMA BecomesFrame ==
  ASSUME ActorTypes, NEW a \in Actors, NEW r \in ActorRecords, Becomes(a, r)
  PROVE  /\ ActorTypes'
         /\ actor'[a] = r
         /\ \A b \in Actors : b # a => actor'[b] = actor[b]
<1>1. actor \in [Actors -> ActorRecords]
  BY DEF ActorTypes
<1>2. actor' = [actor EXCEPT ![a] = r]
  BY DEF Becomes
<1>3. actor' \in [Actors -> ActorRecords]
  BY <1>1, <1>2
<1>4. QED
  BY <1>1, <1>2, <1>3 DEF ActorTypes

\* A step that takes no part in an attempt, before or after.
Aside(a, r) ==
    /\ r \in ActorRecords /\ Becomes(a, r)
    /\ actor[a].pc \notin AttemptPcs /\ r.pc \notin AttemptPcs
    /\ r.payload = None
    /\ r.pc \notin {"idle", "next", "gone"} => r.user \in Users /\ r.proto \in Protocols
    /\ r.pc \in {"store", "trigger"} => r.pos.proto \in Protocols
    /\ r.pc = "trigger" \/ (r.pc = "store" /\ r.pos.unhealthy) => Sound(r.user, r.pos)
    /\ UNCHANGED <<environment, liquidating, output>>

LEMMA AttemptingPc == \A a : Attempting(a) <=> actor[a].pc \in AttemptPcs
  BY DEF Attempting, AttemptPcs

LEMMA AsideKeepsMarks ==
  ASSUME ActorTypes, OneAttemptPerUser, NEW a \in Actors, NEW r, Aside(a, r)
  PROVE  OneAttemptPerUser'
<1>1. /\ actor'[a] = r
      /\ \A b \in Actors : b # a => actor'[b] = actor[b]
  BY BecomesFrame DEF Aside
<1>2. \A b \in Actors : Attempting(b)' <=> Attempting(b)
  BY <1>1 DEF Aside, Attempting, AttemptPcs
<1>3. \A b \in Actors : Attempting(b) => actor'[b] = actor[b]
  BY <1>1 DEF Aside, Attempting, AttemptPcs
<1>4. liquidating' = liquidating
  BY DEF Aside
<1>5. \A b, c \in Actors :
          Attempting(b)' /\ Attempting(c)' /\ actor'[b].user = actor'[c].user => b = c
  BY <1>2, <1>3, Zenon DEF OneAttemptPerUser
<1>6. {actor'[b].user : b \in {c \in Actors : Attempting(c)'}}
        = {actor[b].user : b \in {c \in Actors : Attempting(c)}}
  <2>1. {c \in Actors : Attempting(c)'} = {c \in Actors : Attempting(c)}
    BY <1>2
  <2>2. QED
    BY <1>3, <2>1
<1>7. liquidating' = {actor'[b].user : b \in {c \in Actors : Attempting(c)'}}
  BY <1>4, <1>6 DEF OneAttemptPerUser
<1>8. QED
  BY <1>5, <1>7, Zenon DEF OneAttemptPerUser

LEMMA AsideKeepsActors ==
  ASSUME ActorTypes, BusyInv, ReadInv, VerdictInv, NEW a \in Actors, NEW r, Aside(a, r)
  PROVE  ActorTypes' /\ BusyInv' /\ ReadInv' /\ VerdictInv'
<1>1. /\ ActorTypes' /\ actor'[a] = r
      /\ \A b \in Actors : b # a => actor'[b] = actor[b]
  BY BecomesFrame DEF Aside
<1>2. BusyInv'
  BY <1>1 DEF BusyInv, Aside
<1>3. ReadInv'
  BY <1>1 DEF ReadInv, Aside, AttemptPcs
<1>4. justified' = justified
  BY DEF Aside, environment
<1>5. \A u, pos : Sound(u, pos)' <=> Sound(u, pos)
  BY <1>4 DEF Sound
<1>6. ASSUME NEW b \in Actors,
             \/ actor'[b].pc \in {"trigger", "estimate", "simulate", "submit"}
             \/ actor'[b].pc = "store" /\ actor'[b].pos.unhealthy
      PROVE  Sound(actor'[b].user, actor'[b].pos)
  <2>1. CASE b = a
    BY <1>1, <1>6, <2>1 DEF Aside, AttemptPcs
  <2>2. CASE b # a
    BY <1>1, <1>6, <2>2 DEF VerdictInv
  <2>3. QED
    BY <2>1, <2>2
<1>7. VerdictInv'
  <2>1. ASSUME NEW b \in Actors,
               \/ actor'[b].pc \in {"trigger", "estimate", "simulate", "submit"}
               \/ actor'[b].pc = "store" /\ actor'[b].pos.unhealthy
        PROVE  actor'[b].pos.sound => <<actor'[b].user, actor'[b].pos.proto>> \in justified'
    BY <1>4, <1>6, <2>1 DEF Sound
  <2>2. QED
    BY <2>1 DEF VerdictInv, Sound
<1>8. QED
  BY <1>1, <1>2, <1>3, <1>7

LEMMA AsideKeepsPlaces ==
  ASSUME ActorTypes, PlaceInv, LoadInv, JustifiedInv, NEW a \in Actors, NEW r, Aside(a, r)
  PROVE  PlaceInv' /\ LoadInv' /\ JustifiedInv'
<1>1. /\ actor'[a] = r
      /\ \A b \in Actors : b # a => actor'[b] = actor[b]
  BY BecomesFrame DEF Aside
<1>2. /\ actor[a].payload = None
      /\ \A b \in Actors : actor'[b].payload = actor[b].payload
      /\ \A b \in Actors : actor'[b].pc \in {"simulate", "submit"} <=> actor[b].pc \in {"simulate", "submit"}
  BY <1>1 DEF Aside, PlaceInv, HoldInv, AttemptPcs
<1>3. UNCHANGED <<chain, priced, justified, pool, load, exec>>
  BY DEF Aside, environment, output
<1>4. HoldInv'
  BY <1>2, <1>3 DEF PlaceInv, HoldInv
<1>5. QueueInv'
  BY <1>2, <1>3 DEF PlaceInv, QueueInv
<1>6. KeptInv'
  BY <1>2, <1>3 DEF PlaceInv, KeptInv
<1>7. LoadInv'
  BY <1>3 DEF LoadInv, Sound
<1>8. JustifiedInv'
  BY <1>3 DEF JustifiedInv
<1>9. QED
  BY <1>4, <1>5, <1>6, <1>7, <1>8 DEF PlaceInv
-----------------------------------------------------------------------------
(* The steps outside an attempt. *)

LEMMA GotoBecomes ==
  ASSUME ActorTypes, NEW a \in Actors, NEW pc \in Pcs, Goto(a, pc)
  PROVE  [actor[a] EXCEPT !.pc = pc] \in ActorRecords /\ Becomes(a, [actor[a] EXCEPT !.pc = pc])
<1>1. actor[a] \in ActorRecords
  BY DEF ActorTypes
<1>2. [actor[a] EXCEPT !.pc = pc] \in ActorRecords
  BY <1>1 DEF ActorRecords
<1>3. QED
  BY <1>2 DEF Goto, Becomes

AtRest(a) == [IdleActor EXCEPT !.todo = actor[a].todo,
                               !.pc = IF actor[a].todo = {} THEN "idle" ELSE "next"]

LEMMA DoneBecomes ==
  ASSUME ActorTypes, NEW a \in Actors, Done(a)
  PROVE  /\ AtRest(a) \in ActorRecords /\ Becomes(a, AtRest(a))
         /\ AtRest(a).pc \in {"idle", "next", "gone"} /\ AtRest(a).payload = None
<1>1. actor[a].todo \in SUBSET (Users \X Protocols)
  BY DEF ActorTypes, ActorRecords
<1>2. AtRest(a) \in ActorRecords
  BY <1>1, IdleTyped DEF AtRest, ActorRecords, Pcs
<1>3. AtRest(a).pc \in {"idle", "next", "gone"} /\ AtRest(a).payload = None
  BY DEF AtRest, IdleActor
<1>4. QED
  BY <1>2, <1>3 DEF Done, AtRest, Becomes

LEMMA DoneIsAside ==
  ASSUME ActorTypes, NEW a \in Actors, Done(a), actor[a].pc \notin AttemptPcs,
         UNCHANGED <<environment, liquidating, output>>
  PROVE  \E r : Aside(a, r)
<1>1. /\ AtRest(a) \in ActorRecords /\ Becomes(a, AtRest(a))
      /\ AtRest(a).pc \in {"idle", "next", "gone"} /\ AtRest(a).payload = None
  BY DoneBecomes
<1>2. AtRest(a).pc \notin AttemptPcs \cup {"store", "trigger"}
  BY <1>1 DEF AttemptPcs
<1>3. Aside(a, AtRest(a))
  BY <1>1, <1>2 DEF Aside
<1>4. QED
  BY <1>3

LEMMA TakeLogAside ==
  ASSUME Groups, PlaceInv, NEW a \in Actors, TakeLog(a)
  PROVE  \E r : Aside(a, r)
<1> DEFINE event == Head(logChan)
           taken == [actor[a] EXCEPT !.pc = "first", !.user = event.user, !.proto = event.proto]
<1>1. /\ actor[a] \in ActorRecords /\ actor[a].pc = "idle" /\ actor[a].payload = None
      /\ actor \in [Actors -> ActorRecords]
  BY DEF Groups, ActorTypes, TakeLog, PlaceInv, HoldInv
<1>2. event \in [user : Users \cup {Nobody}, proto : Protocols]
  <2>1. logChan \in Seq([user : Users \cup {Nobody}, proto : Protocols]) /\ logChan # <<>>
    BY DEF Groups, TrackerTypes, TakeLog
  <2>2. QED
    BY <2>1, HeadTailProperties
<1>3. UNCHANGED <<environment, liquidating, output>>
  BY DEF TakeLog
<1>4. CASE event.user \notin Users
  <2>1. Becomes(a, actor[a])
    BY <1>1, <1>4 DEF TakeLog, Becomes
  <2>2. Aside(a, actor[a])
    BY <1>1, <1>3, <2>1 DEF Aside, AttemptPcs
  <2>3. QED
    BY <2>2
<1>5. CASE event.user \in Users
  <2>1. Becomes(a, taken)
    BY <1>1, <1>5 DEF TakeLog, Becomes
  <2>2. taken \in ActorRecords
    BY <1>1, <1>2 DEF ActorRecords, Pcs
  <2>3. taken.pc = "first" /\ taken.payload = None /\ taken.user \in Users /\ taken.proto \in Protocols
    BY <1>1, <1>2, <1>5 DEF ActorRecords
  <2>4. Aside(a, taken)
    BY <1>1, <1>3, <2>1, <2>2, <2>3 DEF Aside, AttemptPcs
  <2>5. QED
    BY <2>4
<1>6. QED
  BY <1>4, <1>5

LEMMA PollAside ==
  ASSUME Groups, PlaceInv, PollStart \/ PollNext
  PROVE  \E r : Aside("poller", r)
<1> DEFINE old == actor["poller"]
<1>1. "poller" \in Actors /\ old \in ActorRecords /\ actor \in [Actors -> ActorRecords]
  BY DEF Groups, ActorTypes, Actors
<1>2. UNCHANGED <<environment, liquidating, output>>
  BY DEF PollStart, PollNext
<1>3. CASE PollStart
  <2> DEFINE r == [old EXCEPT !.pc = IF known = {} THEN "idle" ELSE "next", !.todo = known \X Protocols]
  <2>1. old.pc = "idle" /\ Becomes("poller", r)
    BY <1>1, <1>3 DEF PollStart, Becomes
  <2>2. old.payload = None
    BY <1>1, <2>1 DEF PlaceInv, HoldInv
  <2>3. known \X Protocols \in SUBSET (Users \X Protocols)
    BY DEF Groups, TrackerTypes
  <2>4. r \in ActorRecords
    BY <1>1, <2>3 DEF ActorRecords, Pcs
  <2>5. r.pc \in {"idle", "next", "gone"} /\ r.payload = None
    BY <1>1, <2>2 DEF ActorRecords
  <2>6. Aside("poller", r)
    BY <1>2, <2>1, <2>4, <2>5 DEF Aside, AttemptPcs
  <2>7. QED
    BY <2>6
<1>4. CASE PollNext
  <2>1. PICK job \in old.todo : actor' = [actor EXCEPT !["poller"].pc = "first", !["poller"].todo = @ \ {job},
                                                    !["poller"].user = job[1], !["poller"].proto = job[2]]
    BY <1>4 DEF PollNext
  <2> DEFINE r == [old EXCEPT !.pc = "first", !.todo = @ \ {job}, !.user = job[1], !.proto = job[2]]
  <2>2. old.pc = "next" /\ Becomes("poller", r)
    <3>1. old.pc = "next"
      BY <1>4 DEF PollNext
    <3>2. QED
      BY <1>1, <2>1, <3>1 DEF Becomes
  <2>3. old.payload = None
    BY <1>1, <2>2 DEF PlaceInv, HoldInv
  <2>4. job[1] \in Users /\ job[2] \in Protocols /\ old.todo \ {job} \in SUBSET (Users \X Protocols)
    BY <1>1 DEF ActorRecords
  <2>5. r \in ActorRecords
    BY <1>1, <2>4 DEF ActorRecords, Pcs
  <2>6. r.pc = "first" /\ r.payload = None /\ r.user \in Users /\ r.proto \in Protocols
    BY <1>1, <2>3, <2>4 DEF ActorRecords
  <2>7. Aside("poller", r)
    BY <1>2, <2>2, <2>5, <2>6 DEF Aside, AttemptPcs
  <2>8. QED
    BY <2>7
<1>5. QED
  BY <1>3, <1>4

LEMMA ConcludeAside ==
  ASSUME Groups, BusyInv, JustifiedInv, PlaceInv, NEW a \in Actors, actor[a].pc = "second",
         NEW found \in {updatePosition(actor[a].proto, actor[a].first, chain[actor[a].user][actor[a].proto]),
                        Unanswered(actor[a].proto, actor[a].first, chain[actor[a].user][actor[a].proto])},
         Conclude(a, found), UNCHANGED <<environment, liquidating, output>>
  PROVE  \E r : Aside(a, r)
<1> DEFINE old == actor[a]
           now == chain[old.user][old.proto]
<1>1. /\ old \in ActorRecords /\ actor \in [Actors -> ActorRecords] /\ ActorTypes
      /\ chain \in [Users -> [Protocols -> Accounts]]
  BY DEF Groups, ActorTypes, EnvironmentTypes
<1>2. /\ old.user \in Users /\ old.proto \in Protocols /\ old.payload = None /\ old.first \in Accounts
      /\ old.pc \notin AttemptPcs
  BY <1>1 DEF BusyInv, PlaceInv, HoldInv, ActorRecords, AttemptPcs
<1>3. now \in Accounts
  BY <1>1, <1>2
<1>4. CASE Done(a)
  BY <1>1, <1>2, <1>4, DoneIsAside
<1>5. CASE ~ Done(a)
  <2>1. PICK pos \in found :
           actor' = [actor EXCEPT ![a].pc = "store", ![a].pos = pos, ![a].first = Empty]
    BY <1>5 DEF Conclude
  <2> DEFINE r == [old EXCEPT !.pc = "store", !.pos = pos, !.first = Empty]
  <2>2. pos \in updatePosition(old.proto, old.first, now) \cup Unanswered(old.proto, old.first, now)
    BY <2>1
  <2>3. /\ pos \in PositionRecords /\ pos.proto = old.proto
        /\ pos.unhealthy /\ pos.sound => Under(old.proto, now) \/ (~ priced /\ old.proto \in Blind)
    BY <1>2, <1>3, <2>2, ReadingSound
  <2>4. pos.unhealthy => Sound(old.user, pos)
    BY <1>2, <2>3 DEF JustifiedInv, Sound
  <2>5. Becomes(a, r)
    BY <1>1, <2>1 DEF Becomes
  <2>6. r \in ActorRecords
    BY <1>1, <2>3, LiquidationAssumption DEF ActorRecords, Pcs
  <2>7. r.pc = "store" /\ r.payload = None /\ r.user = old.user /\ r.proto = old.proto /\ r.pos = pos
    BY <1>1, <1>2 DEF ActorRecords
  <2>8. Aside(a, r)
    BY <1>2, <2>3, <2>4, <2>5, <2>6, <2>7 DEF Aside, AttemptPcs
  <2>9. QED
    BY <2>8
<1>6. QED
  BY <1>4, <1>5

LEMMA ReadAside ==
  ASSUME Groups, BusyInv, JustifiedInv, PlaceInv, NEW a \in Actors,
         ReadFirst(a) \/ ReadSecond(a) \/ ReadFails(a) \/ ReadPanics(a)
  PROVE  \E r : Aside(a, r)
<1> DEFINE old == actor[a]
<1>1. /\ old \in ActorRecords /\ actor \in [Actors -> ActorRecords] /\ ActorTypes
      /\ chain \in [Users -> [Protocols -> Accounts]]
  BY DEF Groups, ActorTypes, EnvironmentTypes
<1>2. /\ old.pc \in {"first", "second"}
      /\ UNCHANGED <<environment, liquidating, output>>
  <2>1. CASE ReadFirst(a)
    BY <2>1 DEF ReadFirst
  <2>2. CASE ReadSecond(a)
    BY <2>2 DEF ReadSecond
  <2>3. CASE ReadFails(a)
    BY <2>3 DEF ReadFails, environment
  <2>4. CASE ReadPanics(a)
    BY <2>4 DEF ReadPanics, environment
  <2>5. QED
    BY <2>1, <2>2, <2>3, <2>4
<1>3. old.user \in Users /\ old.proto \in Protocols /\ old.payload = None /\ old.first \in Accounts
  BY <1>1, <1>2 DEF BusyInv, PlaceInv, HoldInv, ActorRecords
<1>4. old.pc \notin AttemptPcs
  BY <1>2 DEF AttemptPcs
<1>5. chain[old.user][old.proto] \in Accounts
  BY <1>1, <1>3
<1>6. CASE ReadFirst(a)
  <2> DEFINE r == [old EXCEPT !.pc = "second", !.first = chain[old.user][old.proto]]
  <2>1. Becomes(a, r)
    BY <1>1, <1>6 DEF ReadFirst, Becomes
  <2>2. r \in ActorRecords
    BY <1>1, <1>5 DEF ActorRecords, Pcs
  <2>3. r.pc = "second" /\ r.payload = None /\ r.user \in Users /\ r.proto \in Protocols
    BY <1>1, <1>3 DEF ActorRecords
  <2>4. Aside(a, r)
    BY <1>2, <1>4, <2>1, <2>2, <2>3 DEF Aside, AttemptPcs
  <2>5. QED
    BY <2>4
<1>7. CASE ReadSecond(a)
  <2>1. /\ old.pc = "second"
        /\ Conclude(a, updatePosition(old.proto, old.first, chain[old.user][old.proto]))
    BY <1>7 DEF ReadSecond
  <2>2. QED
    BY <1>2, <2>1, ConcludeAside
<1>8. CASE ReadFails(a)
  <2>1. \/ Done(a)
        \/ /\ old.pc = "second"
           /\ Conclude(a, Unanswered(old.proto, old.first, chain[old.user][old.proto]))
    BY <1>8 DEF ReadFails
  <2>2. CASE Done(a)
    BY <1>1, <1>2, <1>4, <2>2, DoneIsAside
  <2>3. CASE ~ Done(a)
    BY <1>2, <2>1, <2>3, ConcludeAside
  <2>4. QED
    BY <2>2, <2>3
<1>9. CASE ReadPanics(a)
  <2> DEFINE r == [IdleActor EXCEPT !.pc = "gone"]
  <2>1. Becomes(a, r)
    BY <1>9 DEF ReadPanics, Becomes
  <2>2. r \in ActorRecords /\ r.pc = "gone" /\ r.payload = None
    BY IdleTyped DEF ActorRecords, Pcs, IdleActor
  <2>3. Aside(a, r)
    BY <1>2, <1>4, <2>1, <2>2 DEF Aside, AttemptPcs
  <2>4. QED
    BY <2>3
<1>10. QED
  BY <1>6, <1>7, <1>8, <1>9

LEMMA StoreAside ==
  ASSUME Groups, BusyInv, ReadInv, VerdictInv, PlaceInv, NEW a \in Actors, StorePosition(a)
  PROVE  \E r : Aside(a, r)
<1> DEFINE old == actor[a]
           r == [old EXCEPT !.pc = "trigger"]
<1>1. old \in ActorRecords /\ ActorTypes
  BY DEF Groups, ActorTypes
<1>2. old.pc = "store" /\ UNCHANGED <<environment, liquidating, output>>
  BY DEF StorePosition
<1>3. /\ old.user \in Users /\ old.proto \in Protocols /\ old.pos.proto \in Protocols
      /\ old.payload = None /\ old.pc \notin AttemptPcs
      /\ old.pos.unhealthy => Sound(old.user, old.pos)
  BY <1>2 DEF BusyInv, ReadInv, VerdictInv, PlaceInv, HoldInv, AttemptPcs
<1>4. CASE old.pos.unhealthy
  <2>1. Goto(a, "trigger")
    BY <1>4 DEF StorePosition
  <2>2. r \in ActorRecords /\ Becomes(a, r)
    BY <1>1, <2>1, GotoBecomes DEF Pcs
  <2>3. r.pc = "trigger" /\ r.payload = None /\ r.user = old.user /\ r.proto = old.proto /\ r.pos = old.pos
    BY <1>1, <1>3 DEF ActorRecords
  <2>4. Aside(a, r)
    BY <1>2, <1>3, <1>4, <2>2, <2>3 DEF Aside, AttemptPcs
  <2>5. QED
    BY <2>4
<1>5. CASE ~ old.pos.unhealthy
  <2>1. Done(a)
    BY <1>5 DEF StorePosition
  <2>2. QED
    BY <1>1, <1>2, <1>3, <2>1, DoneIsAside
<1>6. QED
  BY <1>4, <1>5

LEMMA MarkedAside ==
  ASSUME Groups, NEW a \in Actors, Trigger(a), actor[a].user \in liquidating
  PROVE  \E r : Aside(a, r)
<1>1. Done(a) /\ UNCHANGED <<environment, liquidating, output>> /\ actor[a].pc \notin AttemptPcs
  BY DEF Trigger, AttemptPcs
<1>2. QED
  BY <1>1, DoneIsAside DEF Groups
-----------------------------------------------------------------------------
(* The steps of an attempt. *)

\* An attempt goes on: the user and the position stay, the payload may change.
Within(a, r) ==
    /\ r \in ActorRecords /\ Becomes(a, r)
    /\ actor[a].pc \in {"estimate", "simulate", "submit"} /\ r.pc \in {"simulate", "submit", "release"}
    /\ r.user = actor[a].user /\ r.proto = actor[a].proto /\ r.pos = actor[a].pos
    /\ UNCHANGED <<environment, liquidating>>

LEMMA WithinKeepsMarks ==
  ASSUME ActorTypes, OneAttemptPerUser, NEW a \in Actors, NEW r, Within(a, r)
  PROVE  OneAttemptPerUser'
<1>1. /\ actor'[a] = r
      /\ \A b \in Actors : b # a => actor'[b] = actor[b]
  BY BecomesFrame DEF Within
<1>2. /\ \A b \in Actors : Attempting(b)' <=> Attempting(b)
      /\ \A b \in Actors : actor'[b].user = actor[b].user
  BY <1>1 DEF Within, Attempting, AttemptPcs
<1>3. liquidating' = liquidating
  BY DEF Within
<1>4. \A b, c \in Actors :
          Attempting(b)' /\ Attempting(c)' /\ actor'[b].user = actor'[c].user => b = c
  BY <1>2, Zenon DEF OneAttemptPerUser
<1>5. liquidating' = {actor'[b].user : b \in {c \in Actors : Attempting(c)'}}
  <2>1. {c \in Actors : Attempting(c)'} = {c \in Actors : Attempting(c)}
    BY <1>2
  <2>2. QED
    BY <1>2, <1>3, <2>1 DEF OneAttemptPerUser
<1>6. QED
  BY <1>4, <1>5, Zenon DEF OneAttemptPerUser

LEMMA WithinKeepsActors ==
  ASSUME ActorTypes, BusyInv, ReadInv, VerdictInv, JustifiedInv, NEW a \in Actors, NEW r, Within(a, r)
  PROVE  ActorTypes' /\ BusyInv' /\ ReadInv' /\ VerdictInv' /\ JustifiedInv'
<1>1. /\ ActorTypes' /\ actor'[a] = r
      /\ \A b \in Actors : b # a => actor'[b] = actor[b]
  BY BecomesFrame DEF Within
<1>2. BusyInv' /\ ReadInv'
  BY <1>1 DEF BusyInv, ReadInv, Within
<1>3. UNCHANGED <<chain, priced, justified>>
  BY DEF Within, environment
<1>4. JustifiedInv'
  BY <1>3 DEF JustifiedInv
<1>5. ASSUME NEW b \in Actors,
             \/ actor'[b].pc \in {"trigger", "estimate", "simulate", "submit"}
             \/ actor'[b].pc = "store" /\ actor'[b].pos.unhealthy
      PROVE  Sound(actor'[b].user, actor'[b].pos)
  <2>1. CASE b = a
    BY <1>1, <2>1 DEF Within, VerdictInv
  <2>2. CASE b # a
    BY <1>1, <1>5, <2>2 DEF VerdictInv
  <2>3. QED
    BY <2>1, <2>2
<1>6. VerdictInv'
  <2>1. ASSUME NEW b \in Actors,
               \/ actor'[b].pc \in {"trigger", "estimate", "simulate", "submit"}
               \/ actor'[b].pc = "store" /\ actor'[b].pos.unhealthy
        PROVE  actor'[b].pos.sound => <<actor'[b].user, actor'[b].pos.proto>> \in justified'
    BY <1>3, <1>5, <2>1 DEF Sound
  <2>2. QED
    BY <2>1 DEF VerdictInv, Sound
<1>7. QED
  BY <1>1, <1>2, <1>4, <1>6

\* Everything but the payloads is kept by a step within an attempt.
OthersKept == ActorTypes' /\ BusyInv' /\ ReadInv' /\ VerdictInv' /\ JustifiedInv' /\ OneAttemptPerUser'

LEMMA WithinKept ==
  ASSUME ActorTypes, BusyInv, ReadInv, VerdictInv, JustifiedInv, OneAttemptPerUser,
         NEW a \in Actors, NEW r, Within(a, r)
  PROVE  OthersKept
  BY WithinKeepsMarks, WithinKeepsActors DEF OthersKept

\* The payload of an attempt that goes on without taking or giving one.
LEMMA GoingOnKeeps ==
  ASSUME Groups, BusyInv, ReadInv, VerdictInv, JustifiedInv, OneAttemptPerUser, PlaceInv, LoadInv,
         NEW a \in Actors, GiveUp(a) \/ SimulatePass(a)
  PROVE  OthersKept /\ PlaceInv' /\ LoadInv' /\ OutputTypes'
<1> DEFINE old == actor[a]
           r == [old EXCEPT !.pc = IF old.pc = "estimate" THEN "release" ELSE "submit"]
<1>1. old \in ActorRecords /\ ActorTypes
  BY DEF Groups, ActorTypes
<1>2. /\ old.pc \in {"estimate", "simulate"}
      /\ r \in ActorRecords /\ Becomes(a, r)
      /\ UNCHANGED <<environment, liquidating>> /\ UNCHANGED <<pool, load, exec>>
  <2>1. CASE GiveUp(a)
    <3>1. old.pc = "estimate" /\ Goto(a, "release")
      BY <2>1 DEF GiveUp
    <3>2. r = [old EXCEPT !.pc = "release"] /\ "release" \in Pcs
      BY <3>1 DEF Pcs
    <3>3. r \in ActorRecords /\ Becomes(a, r)
      BY <1>1, <3>1, <3>2, GotoBecomes
    <3>4. QED
      BY <2>1, <3>1, <3>3 DEF GiveUp, output
  <2>2. CASE SimulatePass(a)
    <3>1. old.pc = "simulate" /\ Goto(a, "submit")
      BY <2>2 DEF SimulatePass
    <3>2. r = [old EXCEPT !.pc = "submit"] /\ "submit" \in Pcs
      BY <3>1 DEF Pcs
    <3>3. r \in ActorRecords /\ Becomes(a, r)
      BY <1>1, <3>1, <3>2, GotoBecomes
    <3>4. QED
      BY <2>2, <3>1, <3>3 DEF SimulatePass, output
  <2>3. QED
    BY <2>1, <2>2
<1>3. /\ r.pc = (IF old.pc = "estimate" THEN "release" ELSE "submit")
      /\ r.user = old.user /\ r.proto = old.proto /\ r.pos = old.pos /\ r.payload = old.payload
  BY <1>1 DEF ActorRecords
<1> HIDE DEF r
<1>4. OthersKept
  <2>1. Within(a, r)
    BY <1>2, <1>3 DEF Within
  <2>2. QED
    BY <1>1, <2>1, WithinKept
<1>5. /\ \A b \in Actors : actor'[b].payload = actor[b].payload
      /\ \A b \in Actors : actor'[b].pc \in {"simulate", "submit"} <=> actor[b].pc \in {"simulate", "submit"}
  <2>1. /\ actor'[a] = r
        /\ \A b \in Actors : b # a => actor'[b] = actor[b]
    BY <1>1, <1>2, BecomesFrame
  <2>2. /\ actor'[a].payload = actor[a].payload
        /\ \/ old.pc = "simulate" /\ actor'[a].pc = "submit"
           \/ old.pc = "estimate" /\ actor'[a].pc = "release"
    BY <1>2, <1>3, <2>1
  <2>3. QED
    BY <2>1, <2>2
<1>6. HoldInv' /\ QueueInv' /\ KeptInv'
  BY <1>2, <1>5 DEF PlaceInv, HoldInv, QueueInv, KeptInv
<1>7. justified' = justified
  BY <1>2 DEF environment
<1>8. LoadInv'
  BY <1>2, <1>7 DEF LoadInv, Sound
<1>9. OutputTypes'
  BY <1>2 DEF Groups, OutputTypes
<1>10. QED
  BY <1>4, <1>6, <1>8, <1>9 DEF PlaceInv

LEMMA BuildKeeps ==
  ASSUME Groups, BusyInv, ReadInv, VerdictInv, JustifiedInv, OneAttemptPerUser, PlaceInv, LoadInv,
         NEW a \in Actors, Build(a)
  PROVE  OthersKept /\ PlaceInv' /\ LoadInv' /\ OutputTypes'
<1> DEFINE old == actor[a]
           next == IF WithGEVM THEN "simulate" ELSE "submit"
<1>1. old \in ActorRecords /\ actor \in [Actors -> ActorRecords] /\ ActorTypes /\ OutputTypes
  BY DEF Groups, ActorTypes
<1>2. PICK p \in pool :
        /\ pool' = pool \ {p}
        /\ load' = [load EXCEPT ![p] = [user |-> old.user, pos |-> old.pos]]
        /\ actor' = [actor EXCEPT ![a].pc = next, ![a].payload = p]
  BY DEF Build
<1>3. old.pc = "estimate" /\ UNCHANGED <<environment, liquidating>> /\ exec' = exec
  BY DEF Build
<1> DEFINE r == [old EXCEPT !.pc = next, !.payload = p]
<1>4. p \in Payloads /\ p # None
  BY <1>1, LiquidationAssumption DEF OutputTypes, None
<1>5. r \in ActorRecords
  BY <1>1, <1>4 DEF ActorRecords, Pcs
<1>6. Becomes(a, r)
  BY <1>1, <1>2 DEF Becomes
<1>7. /\ r.pc \in {"simulate", "submit"} /\ r.payload = p
      /\ r.user = old.user /\ r.proto = old.proto /\ r.pos = old.pos
  BY <1>1 DEF ActorRecords
<1> HIDE DEF r
<1>8. OthersKept
  <2>1. Within(a, r)
    BY <1>3, <1>5, <1>6, <1>7 DEF Within
  <2>2. QED
    BY <1>1, <2>1, WithinKept
<1>9. /\ actor'[a] = r
      /\ \A b \in Actors : b # a => actor'[b] = actor[b]
  BY <1>1, <1>5, <1>6, BecomesFrame
<1>10. \A b \in Actors : actor[b].payload # p
  BY <1>2 DEF PlaceInv, HoldInv
<1>11. \A i \in 1..Len(exec) : exec[i] # p
  BY <1>2 DEF PlaceInv, QueueInv
<1>10a. /\ actor'[a].payload = p /\ actor'[a].pc \in {"simulate", "submit"}
       /\ \A b \in Actors : b # a => actor'[b].payload = actor[b].payload /\ actor'[b].pc = actor[b].pc
  BY <1>7, <1>9
<1>10b. \A b, c \in Actors : actor'[b].payload = actor'[c].payload /\ b # c => actor'[b].payload = None
  BY <1>10, <1>10a DEF PlaceInv, HoldInv
<1>10c. pool' = pool \ {p}
  BY <1>2
<1>12. HoldInv'
  <2>1. \A b \in Actors : /\ actor'[b].payload # None <=> actor'[b].pc \in {"simulate", "submit"}
                          /\ actor'[b].payload \notin pool'
    <3>1. p \notin pool' /\ \A b \in Actors : actor[b].payload \notin pool'
      BY <1>10c DEF PlaceInv, HoldInv
    <3>2. QED
      BY <1>4, <1>10a, <3>1 DEF PlaceInv, HoldInv
  <2>2. QED
    BY <1>10b, <2>1 DEF HoldInv
<1>13. QueueInv'
  BY <1>3, <1>11, <1>10a, <1>10c DEF PlaceInv, QueueInv
<1>14. old.payload = None
  BY <1>3 DEF PlaceInv, HoldInv
<1>15. KeptInv'
  <2>1. ASSUME NEW q \in Payloads \ pool'
        PROVE  (\E b \in Actors : actor'[b].payload = q) \/ (\E i \in 1..Len(exec) : exec[i] = q)
    <3>1. CASE q = p
      BY <1>7, <1>9, <3>1
    <3>2. CASE q # p
      <4>1. q \in Payloads \ pool /\ q # None
        BY <1>2, <3>2, LiquidationAssumption DEF None
      <4>2. QED
        BY <1>9, <1>14, <4>1 DEF PlaceInv, KeptInv
    <3>3. QED
      BY <3>1, <3>2
  <2>2. QED
    BY <1>3, <2>1 DEF KeptInv
<1>16. justified' = justified /\ load \in [Payloads -> LoadRecords]
  BY <1>1, <1>3 DEF environment, OutputTypes
<1>17. LoadInv'
  <2>1. Sound(old.user, old.pos)
    BY <1>3 DEF VerdictInv
  <2>2. load'[p].user = old.user /\ load'[p].pos = old.pos
    BY <1>2, <1>4, <1>16
  <2>3. ASSUME NEW q \in Payloads \ pool'
        PROVE  load'[q].pos.sound => <<load'[q].user, load'[q].pos.proto>> \in justified
    <3>1. CASE q = p
      BY <2>1, <2>2, <3>1 DEF Sound
    <3>2. CASE q # p
      BY <1>2, <1>16, <3>2 DEF LoadInv, Sound
    <3>3. QED
      BY <3>1, <3>2
  <2>4. QED
    BY <1>16, <2>3 DEF LoadInv, Sound
<1>18. OutputTypes'
  <2>1. [user |-> old.user, pos |-> old.pos] \in LoadRecords
    BY <1>1 DEF ActorRecords, LoadRecords
  <2>2. load' \in [Payloads -> LoadRecords]
    BY <1>2, <1>16, <2>1
  <2>3. QED
    BY <1>1, <1>2, <1>3, <2>2 DEF OutputTypes
<1>19. QED
  BY <1>8, <1>12, <1>13, <1>15, <1>17, <1>18 DEF PlaceInv

\* The end of an attempt that held a payload: it is put back, or in the channel.
Ended(a) == [actor[a] EXCEPT !.pc = "release", !.payload = None]

LEMMA EndedWithin ==
  ASSUME ActorTypes, NEW a \in Actors, actor[a].pc \in {"simulate", "submit"},
         actor' = [actor EXCEPT ![a].pc = "release", ![a].payload = None],
         UNCHANGED <<environment, liquidating>>
  PROVE  /\ Within(a, Ended(a))
         /\ actor'[a].payload = None /\ actor'[a].pc = "release"
         /\ \A b \in Actors : b # a => actor'[b].payload = actor[b].payload /\ actor'[b].pc = actor[b].pc
<1>1. actor[a] \in ActorRecords /\ actor \in [Actors -> ActorRecords]
  BY DEF ActorTypes
<1>2. Ended(a) \in ActorRecords /\ Becomes(a, Ended(a))
  BY <1>1 DEF Ended, ActorRecords, Pcs, Becomes
<1>3. /\ Ended(a).pc = "release" /\ Ended(a).payload = None
      /\ Ended(a).user = actor[a].user /\ Ended(a).proto = actor[a].proto /\ Ended(a).pos = actor[a].pos
  BY <1>1 DEF Ended, ActorRecords
<1>4. Within(a, Ended(a))
  BY <1>2, <1>3 DEF Within
<1>5. /\ actor'[a] = Ended(a)
      /\ \A b \in Actors : b # a => actor'[b] = actor[b]
  BY <1>2, BecomesFrame
<1>6. QED
  BY <1>3, <1>4, <1>5

LEMMA PutBackKeeps ==
  ASSUME Groups, BusyInv, ReadInv, VerdictInv, JustifiedInv, OneAttemptPerUser, PlaceInv, LoadInv,
         NEW a \in Actors, SimulateFail(a) \/ ChannelFull(a)
  PROVE  OthersKept /\ PlaceInv' /\ LoadInv' /\ OutputTypes'
<1>1. ActorTypes /\ OutputTypes
  BY DEF Groups
<1>2. /\ actor[a].pc \in {"simulate", "submit"}
      /\ actor' = [actor EXCEPT ![a].pc = "release", ![a].payload = None]
      /\ pool' = pool \cup {actor[a].payload}
      /\ UNCHANGED <<environment, liquidating>> /\ load' = load /\ exec' = exec
  BY DEF SimulateFail, ChannelFull, PutBack
<1>3. /\ Within(a, Ended(a))
      /\ actor'[a].payload = None /\ actor'[a].pc = "release"
      /\ \A b \in Actors : b # a => actor'[b].payload = actor[b].payload /\ actor'[b].pc = actor[b].pc
  BY <1>1, <1>2, EndedWithin
<1>4. OthersKept
  BY <1>1, <1>3, WithinKept
<1>5. actor[a].payload \in Payloads /\ actor[a].payload # None
  BY <1>1, <1>2 DEF PlaceInv, HoldInv, ActorTypes, ActorRecords
<1>6. None \notin pool'
  BY <1>1, <1>2, <1>5, LiquidationAssumption DEF OutputTypes, None
<1>7. \A b \in Actors : b # a => actor[b].payload # actor[a].payload
  BY <1>5 DEF PlaceInv, HoldInv
<1>8. HoldInv'
  <2>1. ASSUME NEW b \in Actors
        PROVE  /\ actor'[b].payload # None <=> actor'[b].pc \in {"simulate", "submit"}
               /\ actor'[b].payload \notin pool'
    <3>1. CASE b = a
      BY <1>3, <1>6, <3>1
    <3>2. CASE b # a
      <4>1. /\ actor[b].payload # None <=> actor[b].pc \in {"simulate", "submit"}
            /\ actor[b].payload \notin pool /\ actor[b].payload # actor[a].payload
        BY <1>7, <3>2 DEF PlaceInv, HoldInv
      <4>2. pool' = pool \cup {actor[a].payload}
        BY <1>2
      <4>3. actor'[b].payload = actor[b].payload /\ actor'[b].pc = actor[b].pc
        BY <1>3, <3>2
      <4>4. QED
        BY <4>1, <4>2, <4>3
    <3>3. QED
      BY <3>1, <3>2
  <2>2. \A b, c \in Actors : actor'[b].payload = actor'[c].payload /\ b # c => actor'[b].payload = None
    BY <1>3 DEF PlaceInv, HoldInv
  <2>3. QED
    BY <2>1, <2>2 DEF HoldInv
<1>9. QueueInv'
  <2>1. ASSUME NEW i \in 1..Len(exec)
        PROVE  exec[i] \notin pool' /\ \A b \in Actors : actor'[b].payload # exec[i]
    <3>1. exec[i] \in Payloads
      BY <1>1, ElementOfSeq DEF OutputTypes
    <3>2. QED
      BY <1>2, <1>3, <3>1, LiquidationAssumption DEF PlaceInv, QueueInv, None
  <2>2. \A i, j \in 1..Len(exec) : exec[i] = exec[j] => i = j
    BY DEF PlaceInv, QueueInv
  <2>3. QED
    BY <1>2, <2>1, <2>2 DEF QueueInv
<1>10. KeptInv'
  <2>1. ASSUME NEW q \in Payloads \ pool'
        PROVE  (\E b \in Actors : actor'[b].payload = q) \/ (\E i \in 1..Len(exec) : exec[i] = q)
    <3>1. q \in Payloads \ pool /\ q # actor[a].payload
      BY <1>2
    <3>2. QED
      BY <1>3, <3>1 DEF PlaceInv, KeptInv
  <2>2. QED
    BY <1>2, <2>1 DEF KeptInv
<1>11. justified' = justified
  BY <1>2 DEF environment
<1>12. LoadInv'
  BY <1>2, <1>11 DEF LoadInv, Sound
<1>13. OutputTypes'
  BY <1>1, <1>2, <1>5 DEF OutputTypes
<1>14. QED
  BY <1>4, <1>8, <1>9, <1>10, <1>12, <1>13 DEF PlaceInv

LEMMA SubmitKeeps ==
  ASSUME Groups, BusyInv, ReadInv, VerdictInv, JustifiedInv, OneAttemptPerUser, PlaceInv, LoadInv,
         NEW a \in Actors, Submit(a)
  PROVE  OthersKept /\ PlaceInv' /\ LoadInv' /\ OutputTypes'
<1> DEFINE p == actor[a].payload
<1>1. ActorTypes /\ OutputTypes
  BY DEF Groups
<1>2. /\ actor[a].pc \in {"simulate", "submit"}
      /\ actor' = [actor EXCEPT ![a].pc = "release", ![a].payload = None]
      /\ exec' = Append(exec, p) /\ Len(exec) < ExecCap
      /\ UNCHANGED <<environment, liquidating>> /\ load' = load /\ pool' = pool
  BY DEF Submit
<1>3. /\ Within(a, Ended(a))
      /\ actor'[a].payload = None /\ actor'[a].pc = "release"
      /\ \A b \in Actors : b # a => actor'[b].payload = actor[b].payload /\ actor'[b].pc = actor[b].pc
  BY <1>1, <1>2, EndedWithin
<1>4. OthersKept
  BY <1>1, <1>3, WithinKept
<1>5. p \in Payloads /\ p # None /\ p \notin pool
  BY <1>1, <1>2 DEF PlaceInv, HoldInv, ActorTypes, ActorRecords
<1>6. exec \in Seq(Payloads) /\ Len(exec) \in Nat
  BY <1>1, LenProperties DEF OutputTypes
<1>7. /\ exec' \in Seq(Payloads) /\ Len(exec') = Len(exec) + 1
      /\ \A i \in 1..Len(exec) : exec'[i] = exec[i]
      /\ exec'[Len(exec) + 1] = p
  BY <1>2, <1>5, <1>6, AppendProperties
<1>8. None \notin pool
  BY <1>1, LiquidationAssumption DEF OutputTypes, None
<1>9. HoldInv'
  <2>1. ASSUME NEW b \in Actors
        PROVE  /\ actor'[b].payload # None <=> actor'[b].pc \in {"simulate", "submit"}
               /\ actor'[b].payload \notin pool'
    <3>1. CASE b = a
      BY <1>2, <1>3, <1>8, <3>1
    <3>2. CASE b # a
      <4>1. /\ actor[b].payload # None <=> actor[b].pc \in {"simulate", "submit"}
            /\ actor[b].payload \notin pool
        BY DEF PlaceInv, HoldInv
      <4>2. pool' = pool
        BY <1>2
      <4>3. actor'[b].payload = actor[b].payload /\ actor'[b].pc = actor[b].pc
        BY <1>3, <3>2
      <4>4. QED
        BY <4>1, <4>2, <4>3
    <3>3. QED
      BY <3>1, <3>2
  <2>2. \A b, c \in Actors : actor'[b].payload = actor'[c].payload /\ b # c => actor'[b].payload = None
    BY <1>3 DEF PlaceInv, HoldInv
  <2>3. QED
    BY <2>1, <2>2 DEF HoldInv
<1>10. QueueInv'
  <2>1. \A i \in 1..Len(exec) : exec[i] # p /\ exec[i] \in Payloads
    BY <1>6, ElementOfSeq DEF PlaceInv, QueueInv
  <2>2. \A b \in Actors : actor'[b].payload # p
    BY <1>3, <1>5 DEF PlaceInv, HoldInv
  <2>3. ASSUME NEW i \in 1..Len(exec')
        PROVE  exec'[i] \notin pool' /\ \A b \in Actors : actor'[b].payload # exec'[i]
    <3>1. CASE i \in 1..Len(exec)
      <4>1. exec'[i] = exec[i] /\ exec[i] # None
        BY <1>7, <2>1, <3>1, LiquidationAssumption DEF None
      <4>2. exec[i] \notin pool /\ \A b \in Actors : actor[b].payload # exec[i]
        BY <3>1 DEF PlaceInv, QueueInv
      <4>3. pool' = pool
        BY <1>2
      <4>4. ASSUME NEW b \in Actors PROVE actor'[b].payload # exec[i]
        BY <1>3, <4>1, <4>2
      <4>5. QED
        BY <4>1, <4>2, <4>3, <4>4
    <3>2. CASE i = Len(exec) + 1
      BY <1>2, <1>5, <1>7, <2>2, <3>2
    <3>3. QED
      BY <1>6, <1>7, <3>1, <3>2
  <2>4. ASSUME NEW i \in 1..Len(exec'), NEW j \in 1..Len(exec'), exec'[i] = exec'[j]
        PROVE  i = j
    <3>1. i \in 1..Len(exec) \/ i = Len(exec) + 1
      BY <1>6, <1>7
    <3>2. j \in 1..Len(exec) \/ j = Len(exec) + 1
      BY <1>6, <1>7
    <3>3. CASE i \in 1..Len(exec) /\ j \in 1..Len(exec)
      BY <1>7, <2>4, <3>3 DEF PlaceInv, QueueInv
    <3>4. CASE i = Len(exec) + 1 \/ j = Len(exec) + 1
      BY <1>7, <2>1, <2>4, <3>1, <3>2, <3>4
    <3>5. QED
      BY <3>1, <3>2, <3>3, <3>4
  <2>5. QED
    BY <2>3, <2>4 DEF QueueInv
<1>11. KeptInv'
  <2>1. ASSUME NEW q \in Payloads \ pool
        PROVE  (\E b \in Actors : actor'[b].payload = q) \/ (\E i \in 1..Len(exec') : exec'[i] = q)
    <3>1. CASE q = p
      <4>1. Len(exec) + 1 \in 1..Len(exec')
        BY <1>6, <1>7
      <4>2. QED
        BY <1>7, <3>1, <4>1
    <3>2. CASE q # p /\ \E b \in Actors : actor[b].payload = q
      BY <1>3, <3>2
    <3>3. ASSUME NEW i \in 1..Len(exec), exec[i] = q
          PROVE  \E j \in 1..Len(exec') : exec'[j] = q
      <4>1. i \in 1..Len(exec')
        BY <1>6, <1>7
      <4>2. QED
        BY <1>7, <3>3, <4>1
    <3>4. QED
      BY <3>1, <3>2, <3>3 DEF PlaceInv, KeptInv
  <2>2. QED
    BY <1>2, <2>1 DEF KeptInv
<1>12. justified' = justified
  BY <1>2 DEF environment
<1>13. LoadInv'
  BY <1>2, <1>12 DEF LoadInv, Sound
<1>14. OutputTypes'
  <2>1. Len(exec') <= ExecCap
    BY <1>2, <1>6, <1>7, LiquidationAssumption
  <2>2. QED
    BY <1>1, <1>2, <1>7, <2>1 DEF OutputTypes
<1>15. QED
  BY <1>4, <1>9, <1>10, <1>11, <1>13, <1>14 DEF PlaceInv

LEMMA MarkKeeps ==
  ASSUME Groups, BusyInv, ReadInv, VerdictInv, JustifiedInv, OneAttemptPerUser, PlaceInv, LoadInv,
         NEW a \in Actors, Trigger(a), actor[a].user \notin liquidating
  PROVE  OthersKept /\ PlaceInv' /\ LoadInv' /\ OutputTypes'
<1> DEFINE r == [actor[a] EXCEPT !.pc = "estimate"]
<1>1. ActorTypes /\ OutputTypes /\ actor[a] \in ActorRecords
  BY DEF Groups, ActorTypes
<1>2. /\ actor[a].pc = "trigger" /\ Goto(a, "estimate")
      /\ liquidating' = liquidating \cup {actor[a].user}
      /\ UNCHANGED environment /\ UNCHANGED <<pool, load, exec>>
  BY DEF Trigger, output
<1>3. r \in ActorRecords /\ Becomes(a, r)
  BY <1>1, <1>2, GotoBecomes DEF Pcs
<1>4. /\ r.pc = "estimate" /\ r.user = actor[a].user /\ r.proto = actor[a].proto
      /\ r.pos = actor[a].pos /\ r.payload = actor[a].payload
  BY <1>1 DEF ActorRecords
<1>5. /\ ActorTypes' /\ actor'[a] = r
      /\ \A b \in Actors : b # a => actor'[b] = actor[b]
  BY <1>1, <1>3, BecomesFrame
<1> HIDE DEF r
<1>6. /\ \A b \in Actors : /\ actor'[b].user = actor[b].user /\ actor'[b].proto = actor[b].proto
                          /\ actor'[b].pos = actor[b].pos /\ actor'[b].payload = actor[b].payload
      /\ \A b \in Actors : b # a => actor'[b].pc = actor[b].pc
      /\ actor'[a].pc = "estimate"
  BY <1>4, <1>5
<1>7. UNCHANGED <<chain, priced, justified>>
  BY <1>2 DEF environment
<1>8. BusyInv' /\ ReadInv' /\ JustifiedInv'
  BY <1>2, <1>6, <1>7 DEF BusyInv, ReadInv, JustifiedInv
<1>9. VerdictInv'
  BY <1>2, <1>6, <1>7 DEF VerdictInv, Sound
<1>10. HoldInv' /\ QueueInv' /\ KeptInv' /\ LoadInv' /\ OutputTypes'
  <2>1. HoldInv'
    BY <1>2, <1>6 DEF PlaceInv, HoldInv
  <2>2. QueueInv' /\ KeptInv'
    BY <1>2, <1>6 DEF PlaceInv, QueueInv, KeptInv
  <2>3. LoadInv' /\ OutputTypes'
    BY <1>1, <1>2, <1>7 DEF LoadInv, Sound, OutputTypes
  <2>4. QED
    BY <2>1, <2>2, <2>3
<1>11. OneAttemptPerUser'
  <2>1. Attempting(a)' /\ \A b \in Actors : b # a => (Attempting(b)' <=> Attempting(b))
    BY <1>6 DEF Attempting
  <2>2. \A b \in Actors : Attempting(b) => actor[b].user # actor[a].user
    BY DEF OneAttemptPerUser
  <2>3. \A b, c \in Actors :
            Attempting(b)' /\ Attempting(c)' /\ actor'[b].user = actor'[c].user => b = c
    BY <1>6, <2>1, <2>2 DEF OneAttemptPerUser
  <2>4. {c \in Actors : Attempting(c)'} = {c \in Actors : Attempting(c)} \cup {a}
    <3>1. ~ Attempting(a)
      BY <1>2 DEF Attempting
    <3>2. QED
      BY <2>1, <3>1
  <2>5. liquidating' = {actor'[b].user : b \in {c \in Actors : Attempting(c)'}}
    BY <1>2, <1>6, <2>4 DEF OneAttemptPerUser
  <2>6. QED
    BY <2>3, <2>5, Zenon DEF OneAttemptPerUser
<1>12. QED
  BY <1>5, <1>8, <1>9, <1>10, <1>11 DEF PlaceInv, OthersKept

LEMMA ReleaseKeeps ==
  ASSUME Groups, BusyInv, ReadInv, VerdictInv, JustifiedInv, OneAttemptPerUser, PlaceInv, LoadInv,
         NEW a \in Actors, Release(a)
  PROVE  OthersKept /\ PlaceInv' /\ LoadInv' /\ OutputTypes'
<1>1. ActorTypes /\ OutputTypes
  BY DEF Groups
<1>2. /\ actor[a].pc = "release" /\ Done(a)
      /\ liquidating' = liquidating \ {actor[a].user}
      /\ UNCHANGED environment /\ UNCHANGED <<pool, load, exec>>
  BY DEF Release, output
<1>3. /\ AtRest(a) \in ActorRecords /\ Becomes(a, AtRest(a))
      /\ AtRest(a).pc \in {"idle", "next", "gone"} /\ AtRest(a).payload = None
  BY <1>1, <1>2, DoneBecomes
<1>4. /\ ActorTypes' /\ actor'[a] = AtRest(a)
      /\ \A b \in Actors : b # a => actor'[b] = actor[b]
  BY <1>1, <1>3, BecomesFrame
<1>5. actor[a].payload = None /\ \A b \in Actors : actor'[b].payload = actor[b].payload
  BY <1>2, <1>3, <1>4 DEF PlaceInv, HoldInv
<1>6. \A b \in Actors : actor'[b].pc \in {"simulate", "submit"} <=> actor[b].pc \in {"simulate", "submit"}
  BY <1>2, <1>3, <1>4
<1>7. UNCHANGED <<chain, priced, justified>>
  BY <1>2 DEF environment
<1>8. BusyInv' /\ ReadInv' /\ JustifiedInv'
  BY <1>3, <1>4, <1>7 DEF BusyInv, ReadInv, JustifiedInv
<1>9. VerdictInv'
  BY <1>3, <1>4, <1>7 DEF VerdictInv, Sound
<1>10. HoldInv' /\ QueueInv' /\ KeptInv' /\ LoadInv' /\ OutputTypes'
  <2>1. HoldInv'
    BY <1>2, <1>5, <1>6 DEF PlaceInv, HoldInv
  <2>2. QueueInv' /\ KeptInv'
    BY <1>2, <1>5 DEF PlaceInv, QueueInv, KeptInv
  <2>3. LoadInv' /\ OutputTypes'
    BY <1>1, <1>2, <1>7 DEF LoadInv, Sound, OutputTypes
  <2>4. QED
    BY <2>1, <2>2, <2>3
<1>11. OneAttemptPerUser'
  <2>1. ~ Attempting(a)' /\ Attempting(a) /\ \A b \in Actors : b # a => (Attempting(b)' <=> Attempting(b))
    BY <1>2, <1>3, <1>4 DEF Attempting
  <2>2. \A b \in Actors : Attempting(b) /\ b # a => actor[b].user # actor[a].user
    BY <2>1 DEF OneAttemptPerUser
  <2>3. \A b, c \in Actors :
            Attempting(b)' /\ Attempting(c)' /\ actor'[b].user = actor'[c].user => b = c
    BY <1>4, <2>1 DEF OneAttemptPerUser
  <2>4. {c \in Actors : Attempting(c)'} = {c \in Actors : Attempting(c)} \ {a}
    BY <2>1
  <2>5. liquidating' = {actor'[b].user : b \in {c \in Actors : Attempting(c)'}}
    BY <1>2, <1>4, <2>1, <2>2, <2>4 DEF OneAttemptPerUser
  <2>6. QED
    BY <2>3, <2>5, Zenon DEF OneAttemptPerUser
<1>12. QED
  BY <1>4, <1>8, <1>9, <1>10, <1>11 DEF PlaceInv, OthersKept
-----------------------------------------------------------------------------
(* The steps of the others. *)

LEMMA ConsumeKeeps ==
  ASSUME Groups, PlaceInv, LoadInv, Consume
  PROVE  PlaceInv' /\ LoadInv' /\ OutputTypes'
<1>1. exec \in Seq(Payloads) /\ exec # <<>> /\ OutputTypes
  BY DEF Groups, OutputTypes, Consume
<1>2. /\ Head(exec) \in Payloads /\ Tail(exec) \in Seq(Payloads)
      /\ Len(Tail(exec)) = Len(exec) - 1 /\ Len(exec) \in Nat /\ Len(exec) > 0
      /\ \A i \in 1..Len(Tail(exec)) : Tail(exec)[i] = exec[i + 1]
      /\ Head(exec) = exec[1]
  BY <1>1, HeadTailProperties, LenProperties, EmptySeq
<1>3. /\ exec' = Tail(exec) /\ pool' = pool \cup {exec[1]}
      /\ actor' = actor /\ load' = load /\ justified' = justified
  BY <1>2 DEF Consume, environment
<1>4. 1 \in 1..Len(exec) /\ \A i \in 1..Len(exec') : i + 1 \in 1..Len(exec) /\ exec'[i] = exec[i + 1]
  BY <1>2, <1>3
<1>5. HoldInv'
  <2>1. \A a \in Actors : actor[a].payload \notin pool'
    BY <1>3, <1>4 DEF PlaceInv, HoldInv, QueueInv
  <2>2. QED
    BY <1>3, <2>1 DEF PlaceInv, HoldInv
<1>6. QueueInv'
  <2>1. ASSUME NEW i \in 1..Len(exec')
        PROVE  /\ exec'[i] \notin pool' /\ \A a \in Actors : actor[a].payload # exec'[i]
               /\ \A j \in 1..Len(exec') : exec'[i] = exec'[j] => i = j
    <3>1. exec'[i] = exec[i + 1] /\ i + 1 \in 1..Len(exec) /\ i \in Nat /\ i > 0
      BY <1>4
    <3>2. exec[i + 1] # exec[1] /\ exec[i + 1] \notin pool
      BY <1>4, <3>1 DEF PlaceInv, QueueInv
    <3>3. \A j \in 1..Len(exec') : exec'[i] = exec'[j] => i + 1 = j + 1
      BY <1>4, <3>1 DEF PlaceInv, QueueInv
    <3>4. QED
      BY <1>3, <3>1, <3>2, <3>3 DEF PlaceInv, QueueInv
  <2>2. QED
    BY <1>3, <2>1 DEF QueueInv
<1>7. KeptInv'
  <2>1. ASSUME NEW q \in Payloads \ pool', NEW i \in 1..Len(exec), exec[i] = q
        PROVE  \E j \in 1..Len(exec') : exec'[j] = q
    <3>1. i # 1
      BY <1>3, <2>1
    <3>2. i - 1 \in 1..Len(exec') /\ exec'[i - 1] = exec[i]
      BY <1>2, <1>3, <3>1
    <3>3. QED
      BY <2>1, <3>2
  <2>2. QED
    BY <1>3, <2>1 DEF PlaceInv, KeptInv
<1>8. LoadInv'
  BY <1>3 DEF LoadInv, Sound
<1>9. OutputTypes'
  BY <1>1, <1>2, <1>3, LiquidationAssumption DEF OutputTypes
<1>10. QED
  BY <1>5, <1>6, <1>7, <1>8, <1>9 DEF PlaceInv

\* What the accounts and prices do can only add to the justified.
LEMMA MovesKeep ==
  ASSUME Groups, VerdictInv, JustifiedInv, LoadInv,
         PriceMoves \/ \E u \in Users, pr \in Protocols, acc \in Accounts : AccountMoves(u, pr, acc)
  PROVE  EnvironmentTypes' /\ VerdictInv' /\ JustifiedInv' /\ LoadInv'
<1>1. EnvironmentTypes /\ changes \in 0..MaxChanges /\ faults \in 0..MaxFaults
  BY DEF Groups, EnvironmentTypes
<1>2. /\ Justify /\ changes < MaxChanges /\ changes' = changes + 1
      /\ faults' = faults /\ actor' = actor /\ pool' = pool /\ load' = load
      /\ chain' \in [Users -> [Protocols -> Accounts]] /\ priced' \in BOOLEAN
  <2>1. CASE PriceMoves
    BY <1>1, <2>1 DEF PriceMoves, EnvironmentTypes, output
  <2>2. ASSUME NEW u \in Users, NEW pr \in Protocols, NEW acc \in Accounts, AccountMoves(u, pr, acc)
        PROVE  /\ Justify /\ changes < MaxChanges /\ changes' = changes + 1
               /\ faults' = faults /\ actor' = actor /\ pool' = pool /\ load' = load
               /\ chain' \in [Users -> [Protocols -> Accounts]] /\ priced' \in BOOLEAN
    <3>1. /\ chain' = [chain EXCEPT ![u][pr] = acc] /\ Justify /\ changes < MaxChanges
          /\ changes' = changes + 1 /\ priced' = priced
          /\ faults' = faults /\ actor' = actor /\ pool' = pool /\ load' = load
      BY <2>2 DEF AccountMoves, output
    <3>2. chain' \in [Users -> [Protocols -> Accounts]] /\ priced' \in BOOLEAN
      BY <1>1, <3>1 DEF EnvironmentTypes
    <3>3. QED
      BY <3>1, <3>2
  <2>3. QED
    BY <2>1, <2>2
<1>3. justified \subseteq justified' /\ justified' \subseteq Users \X Protocols
  BY <1>1, <1>2 DEF Justify, EnvironmentTypes
<1>4. EnvironmentTypes'
  BY <1>1, <1>2, <1>3, LiquidationAssumption DEF EnvironmentTypes
<1>5. VerdictInv' /\ LoadInv'
  BY <1>2, <1>3 DEF VerdictInv, LoadInv, Sound
<1>6. JustifiedInv'
  <2>1. ASSUME NEW u \in Users, NEW pr \in Protocols,
               Under(pr, chain'[u][pr]) \/ (~ priced' /\ pr \in Blind)
        PROVE  <<u, pr>> \in justified'
    BY <1>2, <2>1 DEF Justify
  <2>2. QED
    BY <2>1 DEF JustifiedInv, Under, Threshold, Blind
<1>7. QED
  BY <1>4, <1>5, <1>6

-----------------------------------------------------------------------------
(* The types of the variables that are not an actor's nor a payload's. *)

LEMMA EnvironmentStays ==
  ASSUME EnvironmentTypes, UNCHANGED environment, faults' = faults \/ (faults < MaxFaults /\ faults' = faults + 1)
  PROVE  EnvironmentTypes'
<1>1. faults' \in 0..MaxFaults
  BY LiquidationAssumption DEF EnvironmentTypes
<1>2. QED
  BY <1>1 DEF EnvironmentTypes, environment

LEMMA ActorLeavesEnvironment ==
  ASSUME EnvironmentTypes, NEW a \in Actors, Actor(a)
  PROVE  EnvironmentTypes'
<1>1. UNCHANGED environment /\ (faults' = faults \/ (faults < MaxFaults /\ faults' = faults + 1))
  <2>1. CASE TakeLog(a) \/ PollStart \/ PollNext \/ ReadFirst(a) \/ ReadSecond(a) \/ StorePosition(a)
    BY <2>1 DEF TakeLog, PollStart, PollNext, ReadFirst, ReadSecond, StorePosition
  <2>2. CASE Trigger(a) \/ GiveUp(a) \/ Build(a) \/ SimulatePass(a)
    BY <2>2 DEF Trigger, GiveUp, Build, SimulatePass
  <2>3. CASE Submit(a) \/ ChannelFull(a) \/ Release(a)
    BY <2>3 DEF Submit, ChannelFull, Release
  <2>4. CASE ReadFails(a) \/ ReadPanics(a) \/ SimulateFail(a)
    BY <2>4 DEF ReadFails, ReadPanics, SimulateFail, environment
  <2>5. QED
    BY <2>1, <2>2, <2>3, <2>4 DEF Actor
<1>2. QED
  BY <1>1, EnvironmentStays

LEMMA ActorTypesTracker ==
  ASSUME Groups, BusyInv, NEW a \in Actors, Actor(a)
  PROVE  TrackerTypes'
<1>1. TrackerTypes /\ ActorTypes /\ actor[a] \in ActorRecords
  BY DEF Groups, ActorTypes
<1>2. CASE TakeLog(a)
  <2>1. /\ logChan \in Seq([user : Users \cup {Nobody}, proto : Protocols]) /\ logChan # <<>>
        /\ logChan' = Tail(logChan) /\ UNCHANGED tracker /\ liquidating' = liquidating
    BY <1>1, <1>2 DEF TakeLog, TrackerTypes
  <2>2. /\ logChan' \in Seq([user : Users \cup {Nobody}, proto : Protocols])
        /\ Len(logChan') = Len(logChan) - 1 /\ Len(logChan) \in Nat
    BY <2>1, HeadTailProperties, LenProperties
  <2>3. Len(logChan') <= LogCap
    BY <1>1, <2>2, LiquidationAssumption DEF TrackerTypes
  <2>4. Nobody' = Nobody /\ PositionRecords' = PositionRecords
    BY DEF Nobody, PositionRecords, NoPosition, None
  <2>5. QED
    BY <1>1, <2>1, <2>2, <2>3, <2>4 DEF TrackerTypes, tracker
<1>3. CASE StorePosition(a)
  <2>1. actor[a].user \in Users /\ actor[a].pos \in PositionRecords
    BY <1>1, <1>3 DEF StorePosition, BusyInv, ActorRecords
  <2>2. /\ positions' = [positions EXCEPT ![actor[a].user] = actor[a].pos]
        /\ known' = known \cup {actor[a].user} /\ quiet' = quiet \ {actor[a].user}
        /\ logChan' = logChan /\ liquidating' = liquidating
    BY <1>3 DEF StorePosition
  <2>3. QED
    BY <1>1, <2>1, <2>2 DEF TrackerTypes
<1>4. CASE Trigger(a) \/ Release(a)
  <2>1. actor[a].user \in Users
    BY <1>4 DEF Trigger, Release, BusyInv
  <2>2. liquidating' \subseteq liquidating \cup {actor[a].user} /\ logChan' = logChan /\ UNCHANGED tracker
    BY <1>4 DEF Trigger, Release
  <2>3. QED
    BY <1>1, <2>1, <2>2 DEF TrackerTypes, tracker
<1>5. ASSUME UNCHANGED <<logChan, tracker, liquidating>>
      PROVE  TrackerTypes'
  BY <1>1, <1>5 DEF TrackerTypes, tracker
<1>6. CASE PollStart \/ PollNext \/ ReadFirst(a) \/ ReadSecond(a)
            \/ ReadFails(a) \/ ReadPanics(a)
  BY <1>5, <1>6 DEF PollStart, PollNext, ReadFirst, ReadSecond, ReadFails, ReadPanics, tracker
<1>7. CASE GiveUp(a) \/ Build(a) \/ SimulatePass(a) \/ SimulateFail(a) \/ Submit(a) \/ ChannelFull(a)
  BY <1>5, <1>7 DEF GiveUp, Build, SimulatePass, SimulateFail, Submit, ChannelFull, tracker
<1>8. QED
  BY <1>2, <1>3, <1>4, <1>6, <1>7 DEF Actor

LEMMA MovesTypeTracker ==
  ASSUME TrackerTypes,
         PriceMoves \/ \E u \in Users, pr \in Protocols, acc \in Accounts : AccountMoves(u, pr, acc)
  PROVE  TrackerTypes'
<1>1. CASE PriceMoves
  BY <1>1 DEF PriceMoves, TrackerTypes, tracker
<1>2. ASSUME NEW u \in Users, NEW pr \in Protocols, NEW acc \in Accounts, AccountMoves(u, pr, acc)
      PROVE  TrackerTypes'
  <2>1. PICK kind : \/ Len(logChan) < LogCap /\ logChan' = Append(logChan, [user |-> EventUser(pr, kind, u), proto |-> pr])
                    \/ logChan' = logChan
    BY <1>2 DEF AccountMoves
  <2>2. UNCHANGED tracker /\ liquidating' = liquidating
    BY <1>2 DEF AccountMoves
  <2> DEFINE Events == [user : Users \cup {Nobody}, proto : Protocols]
             event == [user |-> EventUser(pr, kind, u), proto |-> pr]
  <2>3. event \in Events
    BY DEF EventUser, Nobody
  <2>4. logChan \in Seq(Events) /\ Len(logChan) <= LogCap
    BY DEF TrackerTypes
  <2> HIDE DEF Events, event
  <2>5. logChan' \in Seq(Events) /\ Len(logChan') <= LogCap
    <3>1. CASE logChan' = logChan
      BY <2>4, <3>1
    <3>2. CASE Len(logChan) < LogCap /\ logChan' = Append(logChan, event)
      <4>1. logChan' \in Seq(Events) /\ Len(logChan') = Len(logChan) + 1 /\ Len(logChan) \in Nat
        BY <2>3, <2>4, <3>2, AppendProperties, LenProperties
      <4>2. QED
        BY <3>2, <4>1, LiquidationAssumption
    <3>3. QED
      BY <2>1, <3>1, <3>2 DEF event
  <2>6. QED
    BY <2>2, <2>5 DEF TrackerTypes, tracker, Events
<1>3. QED
  BY <1>1, <1>2

LEMMA OldTypesTracker ==
  ASSUME TrackerTypes, Cleanup \/ \E u \in Users : TenMinutes(u)
  PROVE  TrackerTypes'
<1>1. CASE Cleanup
  <2>1. /\ positions' = [u \in Users |-> IF u \in quiet THEN NoPosition ELSE positions[u]]
        /\ known' = known \ quiet /\ quiet' = {} /\ logChan' = logChan /\ liquidating' = liquidating
    BY <1>1 DEF Cleanup
  <2>2. positions' \in [Users -> PositionRecords]
    BY <2>1, IdleTyped DEF TrackerTypes
  <2>3. QED
    BY <2>1, <2>2 DEF TrackerTypes
<1>2. ASSUME NEW u \in Users, TenMinutes(u)
      PROVE  TrackerTypes'
  BY <1>2 DEF TenMinutes, TrackerTypes
<1>3. QED
  BY <1>1, <1>2
-----------------------------------------------------------------------------
(* All together. *)

LEMMA Stuttering ==
  ASSUME SafetyInv, UNCHANGED <<chain, priced, justified, liquidating, actor, pool, load, exec>>
  PROVE  /\ ActorTypes' /\ OutputTypes' /\ OneAttemptPerUser' /\ BusyInv' /\ ReadInv'
         /\ JustifiedInv' /\ VerdictInv' /\ LoadInv' /\ PlaceInv'
<1>1. ActorTypes' /\ OutputTypes' /\ BusyInv' /\ ReadInv' /\ JustifiedInv'
  BY DEF SafetyInv, Groups, ActorTypes, OutputTypes, BusyInv, ReadInv, JustifiedInv
<1>2. VerdictInv' /\ LoadInv'
  BY DEF SafetyInv, VerdictInv, LoadInv, Sound
<1>3. HoldInv' /\ QueueInv' /\ KeptInv'
  BY DEF SafetyInv, PlaceInv, HoldInv, QueueInv, KeptInv
<1>4. OneAttemptPerUser'
  BY DEF SafetyInv, OneAttemptPerUser, Attempting
<1>5. QED
  BY <1>1, <1>2, <1>3, <1>4 DEF PlaceInv

LEMMA AsideKeeps ==
  ASSUME SafetyInv, NEW a \in Actors, \E r : Aside(a, r)
  PROVE  OthersKept /\ PlaceInv' /\ LoadInv' /\ OutputTypes'
<1>1. PICK r : Aside(a, r)
  OBVIOUS
<1>2. UNCHANGED <<pool, load, exec>>
  BY <1>1 DEF Aside, output
<1>3. OutputTypes'
  BY <1>2 DEF SafetyInv, Groups, OutputTypes
<1>4. QED
  BY <1>1, <1>3, AsideKeepsMarks, AsideKeepsActors, AsideKeepsPlaces DEF SafetyInv, Groups, OthersKept

LEMMA ActorKeeps ==
  ASSUME SafetyInv, NEW a \in Actors, Actor(a)
  PROVE  SafetyInv'
<1>1. /\ Groups /\ OneAttemptPerUser /\ BusyInv /\ ReadInv /\ JustifiedInv
      /\ VerdictInv /\ LoadInv /\ PlaceInv
  BY DEF SafetyInv
<1>2. OthersKept /\ PlaceInv' /\ LoadInv' /\ OutputTypes'
  <2>1. CASE TakeLog(a)
    BY <1>1, <2>1, TakeLogAside, AsideKeeps
  <2>2. CASE a = "poller" /\ (PollStart \/ PollNext)
    BY <1>1, <2>2, PollAside, AsideKeeps
  <2>3. CASE ReadFirst(a) \/ ReadSecond(a) \/ ReadFails(a) \/ ReadPanics(a)
    BY <1>1, <2>3, ReadAside, AsideKeeps
  <2>4. CASE StorePosition(a)
    BY <1>1, <2>4, StoreAside, AsideKeeps
  <2>5. CASE Trigger(a) /\ actor[a].user \in liquidating
    BY <1>1, <2>5, MarkedAside, AsideKeeps
  <2>6. CASE Trigger(a) /\ actor[a].user \notin liquidating
    BY <1>1, <2>6, MarkKeeps
  <2>7. CASE GiveUp(a) \/ SimulatePass(a)
    BY <1>1, <2>7, GoingOnKeeps
  <2>8. CASE Build(a)
    BY <1>1, <2>8, BuildKeeps
  <2>9. CASE SimulateFail(a) \/ ChannelFull(a)
    BY <1>1, <2>9, PutBackKeeps
  <2>10. CASE Submit(a)
    BY <1>1, <2>10, SubmitKeeps
  <2>11. CASE Release(a)
    BY <1>1, <2>11, ReleaseKeeps
  <2>12. QED
    BY <2>1, <2>2, <2>3, <2>4, <2>5, <2>6, <2>7, <2>8, <2>9, <2>10, <2>11 DEF Actor
<1>3. EnvironmentTypes' /\ TrackerTypes'
  BY <1>1, ActorLeavesEnvironment, ActorTypesTracker DEF Groups
<1>4. QED
  BY <1>2, <1>3 DEF SafetyInv, Groups, OthersKept

LEMMA SafetyInitially == Init => SafetyInv
<1> SUFFICES ASSUME Init PROVE SafetyInv
  OBVIOUS
<1>1. \A a \in Actors : actor[a] = IdleActor
  BY DEF Init
<1>2. exec = <<>> /\ Len(exec) = 0 /\ exec \in Seq(Payloads) /\ pool = Payloads
  BY DEF Init
<1>3. EnvironmentTypes
  BY LiquidationAssumption DEF Init, EnvironmentTypes
<1>4. TrackerTypes
  <2>1. /\ logChan = <<>> /\ positions = [u \in Users |-> NoPosition]
        /\ known = {} /\ quiet = {} /\ liquidating = {}
    BY DEF Init
  <2>2. positions \in [Users -> PositionRecords]
    BY <2>1, IdleTyped
  <2>3. logChan \in Seq([user : Users \cup {Nobody}, proto : Protocols]) /\ Len(logChan) <= LogCap
    BY <2>1, LiquidationAssumption
  <2>4. QED
    BY <2>1, <2>2, <2>3 DEF TrackerTypes
<1>5. ActorTypes /\ OutputTypes
  <2>1. ActorTypes
    BY IdleTyped DEF Init, ActorTypes
  <2>2. Blank \in LoadRecords
    BY IdleTyped DEF Blank, LoadRecords
  <2>3. OutputTypes
    BY <1>2, <2>2, LiquidationAssumption DEF Init, OutputTypes
  <2>4. QED
    BY <2>1, <2>3
<1>6. BusyInv /\ ReadInv /\ VerdictInv
  BY <1>1 DEF BusyInv, ReadInv, VerdictInv, IdleActor
<1>7. OneAttemptPerUser
  <2>1. \A a \in Actors : ~ Attempting(a)
    BY <1>1 DEF Attempting, IdleActor
  <2>2. liquidating = {}
    BY DEF Init
  <2>3. QED
    BY <2>1, <2>2 DEF OneAttemptPerUser
<1>8. JustifiedInv
  BY DEF Init, JustifiedInv, Under, Empty
<1>9. LoadInv /\ KeptInv
  BY <1>2 DEF LoadInv, KeptInv
<1>10. HoldInv /\ QueueInv
  BY <1>1, <1>2, LiquidationAssumption DEF HoldInv, QueueInv, IdleActor, None
<1>11. QED
  BY <1>3, <1>4, <1>5, <1>6, <1>7, <1>8, <1>9, <1>10 DEF SafetyInv, Groups, PlaceInv

LEMMA SafetyKept == SafetyInv /\ [Next]_vars => SafetyInv'
<1> SUFFICES ASSUME SafetyInv, [Next]_vars PROVE SafetyInv'
  OBVIOUS
<1>1. Groups /\ OneAttemptPerUser /\ PlaceInv /\ LoadInv /\ VerdictInv /\ JustifiedInv /\ BusyInv /\ ReadInv
  BY DEF SafetyInv
<1>2. CASE PriceMoves \/ \E u \in Users, pr \in Protocols, acc \in Accounts : AccountMoves(u, pr, acc)
  <2>1. UNCHANGED <<liquidating, actor, output>>
    BY <1>2 DEF PriceMoves, AccountMoves
  <2>2. EnvironmentTypes' /\ VerdictInv' /\ JustifiedInv' /\ LoadInv'
    BY <1>1, <1>2, MovesKeep
  <2>3. TrackerTypes'
    BY <1>1, <1>2, MovesTypeTracker DEF Groups
  <2>4. ActorTypes' /\ OutputTypes' /\ BusyInv' /\ ReadInv'
    BY <1>1, <2>1 DEF Groups, ActorTypes, OutputTypes, BusyInv, ReadInv, output
  <2>5. HoldInv' /\ QueueInv' /\ KeptInv'
    BY <1>1, <2>1 DEF PlaceInv, HoldInv, QueueInv, KeptInv, output
  <2>6. OneAttemptPerUser'
    BY <1>1, <2>1 DEF OneAttemptPerUser, Attempting
  <2>7. QED
    BY <2>2, <2>3, <2>4, <2>5, <2>6 DEF SafetyInv, Groups, PlaceInv
<1>3. ASSUME NEW a \in Actors, Actor(a)
      PROVE  SafetyInv'
  BY <1>3, ActorKeeps
<1>4. CASE Consume
  <2>1. PlaceInv' /\ LoadInv' /\ OutputTypes'
    BY <1>1, <1>4, ConsumeKeeps
  <2>2. UNCHANGED <<environment, faults, logChan, tracker, liquidating, actor>>
    BY <1>4 DEF Consume
  <2>3. EnvironmentTypes' /\ TrackerTypes' /\ ActorTypes'
    BY <1>1, <2>2 DEF Groups, EnvironmentTypes, TrackerTypes, ActorTypes, environment, tracker
  <2>4. BusyInv' /\ ReadInv' /\ JustifiedInv'
    BY <1>1, <2>2 DEF BusyInv, ReadInv, JustifiedInv, environment
  <2>5. VerdictInv'
    BY <1>1, <2>2 DEF VerdictInv, Sound, environment
  <2>6. OneAttemptPerUser'
    BY <1>1, <2>2 DEF OneAttemptPerUser, Attempting
  <2>7. QED
    BY <2>1, <2>3, <2>4, <2>5, <2>6 DEF SafetyInv, Groups
<1>5. CASE Cleanup \/ \E u \in Users : TenMinutes(u)
  <2>1. /\ UNCHANGED environment /\ UNCHANGED <<liquidating, actor, output>>
        /\ faults' = faults \/ (faults < MaxFaults /\ faults' = faults + 1)
    BY <1>5 DEF Cleanup, TenMinutes, environment, output
  <2>2. UNCHANGED <<chain, priced, justified, liquidating, actor, pool, load, exec>>
    BY <2>1 DEF environment, output
  <2>3. TrackerTypes' /\ EnvironmentTypes'
    BY <1>1, <1>5, <2>1, OldTypesTracker, EnvironmentStays DEF Groups
  <2>4. QED
    BY <2>2, <2>3, Stuttering DEF SafetyInv, Groups
<1>6. CASE UNCHANGED vars
  <2>1. UNCHANGED <<chain, priced, justified, liquidating, actor, pool, load, exec>>
    BY <1>6 DEF vars, environment, output
  <2>2. EnvironmentTypes' /\ TrackerTypes'
    BY <1>1, <1>6 DEF Groups, EnvironmentTypes, TrackerTypes, vars, environment, tracker
  <2>3. QED
    BY <2>1, <2>2, Stuttering DEF SafetyInv, Groups
<1>7. QED
  BY <1>2, <1>3, <1>4, <1>5, <1>6 DEF Next

LEMMA SafetyAlways == Spec => []SafetyInv
  BY SafetyInitially, SafetyKept, PTL DEF Spec

\* Every variable keeps its type, the channels their capacity and the marks of age
\* belong to known users (liquidity.go:158-208).
THEOREM LiquidationTyped == Spec => []TypeOK
<1>1. SafetyInv => TypeOK
  BY GroupsAreTypes DEF SafetyInv
<1>2. QED
  BY <1>1, SafetyAlways, PTL

\* However many processors see a user, one attempt on it is made at a time, and the
\* mark goes with the attempt on every exit (liquidity.go:1160-1172).
THEOREM AttemptsExclude == Spec => []OneAttemptPerUser
<1>1. SafetyInv => OneAttemptPerUser
  BY DEF SafetyInv
<1>2. QED
  BY <1>1, SafetyAlways, PTL

\* A payload that waits to be sent is for an account that was liquidatable or looked so
\* without a price, or comes of a reading that was not of one whole account: one that
\* moved between the calls, an empty answer, an asset left out (liquidity.go:684, 716-730).
THEOREM ReadingsJustify == Spec => []HealthyOnlyIfMisread
<1>1. SafetyInv => HealthyOnlyIfMisread
  <2> SUFFICES ASSUME SafetyInv, NEW i \in 1..Len(exec)
               PROVE  Sound(load[exec[i]].user, load[exec[i]].pos)
    BY DEF HealthyOnlyIfMisread, Sound
  <2>1. exec \in Seq(Payloads)
    BY DEF SafetyInv, Groups, OutputTypes
  <2>2. exec[i] \in Payloads /\ exec[i] \notin pool
    BY <2>1, ElementOfSeq DEF SafetyInv, PlaceInv, QueueInv
  <2>3. QED
    BY <2>2 DEF SafetyInv, LoadInv
<1>2. QED
  BY <1>1, SafetyAlways, PTL

\* No exit of an attempt loses a payload object or leaves it in two places
\* (liquidity.go:1304-1348).
THEOREM PayloadsInPlace == Spec => []OnePlacePerPayload
<1>1. SafetyInv => OnePlacePerPayload
  <2> SUFFICES ASSUME SafetyInv, NEW p \in Payloads
               PROVE  Cardinality({a \in Actors : actor[a].payload = p})
                        + Cardinality({i \in 1..Len(exec) : exec[i] = p}) + (IF p \in pool THEN 1 ELSE 0) = 1
    BY DEF OnePlacePerPayload
  <2> DEFINE held == {a \in Actors : actor[a].payload = p}
             queued == {i \in 1..Len(exec) : exec[i] = p}
  <2>1. p # None
    BY LiquidationAssumption DEF None
  <2>2. Cardinality({}) = 0
    BY FS_EmptySet
  <2>3. ASSUME p \in pool
        PROVE  Cardinality(held) = 0 /\ Cardinality(queued) = 0
    <3>1. held = {}
      BY <2>3 DEF SafetyInv, PlaceInv, HoldInv, QueueInv
    <3>2. queued = {}
      BY <2>3 DEF SafetyInv, PlaceInv, HoldInv, QueueInv
    <3> HIDE DEF held, queued
    <3>3. QED
      BY <2>2, <3>1, <3>2, Zenon
  <2>4. ASSUME p \notin pool, NEW a \in Actors, actor[a].payload = p
        PROVE  Cardinality(held) = 1 /\ Cardinality(queued) = 0
    <3>1. held = {a}
      BY <2>1, <2>4 DEF SafetyInv, PlaceInv, HoldInv
    <3>2. queued = {}
      BY <2>4 DEF SafetyInv, PlaceInv, QueueInv
    <3>3. Cardinality({a}) = 1
      BY FS_Singleton, Zenon
    <3> HIDE DEF held, queued
    <3>4. QED
      BY <2>2, <3>1, <3>2, <3>3, Zenon
  <2>5. ASSUME p \notin pool, NEW i \in 1..Len(exec), exec[i] = p
        PROVE  Cardinality(held) = 0 /\ Cardinality(queued) = 1
    <3>1. held = {}
      BY <2>5 DEF SafetyInv, PlaceInv, QueueInv
    <3>2. queued = {i}
      BY <2>5 DEF SafetyInv, PlaceInv, QueueInv
    <3>3. Cardinality({i}) = 1
      BY FS_Singleton, Zenon
    <3> HIDE DEF held, queued
    <3>4. QED
      BY <2>2, <3>1, <3>2, <3>3, Zenon
  <2>6. CASE p \in pool
    <3> HIDE DEF held, queued
    <3>1. Cardinality(held) + Cardinality(queued) + (IF p \in pool THEN 1 ELSE 0) = 1
      BY <2>3, <2>6
    <3>2. QED
      BY <3>1 DEF held, queued
  <2>7. CASE p \notin pool
    <3>1. \/ Cardinality(held) = 1 /\ Cardinality(queued) = 0
          \/ Cardinality(held) = 0 /\ Cardinality(queued) = 1
      <4>1. \/ \E a \in Actors : actor[a].payload = p
            \/ \E i \in 1..Len(exec) : exec[i] = p
        BY <2>7 DEF SafetyInv, PlaceInv, KeptInv
      <4> HIDE DEF held, queued
      <4>2. QED
        BY <2>4, <2>5, <2>7, <4>1, Zenon
    <3> HIDE DEF held, queued
    <3>2. Cardinality(held) + Cardinality(queued) + (IF p \in pool THEN 1 ELSE 0) = 1
      BY <2>7, <3>1
    <3>3. QED
      BY <3>2 DEF held, queued
  <2>8. QED
    BY <2>6, <2>7
<1>2. QED
  BY <1>1, SafetyAlways, PTL
=============================================================================
