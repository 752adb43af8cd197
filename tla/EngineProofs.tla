----------------------------- MODULE EngineProofs -----------------------------
(***************************************************************************)
(* Proofs about Engine, for any goroutines, sessions, data sources,        *)
(* drivers and routers.                                                    *)
(*                                                                         *)
(* Two invariants: IInv of the sessions, RInv of the data sources.  What   *)
(* one goroutine may rely on at its place of a call is stated by MakingOK  *)
(* and ClosingOK of that goroutine alone; what keeps two goroutines apart  *)
(* is Apart, and Alone for a link that is being opened.                    *)
(***************************************************************************)
EXTENDS Engine, TLAPS

ClosingPlaces == {"load", "inner", "remove", "delete", "visit"}
Gone == {"remove", "delete", "visit"}

(* A session being made is in nobody else's hands, and unknown until it    *)
(* has been made.                                                          *)
MakingOK(g) ==
  at[g] \in Making =>
    /\ task[g].on \in Sessions /\ stored[task[g].on] = NoSession
    /\ \A id \in Sessions : stored[id] # task[g].on
    /\ at[g] = "store" <=> kind[task[g].on] # NoSession

(* A session being closed has been made, and once its inner session is     *)
(* closed it stays so.  SessionFactory found it under its own id, or under *)
(* that of a session that SetSession has displaced.                        *)
ClosingOK(g) ==
  at[g] \in ClosingPlaces =>
    /\ task[g].on \in Sessions /\ kind[task[g].on] # NoSession
    /\ at[g] \in Gone => task[g].on \notin live \ displaced
    /\ at[g] \in {"delete", "visit"} \/ task[g].caller # Idle =>
         task[g].key \in Sessions /\ task[g].key \in {task[g].on} \cup displaced

Apart ==
  \A g, h \in Goroutines :
    g # h /\ at[g] \in Making /\ at[h] \in Making \cup ClosingPlaces => task[g].on # task[h].on

(* Under the id of a session is no other, unless SetSession put it there.  *)
OwnPlace == \A s \in Sessions \ displaced : stored[s] \in {s, NoSession}

IInv ==
  /\ TypeOK
  /\ \A g \in Goroutines : MakingOK(g) /\ ClosingOK(g)
  /\ Apart
  /\ OwnPlace
  /\ NoneLost

-----------------------------------------------------------------------------
(* A step of g changes nothing of what other goroutines have.              *)
LEMMA NoTaskTyped == NoTask \in Tasks
BY NoneAssumption, RoutersAssumption DEF NoTask, Tasks, Kinds, Idle

LEMMA StepDoes ==
  ASSUME TypeOK, NEW g \in Goroutines, NEW from, NEW to \in Places, NEW t \in Tasks,
         Step(g, from, to, t)
  PROVE  /\ at[g] = from /\ at'[g] = to
         /\ task'[g] = IF to = Idle THEN NoTask ELSE t
         /\ \A h \in Goroutines \ {g} : at'[h] = at[h] /\ task'[h] = task[h]
         /\ at' \in [Goroutines -> Places]
         /\ task' \in [Goroutines -> Tasks]
<1> USE NoTaskTyped
<1> HIDE DEF NoTask
<1>1. QED
  BY DEF TypeOK, Step

(* Nor does it take what others rely on from them, if it touches only what *)
(* it is making itself and otherwise just empties the map.                 *)
Touches(g, s) == at[g] \in Making /\ task[g].on = s

TouchesOwn(g) ==
  /\ \A s \in Sessions : kind'[s] # kind[s] \/ s \in live' \ live => Touches(g, s)
  /\ \A id \in Sessions : \/ stored'[id] \in {stored[id], NoSession}
                          \/ Touches(g, id) /\ stored'[id] = id
  /\ displaced' = displaced

LEMMA OthersKeep ==
  ASSUME IInv, NEW g \in Goroutines, TouchesOwn(g),
         \A h \in Goroutines \ {g} : at'[h] = at[h] /\ task'[h] = task[h],
         NEW h \in Goroutines \ {g}
  PROVE  MakingOK(h)' /\ ClosingOK(h)'
<1>1. at'[h] = at[h] /\ task'[h] = task[h] /\ h # g
  OBVIOUS
<1>2. at[h] \in Making \cup ClosingPlaces => ~Touches(g, task[h].on)
  BY DEF IInv, Apart, Touches
<1>3. MakingOK(h)'
  BY <1>1, <1>2, NoneAssumption DEF IInv, MakingOK, TouchesOwn, Touches
<1>4. ClosingOK(h)'
  BY <1>1, <1>2 DEF IInv, ClosingOK, ClosingPlaces, Gone, TouchesOwn
<1>5. QED
  BY <1>3, <1>4

(* Apart, as far as g goes.                                                *)
ApartOf(g) ==
  \A h \in Goroutines \ {g} :
    /\ at[g] \in Making /\ at[h] \in Making \cup ClosingPlaces => task[g].on # task[h].on
    /\ at[h] \in Making /\ at[g] \in ClosingPlaces => task[g].on # task[h].on

OwnOK(g) == MakingOK(g) /\ ClosingOK(g) /\ ApartOf(g)

LEMMA OwnFromInv ==
  ASSUME IInv, NEW g \in Goroutines
  PROVE  OwnOK(g) /\ task[g] \in Tasks /\ at[g] \in Places /\ TypeOK
BY DEF IInv, Apart, ApartOf, OwnOK, TypeOK

(* A step that changes what goroutines share.                              *)
LEMMA SharedStep ==
  ASSUME IInv, NEW g \in Goroutines, TouchesOwn(g),
         \A h \in Goroutines \ {g} : at'[h] = at[h] /\ task'[h] = task[h],
         TypeOK', OwnOK(g)', NoneLost'
  PROVE  IInv'
<1>1. \A h \in Goroutines \ {g} : MakingOK(h)' /\ ClosingOK(h)'
  BY OthersKeep
<1>2. Apart'
  BY DEF IInv, Apart, OwnOK, ApartOf
<1>3. OwnPlace'
  BY DEF IInv, OwnPlace, TouchesOwn
<1>4. QED
  BY <1>1, <1>2, <1>3 DEF IInv, OwnOK

(* One that changes nothing of the sessions.                               *)
LEMMA PrivateStep ==
  ASSUME IInv, NEW g \in Goroutines, NEW from, NEW to \in Places, NEW t \in Tasks,
         Step(g, from, to, t), from # "store", UNCHANGED keeping, TypeOK', OwnOK(g)'
  PROVE  IInv'
<1>1. at[g] = from /\ \A h \in Goroutines \ {g} : at'[h] = at[h] /\ task'[h] = task[h]
  BY StepDoes DEF IInv
<1>2. TouchesOwn(g)
  BY DEF TouchesOwn, keeping
<1>3. NoneLost'
  BY <1>1 DEF IInv, NoneLost, keeping
<1>4. QED
  BY <1>1, <1>2, <1>3, SharedStep

LEMMA QuietTyped ==
  ASSUME TypeOK, NEW g \in Goroutines, NEW from, NEW to \in Places, NEW t \in Tasks,
         Step(g, from, to, t), UNCHANGED <<routing, keeping>>
  PROVE  TypeOK'
<1>1. at' \in [Goroutines -> Places] /\ task' \in [Goroutines -> Tasks]
  BY StepDoes
<1>2. QED
  BY <1>1 DEF TypeOK, routing, keeping

(* At a place where g neither makes nor closes a session.                  *)
Elsewhere == Places \ (Making \cup ClosingPlaces)

LEMMA ElsewhereStep ==
  ASSUME IInv, NEW g \in Goroutines, NEW from, NEW to \in Elsewhere, NEW t \in Tasks,
         Step(g, from, to, t), from # "store", UNCHANGED keeping, TypeOK'
  PROVE  IInv'
<1>1. to \in Places /\ at'[g] = to
  BY StepDoes DEF Elsewhere, IInv
<1>2. OwnOK(g)'
  BY <1>1 DEF Elsewhere, OwnOK, MakingOK, ClosingOK, ApartOf
<1>3. QED
  BY <1>1, <1>2, PrivateStep

LEMMA PlacesAre ==
  /\ {Idle, "url", "range"} \subseteq Elsewhere
  /\ Elsewhere \subseteq Places
  /\ Making \subseteq Places \ {Idle} /\ ClosingPlaces \subseteq Places \ ({Idle} \cup Making)
BY DEF Idle, Places, Making, ClosingPlaces, Elsewhere

LEMMA ReturnStep ==
  ASSUME IInv, NEW g \in Goroutines, NEW from, from # "store",
         Go(g, from, Idle), UNCHANGED <<routing, keeping>>
  PROVE  IInv'
<1>1. task[g] \in Tasks /\ Idle \in Elsewhere /\ Idle \in Places /\ TypeOK
  BY OwnFromInv, PlacesAre
<1>2. TypeOK'
  BY <1>1, QuietTyped DEF Go
<1>3. QED
  BY <1>1, <1>2, ElsewhereStep DEF Go

-----------------------------------------------------------------------------
(* Making a session.                                                       *)
LEMMA NewSessionStep ==
  ASSUME IInv, NEW g \in Goroutines, NEW s \in Sessions, NEW type \in Kinds,
         NEW k \in Links \cup {NoLink}, NewSession(g, s, type, k)
  PROVE  IInv'
<1> DEFINE t == [NoTask EXCEPT !.on = s, !.router = router, !.link = k, !.kind = type]
<1>1. t \in Tasks /\ t.on = s
  <2>1. router \in Routers
    BY DEF IInv, TypeOK
  <2>2. QED
    BY <2>1, NoneAssumption DEF NoTask, Tasks, Idle, Kinds
<1>2. Step(g, Idle, "route", t) /\ UNCHANGED <<routing, keeping>> /\ kind[s] = NoSession
  BY DEF NewSession
<1>3. \A h \in Goroutines : at[h] \in Making => task[h].on # s
  BY DEF NewSession, BeingMade
<1>4. "route" \in Places /\ "route" # Idle /\ Idle # "store" /\ TypeOK
  BY DEF Places, Idle, IInv
<1> HIDE DEF t
<1>5. /\ at'[g] = "route" /\ task'[g] = t
      /\ \A h \in Goroutines \ {g} : at'[h] = at[h] /\ task'[h] = task[h]
  BY <1>1, <1>2, <1>4, StepDoes
<1>6. /\ stored[s] = NoSession /\ \A id \in Sessions : stored[id] # s
      /\ \A h \in Goroutines : at[h] \in ClosingPlaces => task[h].on # s
  BY <1>2, NoneAssumption DEF IInv, TypeOK, ClosingOK
<1>7. MakingOK(g)'
  BY <1>1, <1>2, <1>5, <1>6 DEF MakingOK, keeping
<1>8. ClosingOK(g)'
  BY <1>5 DEF ClosingOK, ClosingPlaces
<1>9. ApartOf(g)'
  BY <1>1, <1>3, <1>5, <1>6 DEF ApartOf, ClosingPlaces
<1>10. TypeOK'
  BY <1>1, <1>2, <1>4, QuietTyped
<1>11. QED
  BY <1>1, <1>2, <1>4, <1>7, <1>8, <1>9, <1>10, PrivateStep DEF OwnOK

LEMMA RouteTask ==
  ASSUME IInv, NEW g \in Goroutines, NEW k \in Candidates(g)
  PROVE  LET t == [task[g] EXCEPT !.link = k, !.db = opened[task[g].router][k]]
         IN  /\ t \in Tasks /\ t.on = task[g].on /\ t.link = k /\ k \in Links
             /\ t.router = task[g].router /\ t.db = opened[t.router][k]
<1>1. task[g] \in Tasks /\ task[g].router \in Routers /\ k \in Links
  BY OwnFromInv DEF Tasks, Candidates
<1>2. opened[task[g].router][k] \in Drivers \cup {NoDriver}
  BY <1>1 DEF IInv, TypeOK
<1>3. QED
  BY <1>1, <1>2 DEF Tasks

LEMMA DisturbTyped ==
  ASSUME TypeOK, NEW r \in Routers, NEW k \in Links, NEW places, Disturb(places, r, k)
  PROVE  /\ disturbed' \in [Routers -> SUBSET Links]
         /\ \A q \in Routers : disturbed[q] \subseteq disturbed'[q]
         /\ k \notin disturbed'[r] => ~Busy(places, r, k)
BY DEF TypeOK, Disturb

LEMMA RouteStep ==
  ASSUME IInv, NEW g \in Goroutines, Route(g)
  PROVE  IInv'
<1>1. PICK k \in Candidates(g) :
        /\ Step(g, "route", "driver",
                [task[g] EXCEPT !.link = k, !.db = opened[task[g].router][k]])
        /\ Disturb({"url"}, task[g].router, k)
  BY DEF Route
<1> DEFINE t == [task[g] EXCEPT !.link = k, !.db = opened[task[g].router][k]]
<1>2. t \in Tasks /\ t.on = task[g].on /\ k \in Links
  BY RouteTask
<1>3. Step(g, "route", "driver", t) /\ UNCHANGED <<router, opened, typed, keeping>>
  BY <1>1 DEF Route
<1> HIDE DEF t
<1>4. "driver" \in Places /\ "driver" # Idle /\ "route" # "store" /\ TypeOK
  BY DEF Places, Idle, IInv
<1>5. /\ at[g] = "route" /\ at'[g] = "driver" /\ task'[g] = t
      /\ \A h \in Goroutines \ {g} : at'[h] = at[h] /\ task'[h] = task[h]
      /\ at' \in [Goroutines -> Places] /\ task' \in [Goroutines -> Tasks]
  <2>1. t \in Tasks
    BY <1>2
  <2>2. Step(g, "route", "driver", t)
    BY <1>3
  <2>3. QED
    BY <1>4, <2>1, <2>2, StepDoes
<1>6. OwnOK(g) /\ task[g].router \in Routers
  BY OwnFromInv DEF Tasks
<1>7. disturbed' \in [Routers -> SUBSET Links]
  BY <1>1, <1>2, <1>4, <1>6, DisturbTyped
<1>8. TypeOK'
  BY <1>3, <1>5, <1>7 DEF IInv, TypeOK, keeping
<1>9. MakingOK(g)' /\ ClosingOK(g)'
  BY <1>2, <1>3, <1>5, <1>6 DEF OwnOK, MakingOK, ClosingOK, ClosingPlaces, Making, keeping
<1>10. ApartOf(g)'
  BY <1>2, <1>5, <1>6 DEF OwnOK, ApartOf, Making, ClosingPlaces
<1>11. QED
  BY <1>2, <1>3, <1>4, <1>8, <1>9, <1>10, PrivateStep DEF OwnOK

LEMMA RouteFailsStep ==
  ASSUME IInv, NEW g \in Goroutines, RouteFails(g)
  PROVE  IInv'
BY ReturnStep DEF RouteFails

LEMMA NewLocalTask ==
  ASSUME IInv, NEW g \in Goroutines, at[g] = "driver" => task[g].link \in Links
  PROVE  LET t == [task[g] EXCEPT !.driver = UrlOf(task[g].link, task[g].router)]
         IN  at[g] = "driver" =>
               /\ t \in Tasks /\ t.on = task[g].on /\ t.driver = typed[t.router][t.link]
               /\ t.link = task[g].link /\ t.router = task[g].router /\ t.db = task[g].db
<1>1. task[g] \in Tasks /\ task[g].router \in Routers
  BY OwnFromInv DEF Tasks
<1>2. at[g] = "driver" => typed[task[g].router][task[g].link] \in Drivers \cup {NoDriver}
  BY <1>1 DEF IInv, TypeOK
<1>3. QED
  BY <1>1, <1>2 DEF Tasks, UrlOf

(* The link has been found when the session is made.                       *)
FoundOK == \A g \in Goroutines : at[g] \in {"url", "driver", "store"} => task[g].link \in Links

LEMMA NewLocalStep ==
  ASSUME IInv, FoundOK, NEW g \in Goroutines, NewLocal(g)
  PROVE  IInv'
<1> DEFINE on == task[g].on
           t == [task[g] EXCEPT !.driver = UrlOf(task[g].link, task[g].router)]
<1>1. task[g] \in Tasks /\ OwnOK(g) /\ task[g].kind \in Kinds
  BY OwnFromInv DEF Tasks
<1>2. Step(g, "driver", "store", t) /\ at[g] = "driver"
  BY DEF NewLocal, Step
<1>3. t \in Tasks /\ t.on = on
  BY <1>2, NewLocalTask DEF FoundOK
<1> HIDE DEF t
<1>4. "store" \in Places /\ "store" # Idle /\ TypeOK
  BY DEF Places, Idle, IInv
<1>5. /\ at'[g] = "store" /\ task'[g] = t
      /\ \A h \in Goroutines \ {g} : at'[h] = at[h] /\ task'[h] = task[h]
      /\ at' \in [Goroutines -> Places] /\ task' \in [Goroutines -> Tasks]
  <2>1. t \in Tasks
    BY <1>3
  <2>2. Step(g, "driver", "store", t)
    BY <1>2
  <2>3. QED
    BY <1>4, <2>1, <2>2, StepDoes
<1>6. /\ on \in Sessions /\ stored[on] = NoSession /\ kind[on] = NoSession
      /\ \A id \in Sessions : stored[id] # on
  BY <1>1, <1>2 DEF OwnOK, MakingOK, Making
<1>7. /\ kind' = [kind EXCEPT ![on] = task[g].kind]
      /\ live' = live \cup {on}
      /\ UNCHANGED <<routing, stored, displaced>>
  BY DEF NewLocal
<1>8. kind'[on] \in Kinds /\ kind'[on] # NoSession /\ \A s \in Sessions \ {on} : kind'[s] = kind[s]
  BY <1>1, <1>6, <1>7, NoneAssumption DEF IInv, TypeOK, Kinds
<1>9. TypeOK'
  <2>1. kind' \in [Sessions -> Kinds \cup {NoSession}]
    BY <1>1, <1>7 DEF IInv, TypeOK
  <2>2. stored' = stored /\ stored \in [Sessions -> Sessions \cup {NoSession}]
    BY <1>7 DEF IInv, TypeOK
  <2>3. \A id \in Sessions :
          stored'[id] # NoSession => kind'[id] # NoSession /\ kind'[stored'[id]] # NoSession
    BY <1>8, <2>2 DEF IInv, TypeOK
  <2>4. live' \subseteq Sessions
    BY <1>6, <1>7 DEF IInv, TypeOK
  <2>5. QED
    BY <1>5, <1>7, <2>1, <2>2, <2>3, <2>4 DEF IInv, TypeOK, routing
<1>10. MakingOK(g)'
  BY <1>3, <1>5, <1>6, <1>7, <1>8 DEF MakingOK
<1>11. ClosingOK(g)'
  BY <1>5 DEF ClosingOK, ClosingPlaces
<1>12. ApartOf(g)'
  BY <1>1, <1>2, <1>3, <1>5 DEF OwnOK, ApartOf, Making, ClosingPlaces
<1>13. NoneLost'
  BY <1>2, <1>3, <1>5, <1>7 DEF IInv, NoneLost
<1>14. TouchesOwn(g)
  BY <1>2, <1>7, <1>8 DEF TouchesOwn, Touches, Making
<1>15. QED
  BY <1>5, <1>9, <1>10, <1>11, <1>12, <1>13, <1>14, SharedStep DEF OwnOK

LEMMA StoreStep ==
  ASSUME IInv, NEW g \in Goroutines, Store(g)
  PROVE  IInv'
<1> DEFINE on == task[g].on
<1>1. Step(g, "store", Idle, task[g]) /\ task[g] \in Tasks /\ OwnOK(g) /\ TypeOK
  BY OwnFromInv DEF Store, Go
<1>2. /\ at[g] = "store" /\ at'[g] = Idle
      /\ \A h \in Goroutines \ {g} : at'[h] = at[h] /\ task'[h] = task[h]
      /\ at' \in [Goroutines -> Places] /\ task' \in [Goroutines -> Tasks]
  BY <1>1, StepDoes, PlacesAre
<1>3. stored' = [stored EXCEPT ![on] = on] /\ UNCHANGED <<routing, kind, displaced, live>>
  BY DEF Store
<1>4. on \in Sessions /\ kind[on] # NoSession
  BY <1>1, <1>2 DEF OwnOK, MakingOK, Making
<1>5. TypeOK'
  BY <1>2, <1>3, <1>4 DEF IInv, TypeOK, routing
<1>6. OwnOK(g)'
  BY <1>2 DEF OwnOK, MakingOK, ClosingOK, ApartOf, Making, ClosingPlaces, Idle
<1>7. stored'[on] = on /\ \A s \in Sessions \ {on} : stored'[s] = stored[s]
  BY <1>3, <1>4 DEF IInv, TypeOK
<1>8. NoneLost'
  <2> SUFFICES ASSUME NEW s \in (live \ displaced)', s # on
               PROVE  stored'[s] = s \/ \E h \in Goroutines : at'[h] = "store" /\ task'[h].on = s
    BY <1>7 DEF NoneLost
  <2>1. s \in live \ displaced /\ s \in Sessions
    BY <1>3 DEF IInv, TypeOK
  <2>2. stored[s] = s \/ \E h \in Goroutines : at[h] = "store" /\ task[h].on = s
    BY <2>1 DEF IInv, NoneLost
  <2>3. CASE stored[s] = s
    BY <1>7, <2>1, <2>3
  <2>4. ASSUME NEW h \in Goroutines, at[h] = "store", task[h].on = s
        PROVE  at'[h] = "store" /\ task'[h].on = s
    <3>1. h # g
      BY <2>4
    <3>2. QED
      BY <1>2, <2>4, <3>1
  <2>5. QED
    BY <2>2, <2>3, <2>4
<1>9. TouchesOwn(g)
  BY <1>2, <1>3, <1>7 DEF TouchesOwn, Touches, Making
<1>10. QED
  BY <1>2, <1>5, <1>6, <1>8, <1>9, SharedStep

(* A session that has been handed out is nobody's to make; the one whose   *)
(* id is given to another is displaced.                                    *)
LEMMA SetSessionStep ==
  ASSUME IInv, NEW id \in Sessions, NEW s \in Sessions, SetSession(id, s)
  PROVE  IInv'
<1>1. /\ kind[id] # NoSession /\ kind[s] # NoSession
      /\ stored' = [stored EXCEPT ![id] = s]
      /\ displaced' = IF s = id THEN displaced ELSE displaced \cup {id}
      /\ UNCHANGED <<at, task, routing, kind, live>>
      /\ \A g \in Goroutines : at[g] \in Making => task[g].on \notin {id, s}
  BY DEF SetSession, Handed, BeingMade
<1>2. /\ stored'[id] = s /\ \A i \in Sessions \ {id} : stored'[i] = stored[i]
      /\ displaced \subseteq displaced' /\ displaced' \subseteq displaced \cup {id}
      /\ s # id => id \in displaced'
  BY <1>1 DEF IInv, TypeOK
<1>3. TypeOK'
  <2>1. \A i \in Sessions :
          stored'[i] # NoSession => kind'[i] # NoSession /\ kind'[stored'[i]] # NoSession
    BY <1>1, <1>2 DEF IInv, TypeOK
  <2>2. stored' \in [Sessions -> Sessions \cup {NoSession}]
    BY <1>1 DEF IInv, TypeOK
  <2>3. QED
    BY <1>1, <1>2, <2>1, <2>2 DEF IInv, TypeOK, routing
<1>4. ASSUME NEW g \in Goroutines PROVE MakingOK(g)' /\ ClosingOK(g)'
  <2>1. MakingOK(g)'
    BY <1>1, <1>2 DEF IInv, MakingOK
  <2>2. ClosingOK(g)'
    BY <1>1, <1>2 DEF IInv, ClosingOK
  <2>3. QED
    BY <2>1, <2>2
<1>5. Apart'
  BY <1>1 DEF IInv, Apart
<1>6. OwnPlace'
  BY <1>2 DEF IInv, OwnPlace
<1>7. NoneLost'
  BY <1>1, <1>2 DEF IInv, NoneLost, TypeOK
<1>8. QED
  BY <1>3, <1>4, <1>5, <1>6, <1>7 DEF IInv

-----------------------------------------------------------------------------
(* Closing sessions.                                                       *)
LEMMA ToCloseStep ==
  ASSUME IInv, NEW g \in Goroutines, NEW from, from # "store", NEW s \in Sessions,
         NEW t \in Tasks, t.on = s, kind[s] # NoSession,
         \A h \in Goroutines : at[h] \in Making => task[h].on # s,
         t.caller # Idle => t.key \in Sessions /\ t.key \in {s} \cup displaced,
         Step(g, from, CloseOf(s), t), UNCHANGED <<routing, keeping>>
  PROVE  IInv'
<1> DEFINE to == CloseOf(s)
<1>1. to \in Places /\ to \in {"load", "inner"} /\ to # Idle /\ TypeOK
  BY DEF CloseOf, Places, Idle, IInv
<1>2. Step(g, from, to, t)
  OBVIOUS
<1> HIDE DEF to
<1>3. /\ at'[g] = to /\ task'[g] = t
      /\ \A h \in Goroutines \ {g} : at'[h] = at[h] /\ task'[h] = task[h]
  BY <1>1, <1>2, StepDoes
<1>4. MakingOK(g)'
  BY <1>1, <1>3 DEF MakingOK, Making
<1>5. ClosingOK(g)'
  BY <1>1, <1>3 DEF ClosingOK, Gone, keeping
<1>6. ApartOf(g)'
  BY <1>1, <1>3 DEF ApartOf, Making, ClosingPlaces
<1>7. TypeOK'
  BY <1>1, <1>2, QuietTyped
<1>8. QED
  BY <1>1, <1>2, <1>4, <1>5, <1>6, <1>7, PrivateStep DEF OwnOK

LEMMA CloseSessionStep ==
  ASSUME IInv, NEW g \in Goroutines, NEW s \in Sessions, CloseSession(g, s)
  PROVE  IInv'
<1> DEFINE t == [NoTask EXCEPT !.on = s]
<1>1. t \in Tasks /\ t.on = s /\ t.caller = Idle
  BY NoneAssumption, RoutersAssumption DEF NoTask, Tasks, Kinds, Idle
<1>2. /\ Step(g, Idle, CloseOf(s), t) /\ UNCHANGED <<routing, keeping>> /\ Idle # "store"
      /\ kind[s] # NoSession /\ \A h \in Goroutines : at[h] \in Making => task[h].on # s
  BY DEF CloseSession, Handed, BeingMade, Idle
<1> HIDE DEF t
<1>3. QED
  BY <1>1, <1>2, ToCloseStep

(* What SessionFactory finds under an id.                                  *)
LEMMA InMap ==
  ASSUME IInv, NEW g \in Goroutines, NEW id \in Sessions, stored[id] # NoSession,
         NEW caller \in {"delete", "visit"}
  PROVE  LET s == stored[id]
             t == ClosingOf(g, id, caller)
         IN  /\ s \in Sessions /\ kind[s] # NoSession
             /\ \A h \in Goroutines : at[h] \in Making => task[h].on # s
             /\ id \in {s} \cup displaced
             /\ t \in Tasks /\ t.on = s /\ t.key = id
<1>1. stored[id] \in Sessions /\ kind[stored[id]] # NoSession
  BY DEF IInv, TypeOK
<1>2. \A h \in Goroutines : at[h] \in Making => task[h].on # stored[id]
  BY DEF IInv, MakingOK
<1>3. id \in {stored[id]} \cup displaced
  BY DEF IInv, OwnPlace
<1>4. task[g].left \ {id} \in SUBSET Sessions
  BY OwnFromInv DEF Tasks
<1>5. ClosingOf(g, id, caller) \in Tasks
  BY <1>1, <1>4, NoneAssumption, RoutersAssumption DEF ClosingOf, NoTask, Tasks, Kinds, Idle
<1>6. ClosingOf(g, id, caller).on = stored[id] /\ ClosingOf(g, id, caller).key = id
  BY DEF ClosingOf, NoTask
<1>7. QED
  BY <1>1, <1>2, <1>3, <1>5, <1>6

LEMMA FoundStep ==
  ASSUME IInv, NEW g \in Goroutines, NEW id \in Sessions, stored[id] # NoSession,
         NEW caller \in {"delete", "visit"}, NEW from, from # "store",
         Step(g, from, CloseOf(stored[id]), ClosingOf(g, id, caller)),
         UNCHANGED <<routing, keeping>>
  PROVE  IInv'
<1> DEFINE s == stored[id]
           t == ClosingOf(g, id, caller)
<1>1. /\ s \in Sessions /\ kind[s] # NoSession
      /\ \A h \in Goroutines : at[h] \in Making => task[h].on # s
      /\ id \in {s} \cup displaced
      /\ t \in Tasks /\ t.on = s /\ t.key = id
  BY InMap
<1>2. Step(g, from, CloseOf(s), t)
  OBVIOUS
<1> HIDE DEF s, t
<1>3. QED
  BY <1>1, <1>2, ToCloseStep

LEMMA FactoryCloseStep ==
  ASSUME IInv, NEW g \in Goroutines, NEW id \in Sessions, FactoryClose(g, id)
  PROVE  IInv'
<1>1. Idle # "store"
  BY DEF Idle
<1>2. QED
  BY <1>1, FoundStep DEF FactoryClose

LEMMA VisitStep ==
  ASSUME IInv, NEW g \in Goroutines, NEW id \in Sessions, Visit(g, id)
  PROVE  IInv'
BY FoundStep DEF Visit, Kept

LEMMA CloseAllStep ==
  ASSUME IInv, NEW g \in Goroutines, NEW more \in SUBSET Sessions, CloseAll(g, more)
  PROVE  IInv'
<1> DEFINE t == [NoTask EXCEPT !.left = Kept(Sessions) \cup more]
<1>1. t \in Tasks
  <2>1. Kept(Sessions) \cup more \subseteq Sessions
    BY DEF Kept
  <2>2. QED
    BY <2>1, NoTaskTyped DEF Tasks
<1>2. /\ Step(g, Idle, "range", t) /\ UNCHANGED <<routing, keeping>>
      /\ Idle # "store" /\ "range" \in Elsewhere /\ "range" \in Places /\ TypeOK
  BY PlacesAre DEF CloseAll, Idle, IInv
<1> HIDE DEF t
<1>3. TypeOK'
  BY <1>1, <1>2, QuietTyped
<1>4. QED
  BY <1>1, <1>2, <1>3, ElsewhereStep DEF keeping

LEMMA RangeEndsStep ==
  ASSUME IInv, NEW g \in Goroutines, RangeEnds(g)
  PROVE  IInv'
BY ReturnStep DEF RangeEnds

(* Back from a session's Close, which has left it closed or displaced.     *)
Callers == {Idle, "delete", "visit"}

LEMMA BackOK ==
  ASSUME IInv, NEW g \in Goroutines, at[g] \in ClosingPlaces, at'[g] = task[g].caller,
         at'[g] # Idle => task'[g] = task[g] /\ task[g].on \notin live' \ displaced,
         kind' = kind, displaced' = displaced,
         \A h \in Goroutines \ {g} : at'[h] = at[h] /\ task'[h] = task[h]
  PROVE  OwnOK(g)'
<1>1. task[g] \in Tasks /\ at'[g] \in Callers /\ OwnOK(g)
  BY OwnFromInv DEF Tasks, Callers
<1>2. CASE at'[g] = Idle
  BY <1>2 DEF OwnOK, MakingOK, ClosingOK, ApartOf, Idle, Making, ClosingPlaces
<1>3. CASE at'[g] # Idle
  <2>1. at'[g] \in {"delete", "visit"} /\ task'[g] = task[g]
    BY <1>1, <1>3 DEF Callers
  <2>2. MakingOK(g)'
    BY <2>1 DEF MakingOK, Making
  <2>3. ClosingOK(g)'
    BY <1>1, <1>3, <2>1 DEF OwnOK, ClosingOK
  <2>4. ApartOf(g)'
    BY <1>1, <2>1 DEF OwnOK, ApartOf, Making, ClosingPlaces
  <2>5. QED
    BY <2>2, <2>3, <2>4 DEF OwnOK
<1>4. QED
  BY <1>2, <1>3

LEMMA LoadStep ==
  ASSUME IInv, NEW g \in Goroutines, Load(g)
  PROVE  IInv'
<1> DEFINE on == task[g].on
           to == IF stored[on] # NoSession THEN "inner" ELSE task[g].caller
<1>1. task[g] \in Tasks /\ task[g].caller \in Callers /\ OwnOK(g) /\ TypeOK
  BY OwnFromInv DEF Tasks, Callers
<1>2. to \in Places /\ "load" \in ClosingPlaces
  BY <1>1 DEF Places, Callers, Idle, ClosingPlaces
<1>3. Step(g, "load", to, task[g]) /\ UNCHANGED <<routing, keeping>>
  BY DEF Load, Go
<1>4. TypeOK'
  BY <1>1, <1>2, <1>3, QuietTyped
<1>5. to = IF stored[on] # NoSession THEN "inner" ELSE task[g].caller
  OBVIOUS
<1> HIDE DEF to
<1>6. /\ at[g] = "load" /\ at'[g] = to
      /\ to # Idle => task'[g] = task[g]
      /\ \A h \in Goroutines \ {g} : at'[h] = at[h] /\ task'[h] = task[h]
  BY <1>1, <1>2, <1>3, StepDoes
<1>7. OwnOK(g)'
  <2>1. CASE stored[on] # NoSession
    <3>1. at'[g] = "inner" /\ task'[g] = task[g]
      BY <1>5, <1>6, <2>1 DEF Idle
    <3>2. MakingOK(g)' /\ ClosingOK(g)'
      BY <1>1, <1>3, <1>6, <3>1 DEF OwnOK, MakingOK, ClosingOK, ClosingPlaces, Gone, Making, keeping
    <3>3. ApartOf(g)'
      BY <1>1, <1>6, <3>1 DEF OwnOK, ApartOf, Making, ClosingPlaces
    <3>4. QED
      BY <3>2, <3>3 DEF OwnOK
  <2>2. CASE stored[on] = NoSession
    <3>1. on \in Sessions /\ on \notin live \ displaced
      BY <1>1, <1>6, <2>2, NoneAssumption
      DEF IInv, NoneLost, OwnOK, ClosingOK, ApartOf, ClosingPlaces, Making
    <3>2. QED
      BY <1>2, <1>3, <1>5, <1>6, <2>2, <3>1, BackOK DEF keeping
  <2>3. QED
    BY <2>1, <2>2
<1>8. QED
  BY <1>1, <1>2, <1>3, <1>4, <1>7, PrivateStep

(* Only the map or the live sessions change.                               *)
LEMMA ClosingStep ==
  ASSUME IInv, NEW g \in Goroutines, NEW from \in ClosingPlaces, NEW to \in Places,
         Step(g, from, to, task[g]), UNCHANGED <<routing, kind, displaced>>,
         live' \subseteq live, stored' \in [Sessions -> Sessions \cup {NoSession}],
         \A id \in Sessions : stored'[id] \in {stored[id], NoSession},
         \A s \in live' \ displaced : stored'[s] = stored[s],
         OwnOK(g)'
  PROVE  IInv'
<1>1. /\ at[g] = from
      /\ \A h \in Goroutines \ {g} : at'[h] = at[h] /\ task'[h] = task[h]
      /\ at' \in [Goroutines -> Places] /\ task' \in [Goroutines -> Tasks]
  BY OwnFromInv, StepDoes
<1>2. TypeOK'
  BY <1>1 DEF IInv, TypeOK, routing
<1>3. NoneLost'
  BY <1>1 DEF IInv, NoneLost, ClosingPlaces, TypeOK
<1>4. TouchesOwn(g)
  BY DEF TouchesOwn
<1>5. QED
  BY <1>1, <1>2, <1>3, <1>4, SharedStep

LEMMA CloseInnerStep ==
  ASSUME IInv, NEW g \in Goroutines, CloseInner(g)
  PROVE  IInv'
<1> DEFINE on == task[g].on
           to == IF kind[on] = "Default" THEN "remove" ELSE task[g].caller
<1>1. task[g] \in Tasks /\ task[g].caller \in Callers /\ OwnOK(g) /\ TypeOK
  BY OwnFromInv DEF Tasks, Callers
<1>2. to \in Places /\ "inner" \in ClosingPlaces
  BY <1>1 DEF Places, Callers, Idle, ClosingPlaces
<1>3. Step(g, "inner", to, task[g])
  BY DEF CloseInner, Go
<1>4. live' = live \ {on} /\ UNCHANGED <<routing, kind, stored, displaced>>
  BY DEF CloseInner
<1>5. to = IF kind[on] = "Default" THEN "remove" ELSE task[g].caller
  OBVIOUS
<1> HIDE DEF to
<1>6. /\ at[g] = "inner" /\ at'[g] = to
      /\ to # Idle => task'[g] = task[g]
      /\ \A h \in Goroutines \ {g} : at'[h] = at[h] /\ task'[h] = task[h]
  BY <1>1, <1>2, <1>3, StepDoes
<1>7. OwnOK(g)'
  <2>1. CASE kind[on] = "Default"
    <3>1. at'[g] = "remove" /\ task'[g] = task[g]
      BY <1>5, <1>6, <2>1 DEF Idle
    <3>2. MakingOK(g)' /\ ClosingOK(g)'
      BY <1>1, <1>4, <1>6, <3>1 DEF OwnOK, MakingOK, ClosingOK, ClosingPlaces, Gone, Making
    <3>3. ApartOf(g)'
      BY <1>1, <1>6, <3>1 DEF OwnOK, ApartOf, Making, ClosingPlaces
    <3>4. QED
      BY <3>2, <3>3 DEF OwnOK
  <2>2. CASE kind[on] # "Default"
    BY <1>2, <1>4, <1>5, <1>6, <2>2, BackOK
  <2>3. QED
    BY <2>1, <2>2
<1>8. QED
  BY <1>1, <1>2, <1>3, <1>4, <1>7, ClosingStep DEF TypeOK

(* A session out of the map, under its own id, is closed or displaced.     *)
LEMMA RemoveStep ==
  ASSUME IInv, NEW g \in Goroutines, Remove(g)
  PROVE  IInv'
<1> DEFINE on == task[g].on
           to == task[g].caller
<1>1. task[g] \in Tasks /\ to \in Callers /\ OwnOK(g) /\ TypeOK
  BY OwnFromInv DEF Tasks, Callers
<1>2. to \in Places /\ "remove" \in ClosingPlaces
  BY <1>1 DEF Places, Callers, Idle, ClosingPlaces
<1>3. Step(g, "remove", to, task[g])
  BY DEF Remove, Go
<1>4. /\ stored' = [stored EXCEPT ![on] = NoSession]
      /\ UNCHANGED <<routing, kind, displaced, live>>
  BY DEF Remove
<1> HIDE DEF to
<1>5. /\ at[g] = "remove" /\ at'[g] = to
      /\ to # Idle => task'[g] = task[g]
      /\ \A h \in Goroutines \ {g} : at'[h] = at[h] /\ task'[h] = task[h]
  BY <1>1, <1>2, <1>3, StepDoes
<1>6. on \in Sessions /\ on \notin live \ displaced
  BY <1>1, <1>5 DEF OwnOK, ClosingOK, ClosingPlaces, Gone
<1>7. OwnOK(g)'
  BY <1>2, <1>4, <1>5, <1>6, BackOK DEF to
<1>8. QED
  BY <1>1, <1>2, <1>3, <1>4, <1>6, <1>7, ClosingStep DEF TypeOK

(* So is the session whose id SessionFactory deletes: it is the one that   *)
(* was found under it, or displaced.                                       *)
LEMMA DeleteStep ==
  ASSUME IInv, NEW g \in Goroutines, Delete(g)
  PROVE  IInv'
<1> DEFINE key == task[g].key
<1>1. task[g] \in Tasks /\ OwnOK(g) /\ TypeOK
  BY OwnFromInv
<1>2. PICK from \in {"delete", "visit"}, to \in {Idle, "range"} : Step(g, from, to, task[g])
  BY DEF Delete, Go
<1>3. /\ stored' = [stored EXCEPT ![key] = NoSession]
      /\ UNCHANGED <<routing, kind, displaced, live>>
  BY DEF Delete
<1>4. to \in Places /\ from \in ClosingPlaces /\ to \in Elsewhere
  BY PlacesAre DEF ClosingPlaces
<1>5. at[g] = from /\ at'[g] = to
  BY <1>1, <1>2, <1>4, StepDoes
<1>6. key \in Sessions /\ key \notin live \ displaced
  BY <1>1, <1>5 DEF OwnOK, ClosingOK, ClosingPlaces, Gone
<1>7. OwnOK(g)'
  BY <1>4, <1>5 DEF OwnOK, MakingOK, ClosingOK, ApartOf, Elsewhere
<1>8. QED
  BY <1>1, <1>2, <1>3, <1>4, <1>6, <1>7, ClosingStep DEF TypeOK

-----------------------------------------------------------------------------
(* Data sources and expressions, as far as the sessions go.                *)
LEMMA SetDBTask ==
  ASSUME IInv, NEW d \in Drivers, NEW k \in Links
  PROVE  LET t == [NoTask EXCEPT !.router = router, !.link = k, !.driver = d]
         IN  t \in Tasks /\ t.router = router /\ t.link = k /\ t.driver = d
<1>1. router \in Routers
  BY DEF IInv, TypeOK
<1>2. QED
  BY <1>1, NoneAssumption DEF NoTask, Tasks, Idle, Kinds

LEMMA SetDBStep ==
  ASSUME IInv, NEW g \in Goroutines, NEW d \in Drivers, NEW k \in Links, SetDB(g, d, k)
  PROVE  IInv'
<1> DEFINE t == [NoTask EXCEPT !.router = router, !.link = k, !.driver = d]
<1>1. t \in Tasks
  BY SetDBTask
<1>2. /\ Step(g, Idle, "url", t)
      /\ opened' = [opened EXCEPT ![router][k] = d]
      /\ Disturb({"url", "driver"}, router, k)
      /\ UNCHANGED <<router, typed, keeping>>
  BY DEF SetDB
<1>3. "url" \in Places /\ "url" \in Elsewhere /\ Idle # "store" /\ TypeOK /\ router \in Routers
  BY PlacesAre DEF Idle, IInv, TypeOK
<1> HIDE DEF t
<1>4. at' \in [Goroutines -> Places] /\ task' \in [Goroutines -> Tasks]
  BY <1>1, <1>2, <1>3, StepDoes
<1>5. opened' \in [Routers -> [Links -> Drivers \cup {NoDriver}]]
  BY <1>2, <1>3 DEF TypeOK
<1>6. disturbed' \in [Routers -> SUBSET Links]
  BY <1>2, <1>3, DisturbTyped
<1>7. TypeOK'
  BY <1>2, <1>4, <1>5, <1>6 DEF IInv, TypeOK, keeping
<1>8. QED
  BY <1>1, <1>2, <1>3, <1>7, ElsewhereStep

LEMMA SetUrlStep ==
  ASSUME IInv, NEW g \in Goroutines, SetUrl(g)
  PROVE  IInv'
<1>1. /\ Step(g, "url", Idle, task[g])
      /\ typed' = [typed EXCEPT ![task[g].router][task[g].link] = task[g].driver]
      /\ UNCHANGED <<router, opened, disturbed, keeping>>
  BY DEF SetUrl, Go
<1>2. task[g] \in Tasks /\ Idle \in Places /\ Idle \in Elsewhere /\ TypeOK
  BY OwnFromInv, PlacesAre
<1>3. at' \in [Goroutines -> Places] /\ task' \in [Goroutines -> Tasks]
  BY <1>1, <1>2, StepDoes
<1>4. typed' \in [Routers -> [Links -> Drivers \cup {NoDriver}]]
  BY <1>1, <1>2 DEF TypeOK, Tasks
<1>5. TypeOK'
  BY <1>1, <1>3, <1>4 DEF IInv, TypeOK, keeping
<1>6. QED
  BY <1>1, <1>2, <1>5, ElsewhereStep

(* A step that leaves goroutines and sessions alone.                       *)
LEMMA ApartStep ==
  ASSUME IInv, UNCHANGED <<at, task, keeping>>, TypeOK'
  PROVE  IInv'
<1>1. \A g \in Goroutines : MakingOK(g)' /\ ClosingOK(g)'
  BY DEF IInv, MakingOK, ClosingOK, keeping
<1>2. Apart' /\ OwnPlace' /\ NoneLost'
  BY DEF IInv, Apart, OwnPlace, NoneLost, keeping
<1>3. QED
  BY <1>1, <1>2 DEF IInv

LEMMA SetDataSourceRouterStep ==
  ASSUME IInv, NEW r \in Routers, SetDataSourceRouter(r)
  PROVE  IInv'
<1>1. TypeOK'
  BY DEF SetDataSourceRouter, IInv, TypeOK, keeping
<1>2. QED
  BY <1>1, ApartStep DEF SetDataSourceRouter

-----------------------------------------------------------------------------
(* Data sources.  Per link of a router that nobody has opened or looked up *)
(* while it was being opened: its maps agree unless it is being opened,    *)
(* and what goroutines know of it is what the maps say.                    *)
On(g, r, k) == task[g].router = r /\ task[g].link = k

(* Whoever opens a link is alone with it.                                  *)
Alone(r, k) ==
  \A g, h \in Goroutines :
    /\ at[g] = "url" /\ On(g, r, k)
    /\ at[h] \in {"url", "driver"} /\ On(h, r, k)
    => h = g

LinkOK(r, k) ==
  /\ Alone(r, k)
  /\ ~Busy({"url"}, r, k) => typed[r][k] = opened[r][k]
  /\ \A g \in Goroutines : On(g, r, k) =>
       /\ at[g] = "url" => task[g].driver = opened[r][k]
       /\ at[g] = "driver" => task[g].db = opened[r][k]
       /\ at[g] = "store" => task[g].driver = task[g].db

RInv == FoundOK /\ \A r \in Routers : \A k \in Links \ disturbed[r] : LinkOK(r, k)

(* What a step of g leaves of LinkOK, from g's own places and the maps.    *)
LEMMA LinkKept ==
  ASSUME NEW g \in Goroutines, NEW r \in Routers, NEW k \in Links, LinkOK(r, k),
         \A h \in Goroutines \ {g} : at'[h] = at[h] /\ task'[h] = task[h],
         ~(at[g] = "url" /\ On(g, r, k)),
         ~(at'[g] \in {"url", "driver", "store"} /\ On(g, r, k)'),
         opened'[r][k] = opened[r][k], typed'[r][k] = typed[r][k]
  PROVE  LinkOK(r, k)'
<1>1. Alone(r, k)'
  BY DEF LinkOK, Alone, On
<1>2. Busy({"url"}, r, k) => Busy({"url"}, r, k)'
  BY DEF Busy, On
<1>3. QED
  BY <1>1, <1>2 DEF LinkOK, On

LEMMA UnroutedStep ==
  ASSUME TypeOK, RInv, NEW g \in Goroutines, at[g] # "url",
         at'[g] \notin {"url", "driver", "store"},
         \A h \in Goroutines \ {g} : at'[h] = at[h] /\ task'[h] = task[h],
         UNCHANGED <<opened, typed, disturbed>>
  PROVE  RInv'
<1>1. FoundOK'
  BY DEF RInv, FoundOK
<1>2. ASSUME NEW r \in Routers, NEW k \in Links \ disturbed'[r] PROVE LinkOK(r, k)'
  BY <1>2, LinkKept DEF RInv
<1>3. QED
  BY <1>1, <1>2 DEF RInv

LEMMA SetDBRouted ==
  ASSUME IInv, RInv, NEW g \in Goroutines, NEW d \in Drivers, NEW l \in Links, SetDB(g, d, l)
  PROVE  RInv'
<1> DEFINE t == [NoTask EXCEPT !.router = router, !.link = l, !.driver = d]
<1>1. t \in Tasks /\ t.router = router /\ t.link = l /\ t.driver = d
  BY SetDBTask
<1>2. /\ Step(g, Idle, "url", t)
      /\ opened' = [opened EXCEPT ![router][l] = d]
      /\ Disturb({"url", "driver"}, router, l)
      /\ typed' = typed
  BY DEF SetDB
<1>3. "url" \in Places /\ "url" # Idle /\ TypeOK /\ router \in Routers
  BY DEF Idle, Places, IInv, TypeOK
<1> HIDE DEF t
<1>4. /\ at[g] = Idle /\ at'[g] = "url" /\ task'[g] = t
      /\ \A h \in Goroutines \ {g} : at'[h] = at[h] /\ task'[h] = task[h]
  BY <1>1, <1>2, <1>3, StepDoes
<1>5. /\ \A q \in Routers : disturbed[q] \subseteq disturbed'[q]
      /\ l \notin disturbed'[router] => ~Busy({"url", "driver"}, router, l)
  BY <1>2, <1>3, DisturbTyped
<1>6. FoundOK'
  BY <1>1, <1>4 DEF RInv, FoundOK
<1>7. ASSUME NEW r \in Routers, NEW k \in Links \ disturbed'[r] PROVE LinkOK(r, k)'
  <2>1. LinkOK(r, k)
    BY <1>5, <1>7 DEF RInv
  <2>2. CASE r = router /\ k = l
    <3>1. opened'[r][k] = d
      BY <1>2, <1>3, <2>2 DEF TypeOK
    <3>2. On(g, r, k)' /\ Busy({"url"}, r, k)'
      BY <1>1, <1>4, <2>2 DEF On, Busy
    <3>3. \A h \in Goroutines : at[h] \in {"url", "driver"} => ~On(h, r, k)
      BY <1>5, <1>7, <2>2 DEF Busy, On
    <3>4. Alone(r, k)'
      BY <1>4, <3>3 DEF Alone, On
    <3>5. ASSUME NEW h \in Goroutines, On(h, r, k)'
          PROVE  /\ at'[h] = "url" => task'[h].driver = opened'[r][k]
                 /\ at'[h] = "driver" => task'[h].db = opened'[r][k]
                 /\ at'[h] = "store" => task'[h].driver = task'[h].db
      BY <1>1, <1>4, <2>1, <3>1, <3>3, <3>5 DEF LinkOK, On
    <3>6. QED
      BY <3>2, <3>4, <3>5 DEF LinkOK
  <2>3. CASE ~(r = router /\ k = l)
    <3>1. opened'[r][k] = opened[r][k]
      BY <1>2, <1>3, <2>3 DEF TypeOK
    <3>2. ~On(g, r, k)' /\ at[g] # "url"
      BY <1>1, <1>4, <2>3 DEF On, Idle
    <3>3. QED
      BY <1>2, <1>4, <2>1, <3>1, <3>2, LinkKept
  <2>4. QED
    BY <2>2, <2>3
<1>8. QED
  BY <1>6, <1>7 DEF RInv

LEMMA SetUrlRouted ==
  ASSUME IInv, RInv, NEW g \in Goroutines, SetUrl(g)
  PROVE  RInv'
<1> DEFINE q == task[g].router
           l == task[g].link
<1>1. /\ Step(g, "url", Idle, task[g])
      /\ typed' = [typed EXCEPT ![q][l] = task[g].driver]
      /\ UNCHANGED <<opened, disturbed>>
  BY DEF SetUrl, Go
<1>2. task[g] \in Tasks /\ Idle \in Places /\ TypeOK /\ q \in Routers
  BY OwnFromInv, PlacesAre DEF Tasks
<1>3. /\ at[g] = "url" /\ at'[g] = Idle
      /\ \A h \in Goroutines \ {g} : at'[h] = at[h] /\ task'[h] = task[h]
  BY <1>1, <1>2, StepDoes
<1>4. l \in Links
  BY <1>3 DEF RInv, FoundOK
<1>5. FoundOK'
  BY <1>3 DEF RInv, FoundOK, Idle
<1>6. ASSUME NEW r \in Routers, NEW k \in Links \ disturbed'[r] PROVE LinkOK(r, k)'
  <2>1. LinkOK(r, k)
    BY <1>1, <1>6 DEF RInv
  <2>2. CASE r = q /\ k = l
    <3>1. typed'[r][k] = task[g].driver /\ task[g].driver = opened[r][k] /\ On(g, r, k)
      BY <1>1, <1>2, <1>3, <1>4, <2>1, <2>2 DEF LinkOK, On, TypeOK
    <3>2. \A h \in Goroutines : at'[h] \in {"url", "driver"} => ~On(h, r, k)'
      BY <1>3, <2>1, <3>1 DEF LinkOK, Alone, On, Idle
    <3>3. Alone(r, k)'
      BY <3>2 DEF Alone
    <3>4. ASSUME NEW h \in Goroutines, On(h, r, k)', at'[h] = "store"
          PROVE  task'[h].driver = task'[h].db
      BY <1>3, <2>1, <3>4 DEF LinkOK, On, Idle
    <3>5. QED
      BY <1>1, <3>1, <3>2, <3>3, <3>4 DEF LinkOK
  <2>3. CASE ~(r = q /\ k = l)
    <3>1. typed'[r][k] = typed[r][k]
      BY <1>1, <1>2, <2>3 DEF TypeOK
    <3>2. ~On(g, r, k) /\ at'[g] \notin {"url", "driver", "store"}
      BY <1>3, <2>3 DEF On, Idle
    <3>3. QED
      BY <1>1, <1>3, <2>1, <3>1, <3>2, LinkKept
  <2>4. QED
    BY <2>2, <2>3
<1>7. QED
  BY <1>5, <1>6 DEF RInv

LEMMA RouteRouted ==
  ASSUME IInv, RInv, NEW g \in Goroutines, Route(g)
  PROVE  RInv'
<1>1. PICK l \in Candidates(g) :
        /\ Step(g, "route", "driver",
                [task[g] EXCEPT !.link = l, !.db = opened[task[g].router][l]])
        /\ Disturb({"url"}, task[g].router, l)
  BY DEF Route
<1> DEFINE t == [task[g] EXCEPT !.link = l, !.db = opened[task[g].router][l]]
           q == task[g].router
<1>2. /\ t \in Tasks /\ l \in Links /\ t.link = l /\ t.router = q /\ t.db = opened[q][l]
  <2>1. /\ t \in Tasks /\ l \in Links /\ t.link = l /\ t.router = q /\ t.db = opened[t.router][l]
    BY RouteTask
  <2>2. QED
    BY <2>1
<1>3. /\ Step(g, "route", "driver", t) /\ UNCHANGED <<opened, typed>>
      /\ Disturb({"url"}, q, l)
  BY <1>1 DEF Route
<1> HIDE DEF t
<1>4. "driver" \in Places /\ "driver" # Idle /\ TypeOK /\ q \in Routers
  BY OwnFromInv DEF Places, Idle, IInv, Tasks
<1>5. /\ at[g] = "route" /\ at'[g] = "driver" /\ task'[g] = t
      /\ \A h \in Goroutines \ {g} : at'[h] = at[h] /\ task'[h] = task[h]
  <2>1. t \in Tasks
    BY <1>2
  <2>2. Step(g, "route", "driver", t)
    BY <1>3
  <2>3. QED
    BY <1>4, <2>1, <2>2, StepDoes
<1>6. /\ \A r \in Routers : disturbed[r] \subseteq disturbed'[r]
      /\ l \notin disturbed'[q] => ~Busy({"url"}, q, l)
  BY <1>2, <1>3, <1>4, DisturbTyped
<1>7. FoundOK'
  BY <1>2, <1>5 DEF RInv, FoundOK
<1>8. ASSUME NEW r \in Routers, NEW k \in Links \ disturbed'[r] PROVE LinkOK(r, k)'
  <2>1. LinkOK(r, k)
    BY <1>6, <1>8 DEF RInv
  <2>2. CASE r = q /\ k = l
    <3>1. \A h \in Goroutines : at'[h] = "url" => ~On(h, r, k)'
      BY <1>5, <1>6, <1>8, <2>2 DEF Busy, On
    <3>2. ~Busy({"url"}, r, k)
      BY <1>6, <1>8, <2>2
    <3>3. typed'[r][k] = opened'[r][k]
      BY <1>3, <2>1, <3>2 DEF LinkOK
    <3>4. Alone(r, k)'
      BY <3>1 DEF Alone
    <3>5. ASSUME NEW h \in Goroutines, On(h, r, k)'
          PROVE  /\ at'[h] = "url" => task'[h].driver = opened'[r][k]
                 /\ at'[h] = "driver" => task'[h].db = opened'[r][k]
                 /\ at'[h] = "store" => task'[h].driver = task'[h].db
      BY <1>2, <1>3, <1>5, <2>1, <2>2, <3>1, <3>5 DEF LinkOK, On
    <3>6. QED
      BY <3>3, <3>4, <3>5 DEF LinkOK
  <2>3. CASE ~(r = q /\ k = l)
    <3>1. ~On(g, r, k)' /\ at[g] # "url"
      BY <1>2, <1>5, <2>3 DEF On
    <3>2. QED
      BY <1>3, <1>5, <2>1, <3>1, LinkKept
  <2>4. QED
    BY <2>2, <2>3
<1>9. QED
  BY <1>7, <1>8 DEF RInv

LEMMA NewLocalRouted ==
  ASSUME IInv, RInv, NEW g \in Goroutines, NewLocal(g)
  PROVE  RInv'
<1> DEFINE t == [task[g] EXCEPT !.driver = UrlOf(task[g].link, task[g].router)]
<1>1. Step(g, "driver", "store", t) /\ at[g] = "driver" /\ UNCHANGED <<opened, typed, disturbed>>
  BY DEF NewLocal, Step, routing
<1>2. /\ t \in Tasks /\ t.driver = typed[t.router][t.link]
      /\ t.link = task[g].link /\ t.router = task[g].router /\ t.db = task[g].db
  BY <1>1, NewLocalTask DEF RInv, FoundOK
<1> HIDE DEF t
<1>3. "store" \in Places /\ "store" # Idle /\ TypeOK
  BY DEF Places, Idle, IInv
<1>4. /\ at'[g] = "store" /\ task'[g] = t
      /\ \A h \in Goroutines \ {g} : at'[h] = at[h] /\ task'[h] = task[h]
  <2>1. t \in Tasks
    BY <1>2
  <2>2. Step(g, "driver", "store", t)
    BY <1>1
  <2>3. QED
    BY <1>3, <2>1, <2>2, StepDoes
<1>5. FoundOK'
  BY <1>1, <1>2, <1>4 DEF RInv, FoundOK
<1>6. ASSUME NEW r \in Routers, NEW k \in Links \ disturbed'[r] PROVE LinkOK(r, k)'
  <2>1. LinkOK(r, k)
    BY <1>1, <1>6 DEF RInv
  <2>2. CASE On(g, r, k)
    <3>1. \A h \in Goroutines : at[h] = "url" => ~On(h, r, k)
      BY <1>1, <2>1, <2>2 DEF LinkOK, Alone
    <3>2. typed[r][k] = opened[r][k] /\ task[g].db = opened[r][k]
      BY <1>1, <2>1, <2>2, <3>1 DEF LinkOK, Busy, On
    <3>3. t.driver = t.db
      BY <1>2, <2>2, <3>2 DEF On
    <3>4. Alone(r, k)' /\ typed'[r][k] = opened'[r][k]
      BY <1>1, <1>4, <3>1, <3>2 DEF Alone, On
    <3>5. ASSUME NEW h \in Goroutines, On(h, r, k)'
          PROVE  /\ at'[h] = "url" => task'[h].driver = opened'[r][k]
                 /\ at'[h] = "driver" => task'[h].db = opened'[r][k]
                 /\ at'[h] = "store" => task'[h].driver = task'[h].db
      BY <1>1, <1>4, <2>1, <3>3, <3>5 DEF LinkOK, On
    <3>6. QED
      BY <3>4, <3>5 DEF LinkOK
  <2>3. CASE ~On(g, r, k)
    <3>1. ~On(g, r, k)'
      BY <1>2, <1>4, <2>3 DEF On
    <3>2. QED
      BY <1>1, <1>4, <2>1, <2>3, <3>1, LinkKept
  <2>4. QED
    BY <2>2, <2>3
<1>7. QED
  BY <1>5, <1>6 DEF RInv

(* Every other step of g leaves the routing alone.                         *)
LEMMA ElseRouted ==
  ASSUME IInv, RInv, NEW g \in Goroutines, NEW from, from # "url",
         NEW to \in Places \ {"url", "driver", "store"}, NEW t \in Tasks,
         Step(g, from, to, t), UNCHANGED routing
  PROVE  RInv'
<1>1. to \in Places /\ TypeOK
  BY DEF IInv
<1>2. /\ at[g] = from /\ at'[g] = to
      /\ \A h \in Goroutines \ {g} : at'[h] = at[h] /\ task'[h] = task[h]
  BY <1>1, StepDoes
<1>3. QED
  BY <1>1, <1>2, UnroutedStep DEF routing

LEMMA MakingRouted ==
  ASSUME IInv, RInv, NEW g \in Goroutines,
         \/ \E s \in Sessions, type \in Kinds, k \in Links \cup {NoLink} : NewSession(g, s, type, k)
         \/ RouteFails(g)
         \/ Store(g)
  PROVE  RInv'
<1>1. task[g] \in Tasks /\ {"route", Idle} \subseteq Places \ {"url", "driver", "store"}
  BY OwnFromInv DEF Places, Idle
<1>2. ASSUME NEW s \in Sessions, NEW type \in Kinds, NEW k \in Links \cup {NoLink},
             NewSession(g, s, type, k)
      PROVE  RInv'
  <2> DEFINE t == [NoTask EXCEPT !.on = s, !.router = router, !.link = k, !.kind = type]
  <2>1. router \in Routers
    BY DEF IInv, TypeOK
  <2>2. t \in Tasks
    BY <2>1, NoneAssumption DEF NoTask, Tasks, Idle, Kinds
  <2>3. Step(g, Idle, "route", t) /\ UNCHANGED routing /\ Idle # "url"
    BY <1>2 DEF NewSession, Idle
  <2> HIDE DEF t
  <2>4. QED
    BY <1>1, <2>2, <2>3, ElseRouted
<1>3. CASE RouteFails(g)
  BY <1>1, <1>3, ElseRouted DEF RouteFails, Go
<1>4. CASE Store(g)
  BY <1>1, <1>4, ElseRouted DEF Store, Go
<1>5. QED
  BY <1>2, <1>3, <1>4

CloseStep(g) == \/ \E s \in Sessions : CloseSession(g, s) \/ FactoryClose(g, s)
                \/ \E more \in SUBSET Sessions : CloseAll(g, more)
                \/ Proceed(g)

LEMMA ClosingRouted ==
  ASSUME IInv, RInv, NEW g \in Goroutines, CloseStep(g)
  PROVE  RInv'
<1>1. /\ task[g] \in Tasks /\ task[g].caller \in {Idle, "delete", "visit"}
      /\ \A s \in Sessions : CloseOf(s) \in {"load", "inner"}
      /\ {Idle, "range", "remove", "load", "inner", "delete", "visit"}
           \subseteq Places \ {"url", "driver", "store"}
      /\ Idle # "url"
  BY OwnFromInv DEF Tasks, Places, Idle, CloseOf
<1>2. ASSUME NEW s \in Sessions, CloseSession(g, s) PROVE RInv'
  <2> DEFINE t == [NoTask EXCEPT !.on = s]
  <2>1. t \in Tasks
    BY NoneAssumption, RoutersAssumption DEF NoTask, Tasks, Kinds, Idle
  <2>2. Step(g, Idle, CloseOf(s), t) /\ UNCHANGED routing
    BY <1>2 DEF CloseSession
  <2> HIDE DEF t
  <2>3. QED
    BY <1>1, <2>1, <2>2, ElseRouted
<1>3. ASSUME NEW id \in Sessions, NEW from, from # "url", NEW caller \in {"delete", "visit"},
             stored[id] # NoSession, UNCHANGED routing,
             Step(g, from, CloseOf(stored[id]), ClosingOf(g, id, caller))
      PROVE  RInv'
  <2>1. stored[id] \in Sessions /\ ClosingOf(g, id, caller) \in Tasks
    BY <1>3, InMap
  <2>2. QED
    BY <1>1, <1>3, <2>1, ElseRouted
<1>4. ASSUME NEW id \in Sessions, FactoryClose(g, id) \/ Visit(g, id) PROVE RInv'
  BY <1>1, <1>3, <1>4 DEF FactoryClose, Visit, Kept
<1>5. ASSUME NEW more \in SUBSET Sessions, CloseAll(g, more) PROVE RInv'
  <2> DEFINE t == [NoTask EXCEPT !.left = Kept(Sessions) \cup more]
  <2>1. Kept(Sessions) \cup more \subseteq Sessions
    BY DEF Kept
  <2>2. t \in Tasks
    BY <2>1, NoTaskTyped DEF Tasks
  <2>3. Step(g, Idle, "range", t) /\ UNCHANGED routing
    BY <1>5 DEF CloseAll
  <2> HIDE DEF t
  <2>4. QED
    BY <1>1, <2>2, <2>3, ElseRouted
<1>6. CASE Load(g)
  BY <1>1, <1>6, ElseRouted DEF Load, Go
<1>7. CASE CloseInner(g)
  BY <1>1, <1>7, ElseRouted DEF CloseInner, Go
<1>8. CASE Remove(g) \/ Delete(g) \/ RangeEnds(g)
  BY <1>1, <1>8, ElseRouted DEF Remove, Delete, RangeEnds, Go
<1>9. QED
  BY <1>2, <1>4, <1>5, <1>6, <1>7, <1>8 DEF CloseStep, Proceed

-----------------------------------------------------------------------------
LEMMA Initially == Init => IInv /\ RInv
<1> SUFFICES ASSUME Init PROVE IInv /\ RInv
  OBVIOUS
<1>1. \A g \in Goroutines : at[g] = Idle /\ task[g] = NoTask
  BY DEF Init
<1>2. at \in [Goroutines -> Places] /\ task \in [Goroutines -> Tasks]
  BY NoTaskTyped, PlacesAre DEF Init
<1> HIDE DEF NoTask
<1>3. TypeOK
  BY <1>2, RoutersAssumption DEF Init, TypeOK
<1>4. \A g \in Goroutines : MakingOK(g) /\ ClosingOK(g)
  BY <1>1 DEF MakingOK, ClosingOK, Making, ClosingPlaces, Idle
<1>5. Apart /\ OwnPlace /\ NoneLost
  BY <1>1 DEF Init, Apart, OwnPlace, NoneLost, Making, ClosingPlaces, Idle
<1>6. RInv
  BY <1>1 DEF Init, RInv, FoundOK, LinkOK, Alone, On, Idle
<1>7. QED
  BY <1>3, <1>4, <1>5, <1>6 DEF IInv

LEMMA Stutters == IInv /\ RInv /\ UNCHANGED vars => IInv' /\ RInv'
<1>1. IInv /\ UNCHANGED vars => IInv'
  BY DEF IInv, TypeOK, MakingOK, ClosingOK, Apart, OwnPlace, NoneLost, vars, Tasks
<1>2. RInv /\ UNCHANGED vars => RInv'
  BY DEF RInv, FoundOK, LinkOK, Alone, Busy, On, vars
<1>3. QED
  BY <1>1, <1>2

LEMMA ConfigureStep ==
  ASSUME IInv, RInv, Configure
  PROVE  IInv' /\ RInv'
<1>1. ASSUME NEW g \in Goroutines, SetUrl(g) PROVE IInv' /\ RInv'
  BY <1>1, SetUrlStep, SetUrlRouted
<1>2. ASSUME NEW g \in Goroutines, NEW d \in Drivers, NEW k \in Links, SetDB(g, d, k)
      PROVE  IInv' /\ RInv'
  BY <1>2, SetDBStep, SetDBRouted
<1>3. ASSUME NEW r \in Routers, SetDataSourceRouter(r) PROVE IInv' /\ RInv'
  <2>1. RInv'
    BY <1>3 DEF SetDataSourceRouter, RInv, FoundOK, LinkOK, Alone, Busy, On
  <2>2. QED
    BY <1>3, <2>1, SetDataSourceRouterStep
<1>4. QED
  BY <1>1, <1>2, <1>3 DEF Configure

LEMMA MakeStep ==
  ASSUME IInv, RInv, Make
  PROVE  IInv' /\ RInv'
<1>1. ASSUME NEW g \in Goroutines, Route(g) \/ NewLocal(g) PROVE IInv' /\ RInv'
  BY <1>1, RouteStep, RouteRouted, NewLocalStep, NewLocalRouted DEF RInv
<1>2. ASSUME NEW g \in Goroutines, RouteFails(g) \/ Store(g) PROVE IInv' /\ RInv'
  BY <1>2, RouteFailsStep, StoreStep, MakingRouted
<1>3. ASSUME NEW g \in Goroutines, NEW s \in Sessions, NEW type \in Kinds,
             NEW k \in Links \cup {NoLink}, NewSession(g, s, type, k)
      PROVE  IInv' /\ RInv'
  BY <1>3, NewSessionStep, MakingRouted
<1>4. ASSUME NEW id \in Sessions, NEW s \in Sessions, SetSession(id, s) PROVE IInv' /\ RInv'
  <2>1. RInv'
    BY <1>4 DEF SetSession, routing, RInv, FoundOK, LinkOK, Alone, Busy, On
  <2>2. QED
    BY <1>4, <2>1, SetSessionStep
<1>5. QED
  BY <1>1, <1>2, <1>3, <1>4 DEF Make

LEMMA CloseStepKeeps ==
  ASSUME IInv, RInv, NEW g \in Goroutines, CloseStep(g)
  PROVE  IInv' /\ RInv'
<1>1. CASE \E s \in Sessions : CloseSession(g, s) \/ FactoryClose(g, s)
  BY <1>1, CloseSessionStep, FactoryCloseStep, ClosingRouted
<1>2. CASE \E more \in SUBSET Sessions : CloseAll(g, more)
  BY <1>2, CloseAllStep, ClosingRouted
<1>3. CASE Proceed(g)
  <2>1. IInv'
    BY <1>3, LoadStep, CloseInnerStep, RemoveStep, DeleteStep, RangeEndsStep, VisitStep
    DEF Proceed
  <2>2. QED
    BY <2>1, ClosingRouted
<1>4. QED
  BY <1>1, <1>2, <1>3 DEF CloseStep

LEMMA Inductive == IInv /\ RInv /\ [Next]_vars => IInv' /\ RInv'
<1> SUFFICES ASSUME IInv, RInv, [Next]_vars PROVE IInv' /\ RInv'
  OBVIOUS
<1>1. CASE Close
  BY <1>1, CloseStepKeeps DEF Close, CloseStep
<1>2. CASE UNCHANGED vars
  BY <1>2, Stutters
<1>3. QED
  BY <1>1, <1>2, ConfigureStep, MakeStep DEF Next

(* At any size the places, local variables and maps agree with each other  *)
(* (SessionFactory.go, SessionFactorySession.go,                           *)
(* GoMybatisDataSourceRouter.go).                                          *)
THEOREM Invariant == Spec => [](IInv /\ RInv)
<1>1. QED
  BY Initially, Inductive, PTL DEF Spec

(* The state of the engine is what its parts say it is at any size, and    *)
(* the map holds made sessions only (TypeOK).                              *)
THEOREM EngineTyped == Spec => []TypeOK
<1>1. IInv => TypeOK
  BY DEF IInv
<1>2. QED
  BY <1>1, Invariant, PTL

(* However many goroutines close however many sessions in whatever way,    *)
(* and put them back under their own ids or under those of others, a       *)
(* session that is not closed and not displaced is in the map or about to  *)
(* be put there (SessionFactory.go:53-73, SessionFactorySession.go:64-73). *)
THEOREM SessionsNeverLost == Spec => []NoneLost
<1>1. IInv => NoneLost
  BY DEF IInv
<1>2. QED
  BY <1>1, Invariant, PTL

(* Whatever routers, data sources, drivers and links there are and however *)
(* often a link is opened again, a session is made for the database it     *)
(* runs on, unless its link was opened or looked up while it was just      *)
(* being opened (GoMybatisDataSourceRouter.go:29-60).                      *)
THEOREM DriversRight == Spec => []RightDriver
<1>1. ASSUME IInv, RInv PROVE RightDriver
  <2> SUFFICES ASSUME NEW g \in Goroutines, at[g] = "store",
                      task[g].link \notin disturbed[task[g].router]
               PROVE  task[g].driver = task[g].db
    BY DEF RightDriver
  <2>1. task[g].router \in Routers /\ task[g].link \in Links
    BY <1>1, OwnFromInv DEF Tasks, RInv, FoundOK
  <2>2. LinkOK(task[g].router, task[g].link)
    BY <1>1, <2>1 DEF RInv
  <2>3. QED
    BY <2>2 DEF LinkOK, On
<1>2. QED
  BY <1>1, Invariant, PTL
=============================================================================
