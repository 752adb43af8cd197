-------------------------------- MODULE Engine --------------------------------
(***************************************************************************)
(* One GoMybatisEngine shared by several goroutines: the data source       *)
(* router (src/GoMybatisDataSourceRouter.go) and the session factory with  *)
(* its sessions (src/SessionFactory.go, src/SessionFactorySession.go).     *)
(*                                                                         *)
(* None of these methods holds a lock from its first access to its last,   *)
(* so every access to a shared map is a step of its own.  at[g] is the     *)
(* place in the method that goroutine g has reached.                       *)
(***************************************************************************)
EXTENDS FiniteSets

CONSTANTS Goroutines,
          Sessions,      \* the sessions that may come to be made, with their ids
          Links,         \* the links of the data sources, keys of the router's maps
          Drivers,       \* the drivers a link can be opened with
          Routers,       \* the routers the engine is given one after the other
          FirstRouter,   \* the one NewEngine makes
          NoSession,
          NoLink,        \* routerFunc gives nil or ""
          NoDriver       \* a key that is not in the router's map

ASSUME RoutersAssumption == FirstRouter \in Routers
ASSUME NoneAssumption ==
  /\ NoSession \notin Sessions \cup {"Default", "Local"}
  /\ NoLink \notin Links /\ NoDriver \notin Drivers

VARIABLES
  at,          \* at[g]: the place goroutine g has reached
  task,        \* task[g]: the local variables of its call
  router,      \* the engine's dataSourceRouter
  opened,      \* opened[r][k]: the driver of the db in driverLinkDBMap of router r
  typed,       \* typed[r][k]: the driver in driverLinkUrlMap
  disturbed,   \* history: disturbed[r]: the links that were being opened while they were
               \* opened again or looked up
  kind,        \* kind[s]: what session s was made as, or NoSession
  stored,      \* SessionMap: stored[s]: the session kept under the id of s, or NoSession
  displaced,   \* history: the sessions whose id SetSession gave to another
  live         \* the sessions whose inner session is not closed

vars == <<at, task, router, opened, typed, disturbed, kind, stored, displaced, live>>
routing == <<router, opened, typed, disturbed>>
keeping == <<kind, stored, displaced, live>>

Kinds == {"Default", "Local"}

Idle == "idle"
Places == {Idle, "url",                              \* SetDB
           "route", "driver", "store",               \* SessionFactory.NewSession
           "delete",                                 \* SessionFactory.Close
           "load", "inner", "remove",                \* a session's Close
           "range", "visit"}                         \* CloseAll
Making == {"route", "driver", "store"}

Tasks == [on       : Sessions \cup {NoSession},
          key      : Sessions \cup {NoSession},   \* the id SessionFactory found it under
          caller   : {Idle, "delete", "visit"},   \* where a session's Close returns to
          left     : SUBSET Sessions,             \* the ids CloseAll has not visited yet
          router   : Routers,
          link     : Links \cup {NoLink},
          kind     : Kinds,                       \* of the session being made
          db       : Drivers \cup {NoDriver},     \* the driver of the db it is made on
          driver   : Drivers \cup {NoDriver}]   \* the driver it writes placeholders for
NoTask == [on |-> NoSession, key |-> NoSession, caller |-> Idle, left |-> {},
           router |-> FirstRouter, link |-> NoLink, kind |-> "Local",
           db |-> NoDriver, driver |-> NoDriver]

TypeOK ==
  /\ at \in [Goroutines -> Places]
  /\ task \in [Goroutines -> Tasks]
  /\ router \in Routers
  /\ opened \in [Routers -> [Links -> Drivers \cup {NoDriver}]]
  /\ typed \in [Routers -> [Links -> Drivers \cup {NoDriver}]]
  /\ disturbed \in [Routers -> SUBSET Links]
  /\ kind \in [Sessions -> Kinds \cup {NoSession}]
  /\ stored \in [Sessions -> Sessions \cup {NoSession}]
  /\ \A id \in Sessions :
       stored[id] # NoSession => kind[id] # NoSession /\ kind[stored[id]] # NoSession
  /\ displaced \subseteq Sessions
  /\ live \subseteq Sessions

-----------------------------------------------------------------------------
Init ==
  /\ at = [g \in Goroutines |-> Idle]
  /\ task = [g \in Goroutines |-> NoTask]
  /\ router = FirstRouter
  /\ opened = [r \in Routers |-> [k \in Links |-> NoDriver]]
  /\ typed = [r \in Routers |-> [k \in Links |-> NoDriver]]
  /\ disturbed = [r \in Routers |-> {}]
  /\ kind = [s \in Sessions |-> NoSession]
  /\ stored = [s \in Sessions |-> NoSession]
  /\ displaced = {}
  /\ live = {}

(* Goroutine g goes on to a place of its call, with local variables t, or  *)
(* returns from it.                                                        *)
Step(g, from, to, t) ==
  /\ at[g] = from
  /\ at' = [at EXCEPT ![g] = to]
  /\ task' = [task EXCEPT ![g] = IF to = Idle THEN NoTask ELSE t]
Go(g, from, to) == Step(g, from, to, task[g])

-----------------------------------------------------------------------------
Busy(places, r, k) == \E g \in Goroutines : /\ at[g] \in places
                                            /\ task[g].router = r /\ task[g].link = k

(* Router r meets link k half way through a SetDB, or a lookup of k.       *)
Disturb(places, r, k) ==
  disturbed' = IF Busy(places, r, k) THEN [disturbed EXCEPT ![r] = @ \cup {k}] ELSE disturbed

(* Engine.Open, of a new link or again, with any driver.  Two plain maps    *)
(* are written one after the other.  Go may end a process that reads one   *)
(* meanwhile: then no step follows.                                        *)
SetDB(g, d, k) ==
  /\ Step(g, Idle, "url", [NoTask EXCEPT !.router = router, !.link = k, !.driver = d])
  /\ opened' = [opened EXCEPT ![router][k] = d]
  /\ Disturb({"url", "driver"}, router, k)
  /\ UNCHANGED <<router, typed, keeping>>

SetUrl(g) ==
  /\ Go(g, "url", Idle)
  /\ typed' = [typed EXCEPT ![task[g].router][task[g].link] = task[g].driver]
  /\ UNCHANGED <<router, opened, disturbed, keeping>>

(* GoMybatisDataSourceRouter.New makes empty maps.                          *)
SetDataSourceRouter(r) ==
  /\ \A k \in Links : opened[r][k] = NoDriver
  /\ r # router
  /\ router' = r
  /\ UNCHANGED <<at, task, opened, typed, disturbed, keeping>>

-----------------------------------------------------------------------------
(* Ids are fresh: a session is handed out once it is stored.               *)
BeingMade(s) == \E g \in Goroutines : at[g] \in Making /\ task[g].on = s
Handed(s) == kind[s] # NoSession /\ ~BeingMade(s)

(* SessionFactory.NewSession(mapper, type); k is the link routerFunc gives *)
(* the mapper.                                                             *)
NewSession(g, s, type, k) ==
  /\ kind[s] = NoSession /\ ~BeingMade(s)
  /\ Step(g, Idle, "route",
          [NoTask EXCEPT !.on = s, !.router = router, !.link = k, !.kind = type])
  /\ UNCHANGED <<routing, keeping>>

(* Without a link any data source is as good.                              *)
Candidates(g) ==
  {k \in Links : /\ opened[task[g].router][k] # NoDriver
                 /\ task[g].link \in {k, NoLink}}

Route(g) ==
  /\ \E k \in Candidates(g) :
       /\ Step(g, "route", "driver",
               [task[g] EXCEPT !.link = k, !.db = opened[task[g].router][k]])
       /\ Disturb({"url"}, task[g].router, k)
  /\ UNCHANGED <<router, opened, typed, keeping>>

StoresNil(g) ==   \* mutant: the router's error is not looked at
  /\ Candidates(g) = {}
  /\ Go(g, "route", "store")
  /\ UNCHANGED <<routing, keeping>>

(* No data source: an error, which NewSession throws.                      *)
RouteFails(g) ==
  /\ Candidates(g) = {}
  /\ Go(g, "route", Idle)
  /\ UNCHANGED <<routing, keeping>>

UrlOfRoute(k, r) == NoDriver   \* mutant: a link that was found is not kept as the key

(* driverLinkUrlMap[k]; a missing key reads as the empty string.           *)
UrlOf(k, r) == typed[r][k]

NewLocal(g) ==
  /\ Step(g, "driver", "store",
          [task[g] EXCEPT !.driver = UrlOf(task[g].link, task[g].router)])
  /\ kind' = [kind EXCEPT ![task[g].on] = task[g].kind]
  /\ live' = live \cup {task[g].on}
  /\ UNCHANGED <<routing, stored, displaced>>

Store(g) ==
  /\ Go(g, "store", Idle)
  /\ stored' = [stored EXCEPT ![task[g].on] = task[g].on]
  /\ UNCHANGED <<routing, kind, displaced, live>>

(* SetSession: a session is put under an id, its own or that of another.   *)
SetSession(id, s) ==
  /\ Handed(id) /\ Handed(s)
  /\ stored' = [stored EXCEPT ![id] = s]
  /\ displaced' = IF s = id THEN displaced ELSE displaced \cup {id}
  /\ UNCHANGED <<at, task, routing, kind, live>>

-----------------------------------------------------------------------------
(* A Default session looks its id up before it closes, and does nothing    *)
(* when there is nothing under it; a Local one closes at once.             *)
CloseOf(s) == IF kind[s] = "Default" THEN "load" ELSE "inner"

CloseSession(g, s) ==
  /\ Handed(s)
  /\ Step(g, Idle, CloseOf(s), [NoTask EXCEPT !.on = s])
  /\ UNCHANGED <<routing, keeping>>

(* SessionFactory.Close and CloseAll close what is kept under an id.       *)
ClosingOf(g, id, caller) ==
  [NoTask EXCEPT !.on = stored[id], !.key = id, !.caller = caller, !.left = task[g].left \ {id}]

LoadAndDelete(g, id) ==   \* mutant: loaded and deleted in one step, then closed
  /\ stored[id] # NoSession
  /\ Step(g, Idle, CloseOf(stored[id]), ClosingOf(g, id, "delete"))
  /\ stored' = [stored EXCEPT ![id] = NoSession]
  /\ UNCHANGED <<routing, kind, displaced, live>>

(* SessionFactory.Close(id).                                               *)
FactoryClose(g, id) ==
  /\ stored[id] # NoSession
  /\ Step(g, Idle, CloseOf(stored[id]), ClosingOf(g, id, "delete"))
  /\ UNCHANGED <<routing, keeping>>

Load(g) ==
  /\ Go(g, "load", IF stored[task[g].on] # NoSession THEN "inner" ELSE task[g].caller)
  /\ UNCHANGED <<routing, keeping>>

CloseInner(g) ==
  /\ Go(g, "inner", IF kind[task[g].on] = "Default" THEN "remove" ELSE task[g].caller)
  /\ live' = live \ {task[g].on}
  /\ UNCHANGED <<routing, kind, stored, displaced>>

Remove(g) ==
  /\ Go(g, "remove", task[g].caller)
  /\ stored' = [stored EXCEPT ![task[g].on] = NoSession]
  /\ UNCHANGED <<routing, kind, displaced, live>>

Delete(g) ==
  /\ Go(g, "delete", Idle) \/ Go(g, "visit", "range")
  /\ stored' = [stored EXCEPT ![task[g].key] = NoSession]
  /\ UNCHANGED <<routing, kind, displaced, live>>

(* CloseAll visits every id that is in the map throughout, once, and those *)
(* stored meanwhile (more) or not.                                         *)
Kept(ids) == {id \in ids : stored[id] # NoSession}

CloseAll(g, more) ==
  /\ Step(g, Idle, "range", [NoTask EXCEPT !.left = Kept(Sessions) \cup more])
  /\ UNCHANGED <<routing, keeping>>

Visit(g, id) ==
  /\ id \in Kept(task[g].left)
  /\ Step(g, "range", CloseOf(stored[id]), ClosingOf(g, id, "visit"))
  /\ UNCHANGED <<routing, keeping>>

RangeEnds(g) ==
  /\ Kept(task[g].left) = {}
  /\ Go(g, "range", Idle)
  /\ UNCHANGED <<routing, keeping>>

-----------------------------------------------------------------------------
Configure == \/ \E g \in Goroutines : SetUrl(g) \/ \E d \in Drivers, k \in Links : SetDB(g, d, k)
             \/ \E r \in Routers : SetDataSourceRouter(r)

Make == \/ \E g \in Goroutines :
             \/ \E s \in Sessions, type \in Kinds, k \in Links \cup {NoLink} :
                  NewSession(g, s, type, k)
             \/ Route(g) \/ RouteFails(g) \/ NewLocal(g) \/ Store(g)
        \/ \E id, s \in Sessions : SetSession(id, s)

(* What a goroutine in the midst of closing does next.                     *)
Proceed(g) == \/ Load(g) \/ CloseInner(g) \/ Remove(g) \/ Delete(g) \/ RangeEnds(g)
              \/ \E id \in Sessions : Visit(g, id)

Close == \E g \in Goroutines :
           \/ \E s \in Sessions : CloseSession(g, s) \/ FactoryClose(g, s)
           \/ \E more \in SUBSET Sessions : CloseAll(g, more)
           \/ Proceed(g)

Next == Configure \/ Make \/ Close

Spec == Init /\ [][Next]_vars

-----------------------------------------------------------------------------
(* However sessions are closed, by themselves, by id, all of them or       *)
(* several ways at once, none escapes: one that is not closed is in the    *)
(* factory's map, where CloseAll finds it, or about to be put there,       *)
(* unless the program gave its id to another session                       *)
(* (SessionFactory.go:53-73, SessionFactorySession.go:64-73: a session out *)
(* of the map can no longer be closed).                                    *)
NoneLost ==
  \A s \in live \ displaced :
    stored[s] = s \/ \E g \in Goroutines : at[g] = "store" /\ task[g].on = s

(* A new session writes placeholders for the database it runs on, whether  *)
(* its link was asked for or found, whatever routers and data sources come *)
(* meanwhile and with whatever drivers a link is opened again, unless that *)
(* link was opened or looked up while it was just being opened             *)
(* (GoMybatisDataSourceRouter.go:29-60).                                   *)
RightDriver ==
  \A g \in Goroutines :
    at[g] = "store" /\ task[g].link \notin disturbed[task[g].router] => task[g].driver = task[g].db
===============================================================================
