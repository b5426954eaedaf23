------------------------------ MODULE Runtime ------------------------------
(***************************************************************************)
(* The life of one process that holds a FastAuth object: its lifespan      *)
(* (database first, then the plugins in order, and back), the readiness    *)
(* flag, and the in-process event bus.  Every start and every stop may     *)
(* fail.  What the requests of such a process do is in module Requests.    *)
(***************************************************************************)
EXTENDS Naturals, Sequences, FiniteSets

CONSTANTS
    Plugins,        \* number of plugins; plugin p is the p-th registered
    Event,          \* concrete event types
    Handler,        \* event handlers, each subscribed at most once
    Subscribed,     \* the subscriptions made when FastAuth is assembled, in order
    Confs           \* the processes to look at; more fields are used in Requests

(* A subscription to AuthEvent sees every event.                           *)
AnyEvent == "AuthEvent"
Type == Event \cup {AnyEvent}
Plugin == 1 .. Plugins
Subscription == [type : Type, handler : Handler]

ASSUME PluginAssumption == Plugins \in Nat
ASSUME SubscribedAssumption ==
    /\ Subscribed \in Seq(Subscription)
    /\ \A i, j \in DOMAIN Subscribed : Subscribed[i].handler = Subscribed[j].handler => i = j
ASSUME EventAssumption == AnyEvent \notin Event

VARIABLES
    conf,           \* lifespan: is it wired to the server?  suppresses: does the
                    \* database's context suppress errors?
    phase,          \* of FastAuth.lifespan
    db,             \* the database: "closed", "open"
    started,        \* plugin_lifespan's list
    primary,        \* the error that ended the body, a set of at most one
    shutdown,       \* errors of the plugins' shutdowns
    reported,       \* what leaves the lifespan
    ready,          \* context.readiness.started
    subscribers,    \* the bus: event types in the order of their first subscription
    life            \* history: plugins as they started and stopped, and all errors

lifespan == <<phase, db, started, primary, shutdown, reported, ready, life>>
rvars == <<conf, lifespan, subscribers>>

Error == ({"open", "body", "close", "no_yield"} \X {0}) \cup ({"start", "stop"} \X Plugin)

RuntimeTypeOK ==
    /\ conf \in Confs
    /\ phase \in {"down", "starting", "serving", "stopping", "ended"}
    /\ db \in {"closed", "open"}
    /\ started \in Seq(Plugin)
    /\ primary \subseteq Error /\ shutdown \subseteq Error /\ reported \subseteq Error
    /\ ready \in BOOLEAN
    /\ subscribers \in Seq([type : Type, handlers : Seq(Handler)])
    /\ life \in [up : Seq(Plugin), down : Seq(Plugin), errors : SUBSET Error]

(* EventBus.subscribe on a dict of lists.                                  *)
Subscribe(bus, s) ==
    IF \E g \in DOMAIN bus : bus[g].type = s.type
    THEN [g \in DOMAIN bus |-> IF bus[g].type = s.type
                               THEN [bus[g] EXCEPT !.handlers = Append(@, s.handler)] ELSE bus[g]]
    ELSE Append(bus, [type |-> s.type, handlers |-> <<s.handler>>])

(* The subscriptions of bind and of event_handlers, when FastAuth is built *)
Assembled[i \in 0 .. Len(Subscribed)] ==
    IF i = 0 THEN <<>> ELSE Subscribe(Assembled[i - 1], Subscribed[i])

RuntimeInit ==
    /\ conf \in Confs
    /\ phase = "down" /\ db = "closed" /\ started = <<>>
    /\ primary = {} /\ shutdown = {} /\ reported = {} /\ ready = FALSE
    /\ subscribers = Assembled[Len(Subscribed)]
    /\ life = [up |-> <<>>, down |-> <<>>, errors |-> {}]
------------------------------------------------------------------------------
(* Which parts may fail in this process: "open", "start", "stop", ...      *)
MayFail(part) == part \in conf.fails

Failed(e) == life' = [life EXCEPT !.errors = @ \cup {e}]

(* database_context.__aenter__; a failed startup runs shutdown at once.    *)
OpenDatabase ==
    /\ phase = "down" /\ conf.lifespan
    /\ \/ db' = "open" /\ phase' = "starting"
          /\ UNCHANGED <<reported, life>>
       \/ MayFail("open") /\ Failed(<<"open", 0>>)
          /\ db' = "closed" /\ phase' = "ended" /\ reported' = {<<"open", 0>>}
    /\ UNCHANGED <<conf, started, primary, shutdown, ready, subscribers>>

StartPlugin ==
    LET p == Len(started) + 1
    IN  /\ phase = "starting" /\ p \in Plugin
        /\ \/ started' = Append(started, p)
              /\ life' = [life EXCEPT !.up = Append(@, p)]
              /\ UNCHANGED <<phase, primary>>
           \/ MayFail("start") /\ Failed(<<"start", p>>)
              /\ primary' = {<<"start", p>>} /\ phase' = "stopping"
              /\ UNCHANGED started
        /\ UNCHANGED <<conf, db, shutdown, reported, ready, subscribers>>

Complete_Past(s) == Len(s) > Plugins

Complete(s) == Len(s) = Plugins

Serve ==
    /\ phase = "starting" /\ Complete(started)
    /\ ready' = TRUE /\ phase' = "serving"
    /\ UNCHANGED <<conf, db, started, primary, shutdown, reported, subscribers, life>>

(* The flag is cleared in a finally: also when the body ends by an error.  *)
ReadyAfter == FALSE

Leave ==
    /\ phase = "serving" /\ phase' = "stopping"
    /\ \/ ready' = FALSE /\ UNCHANGED <<primary, life>>
       \/ MayFail("body") /\ Failed(<<"body", 0>>) /\ primary' = {<<"body", 0>>} /\ ready' = ReadyAfter
    /\ UNCHANGED <<conf, db, started, shutdown, reported, subscribers>>

Last(s) == s[Len(s)]
Front(s) == SubSeq(s, 1, Len(s) - 1)

Unstopped(s, fails) == Front(s)

StopPlugin ==
    LET p == Last(started)
    IN  /\ phase = "stopping" /\ started # <<>>
        /\ \E fails \in {f \in BOOLEAN : f => MayFail("stop")} :
            /\ started' = Unstopped(started, fails)
            /\ shutdown' = IF fails THEN shutdown \cup {<<"stop", p>>} ELSE shutdown
            /\ life' = [life EXCEPT !.down = Append(@, p),
                                    !.errors = IF fails THEN @ \cup {<<"stop", p>>} ELSE @]
        /\ UNCHANGED <<conf, phase, db, primary, reported, ready, subscribers>>

(* What plugin_lifespan raises: both kinds in one group.                   *)
Raised_Primary == IF primary # {} THEN primary ELSE shutdown

Raised == primary \cup shutdown

(* database_context.__aexit__, told of that error.  An error that it       *)
(* suppresses before the lifespan yielded leaves a generator that did not. *)
CloseDatabase ==
    /\ phase = "stopping" /\ started = <<>>
    /\ db' = "closed" /\ phase' = "ended"
    /\ \/ reported' = (IF Raised # {} /\ conf.suppresses
                       THEN IF Len(life.up) = Plugins THEN {} ELSE {<<"no_yield", 0>>}
                       ELSE Raised)
          /\ UNCHANGED life
       \/ MayFail("close") /\ Failed(<<"close", 0>>)
          /\ reported' = Raised \cup {<<"close", 0>>}
    /\ UNCHANGED <<conf, started, primary, shutdown, ready, subscribers>>

LifespanStep == OpenDatabase \/ StartPlugin \/ Serve \/ Leave \/ StopPlugin \/ CloseDatabase

(* auth.on at run time, of a handler that is not subscribed yet            *)
On(type, handler) ==
    /\ \A g \in DOMAIN subscribers : \A k \in DOMAIN subscribers[g].handlers :
           subscribers[g].handlers[k] # handler
    /\ subscribers' = Subscribe(subscribers, [type |-> type, handler |-> handler])
    /\ UNCHANGED <<conf, lifespan>>
------------------------------------------------------------------------------
(* EventBus.publish walks the dict and, in it, a list, one awaited handler *)
(* after the other: a list that grew is walked to its new end, a dict that *)
(* grew raises.  A publication is the position of the running handler.     *)
Publication == [event : Event, size : Nat, group : Nat, at : Nat, state : {"running", "finished", "broken"}]

Sees(g, event) == subscribers[g].type \in {AnyEvent, event}

Advance(p) ==
    LET groups == {g \in p.group + 1 .. Len(subscribers) : Sees(g, p.event)}
    IN  IF p.group # 0 /\ p.at < Len(subscribers[p.group].handlers) THEN [p EXCEPT !.at = @ + 1]
        ELSE IF Len(subscribers) # p.size THEN [p EXCEPT !.state = "broken"]
        ELSE IF groups = {} THEN [p EXCEPT !.state = "finished"]
        ELSE [p EXCEPT !.group = CHOOSE g \in groups : \A h \in groups : g <= h, !.at = 1]

Publish(event) ==
    Advance([event |-> event, size |-> Len(subscribers), group |-> 0, at |-> 0, state |-> "running"])

Running(p) == subscribers[p.group].handlers[p.at]

(* The handlers that a publication of the event has to reach.              *)
Registered(event) ==
    UNION {{subscribers[g].handlers[k] : k \in DOMAIN subscribers[g].handlers} :
              g \in {i \in DOMAIN subscribers : Sees(i, event)}}
------------------------------------------------------------------------------
AllUp == db = "open" /\ Len(started) = Plugins

(* "Readiness is a sanitized 503 until startup completes": the flag is up  *)
(* only while the database is open and every plugin has started, also when *)
(* the body of the lifespan ends by an error.                              *)
ReadyIsTrue == ready => AllUp

Reverse(s) == [i \in DOMAIN s |-> s[Len(s) + 1 - i]]

(* However the lifespan ended, the plugins that had started were stopped   *)
(* in reverse order, once each, the failing ones too, and the database is  *)
(* closed; and every error that happened is reported, unless the           *)
(* application's own database context suppressed it.                       *)
EndedIsClean ==
    phase = "ended" =>
        /\ db = "closed" /\ life.down = Reverse(life.up)
        /\ ~conf.suppresses => reported = life.errors

(* Both: what the lifespan promises at every step.                         *)
LifespanIsTrue == ReadyIsTrue /\ EndedIsClean
==============================================================================
