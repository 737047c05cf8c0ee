----------------------------- MODULE Downlinks -----------------------------
(***************************************************************************)
(* auth.ts, the entry Worker's fetch (index.ts) and the WebSocket part of  *)
(* instance.ts: a browser signs in, its cookie carries an expiry, the      *)
(* entry Worker hands that expiry to the instance, and the instance keeps  *)
(* hibernating downlinks ("mux", "host") and Remote carriers               *)
(* ("remote.mux") open until then.  The one Durable Object alarm is shared *)
(* with the main scheduler, which computes it anew from the open sockets   *)
(* and its own work.  Remote streams live in process memory; sockets       *)
(* outlive an eviction.                                                    *)
(*                                                                         *)
(* Time is a small counter, a session lasts Ttl of it.  Abstracted: the    *)
(* HMAC (a cookie is signed with the current key or is not), headers and   *)
(* response bodies, what a frame says.                                     *)
(***************************************************************************)
EXTENDS Naturals, FiniteSets, FiniteSetsExt

CONSTANTS Sockets,   \* the WebSocket requests browsers may send
          Ttl,       \* SESSION_TTL_SECONDS
          MaxClock   \* bound on the clock

VARIABLES clock,     \* the clock
          cookies,   \* the owner cookies browsers hold
          socket,    \* per request: its channel, expiry and progress
          wakeAt,    \* the Durable Object alarm, 0 when none is set
          firing,    \* whether the alarm handler is running
          resident,  \* whether the instance is in memory
          streams    \* remoteStreams: whether each known carrier has a pump

linkVars == <<clock, cookies, socket, wakeAt, firing, resident, streams>>

Channels == {"mux", "host", "remote.mux"}
Absent   == [pc |-> "none", channel |-> "mux", expires |-> 0, seen |-> 0]

LinkInit == /\ clock = 1 /\ cookies = {}
            /\ socket = [s \in Sockets |-> Absent]
            /\ wakeAt = 0 /\ firing = FALSE /\ resident = TRUE
            /\ streams = [s \in {} |-> FALSE]

Open    == {s \in Sockets : socket[s].pc = "open"}
Overdue(s) == socket[s].expires <= clock
Waits == {s \in Sockets : socket[s].pc \in {"scheduling", "setting", "opening"}}

\* handleOwnerAuthRoute: signing in gives a cookie that expires Ttl later;
\* signing out only makes the browser forget it.
handleOwnerAuthRoute ==
  /\ \/ /\ clock + Ttl <= MaxClock
        /\ cookies' = cookies \cup {clock + Ttl}
     \/ \E c \in cookies : cookies' = cookies \ {c}
  /\ cookies' # cookies
  /\ UNCHANGED <<clock, socket, wakeAt, firing, resident, streams>>

\* The expiry a request's cookies give: each is tried, expired ones and ones
\* beyond the longest lifetime are skipped.
resolveOwnerSession(sent) == {c \in sent : clock < c /\ c <= clock + Ttl}

\* The index fetch: without a session the request ends in a 401; with one the
\* trusted expiry header is set, and requireOwnerSessionExpiry reads it.
fetch(s) ==
  /\ resident /\ socket[s] = Absent
  /\ \E c \in resolveOwnerSession(cookies), channel \in Channels :
       socket' = [socket EXCEPT ![s] =
                    [pc |-> "scheduling", channel |-> channel,
                     expires |-> c, seen |-> 0]]
  /\ UNCHANGED <<clock, cookies, wakeAt, firing, resident, streams>>

\* Closing a socket.  A closed carrier's pumps are aborted when its close
\* event arrives.
Closing(closed) == [s \in Sockets |->
  IF s \in closed THEN [socket[s] EXCEPT !.pc = "closed"] ELSE socket[s]]

Stale(s, known) == socket[s].channel = "remote.mux" /\ s \notin known

\* What closeExpiredDownlinks closes: the expired, and Remote carriers that
\* have no stream state in this process.
Lost(known) == {s \in Open : Overdue(s) \/ Stale(s, known)}

\* Its result: the earliest expiry of the sockets left open.
NextExpiry(known) == {socket[s].expires : s \in Open \ Lost(known)}

\* scheduleMainWake: the earliest of the expiry and the scheduler's own wake
\* (work, a due reminder, the idle container), or no alarm at all.
Rescheduled(known) ==
  LET wakes == {{}} \cup {{t} : t \in (clock + 1)..(clock + 2)}
  IN \E own \in wakes :
       LET times == NextExpiry(known) \cup own
       IN wakeAt' = IF times = {} THEN 0 ELSE Min(times)

rearmWake ==
  /\ resident /\ ~firing
  /\ Rescheduled(DOMAIN streams)
  /\ socket' = Closing(Lost(DOMAIN streams))
  /\ UNCHANGED <<clock, cookies, firing, resident, streams>>

\* scheduleDownlinkExpiry: the alarm is read, then, after an await, moved
\* earlier; `seen` is what was read.
getAlarm(s) ==
  /\ socket[s].pc = "scheduling"
  /\ socket' = [socket EXCEPT ![s].pc = "setting", ![s].seen = wakeAt]
  /\ UNCHANGED <<clock, cookies, wakeAt, firing, resident, streams>>

setAlarm(s) ==
  /\ socket[s].pc = "setting"
  /\ wakeAt' = IF socket[s].seen = 0 \/ socket[s].expires < socket[s].seen
              THEN socket[s].expires ELSE wakeAt
  /\ socket' = [socket EXCEPT ![s].pc = "opening"]
  /\ UNCHANGED <<clock, cookies, firing, resident, streams>>

\* openDownlink accepts a mux socket when the baseline is at hand, a host
\* socket at once; the baseline's frames stop at an expired socket.
\* openRemoteMux also gives the carrier its stream table.
openDownlink(s) ==
  /\ socket[s].pc = "opening" /\ socket[s].channel # "remote.mux"
  /\ socket' = [socket EXCEPT ![s].pc =
                  IF socket[s].channel = "mux" /\ Overdue(s)
                  THEN "closed" ELSE "open"]
  /\ UNCHANGED <<clock, cookies, wakeAt, firing, resident, streams>>

openRemoteMux(s) ==
  /\ socket[s].pc = "opening" /\ socket[s].channel = "remote.mux"
  /\ socket' = [socket EXCEPT ![s].pc = "open"]
  /\ streams' = [k \in DOMAIN streams \cup {s} |->
                   IF k = s THEN FALSE ELSE streams[k]]
  /\ UNCHANGED <<clock, cookies, wakeAt, firing, resident>>

\* broadcast and sendFrame: an open socket of the channel that has expired is
\* closed instead of written to.
broadcast(channel) ==
  LET late == {s \in Open : socket[s].channel = channel /\ Overdue(s)}
  IN /\ resident /\ channel # "remote.mux" /\ late # {}
     /\ socket' = Closing(late)
     /\ UNCHANGED <<clock, cookies, wakeAt, firing, resident, streams>>

\* handleRemoteMuxMessage: `open` starts a pump, a second one with the same
\* id closes the socket, `cancel` aborts it; the pump may also just end.  A
\* message for an expired socket closes it.
handleRemoteMuxMessage(s) ==
  /\ s \in Open /\ socket[s].channel = "remote.mux" /\ resident
  /\ IF Overdue(s) \/ s \notin DOMAIN streams \/ streams[s]
     THEN socket' = Closing({s}) /\ UNCHANGED streams
     ELSE streams' = [streams EXCEPT ![s] = TRUE] /\ UNCHANGED socket
  /\ UNCHANGED <<clock, cookies, wakeAt, firing, resident>>

pumpRemoteStream(s) ==
  /\ s \in DOMAIN streams /\ streams[s]
  /\ streams' = [streams EXCEPT ![s] = FALSE]
  /\ UNCHANGED <<clock, cookies, socket, wakeAt, firing, resident>>

\* webSocketClose and webSocketError: the carrier's pumps are aborted.
abortRemoteStreams(s) ==
  /\ s \in DOMAIN streams
  /\ socket' = Closing({s})
  /\ streams' = [k \in DOMAIN streams \ {s} |-> streams[k]]
  /\ UNCHANGED <<clock, cookies, wakeAt, firing, resident>>

\* Waking.  An alarm that is due starts the instance when it must, runs
\* the scheduler, and computes the next one.  An eviction loses memory
\* and requests that are still being answered; open sockets hibernate.
\* A handler that is cut off is delivered again.
Constructed == IF resident THEN {} ELSE Lost({})

fireAlarm ==
  /\ wakeAt # 0 /\ wakeAt <= clock /\ ~firing
  /\ wakeAt' = 0 /\ firing' = TRUE /\ resident' = TRUE
  /\ socket' = Closing(Constructed)
  /\ UNCHANGED <<clock, cookies, streams>>

alarmHandled ==
  /\ firing
  /\ firing' = FALSE
  /\ Rescheduled(DOMAIN streams)
  /\ socket' = Closing(Lost(DOMAIN streams))
  /\ UNCHANGED <<clock, cookies, resident, streams>>

evict ==
  /\ resident
  /\ resident' = FALSE /\ firing' = FALSE
  /\ wakeAt' = IF firing THEN clock ELSE wakeAt
  /\ socket' = Closing(Waits)
  /\ streams' = [s \in {} |-> FALSE]
  /\ UNCHANGED <<clock, cookies>>

\* A request or a message wakes the instance: its constructor closes what was
\* lost.
restore == /\ ~resident
           /\ resident' = TRUE
           /\ socket' = Closing(Constructed)
           /\ UNCHANGED <<clock, cookies, wakeAt, firing, streams>>

tick == /\ clock < MaxClock
        /\ clock' = clock + 1
        /\ UNCHANGED <<cookies, socket, wakeAt, firing, resident, streams>>

LinkNext ==
  \/ handleOwnerAuthRoute \/ rearmWake \/ fireAlarm \/ alarmHandled
  \/ evict \/ restore \/ tick
  \/ \E c \in {"mux", "host"} : broadcast(c)
  \/ \E s \in Sockets :
       \/ fetch(s) \/ getAlarm(s) \/ setAlarm(s) \/ openDownlink(s) \/ openRemoteMux(s)
       \/ handleRemoteMuxMessage(s) \/ pumpRemoteStream(s)
       \/ abortRemoteStreams(s)

LinkSpec == LinkInit /\ [][LinkNext]_linkVars

----------------------------------------
\* A carrier that looks open to its browser while the instance runs has
\* the stream table its messages need, after any eviction ("Otherwise an
\* open socket can outlive all its process-local stream pumps").
CarriersHavePumps ==
  resident => \A s \in Open : ~Stale(s, DOMAIN streams)

\* "End hibernating downlinks when the owner session used to open them
\* expires": every open downlink is covered by an alarm no later than its
\* expiry, unless the handler that computes it anew is running.
OpenDownlinkHasAlarm ==
  \A s \in Open : firing \/ wakeAt \in 1..socket[s].expires
=============================================================================
