------------------------------- MODULE IcapServer -------------------------------
(***************************************************************************)
(* The ICAP server: connections that Squid opens, each for one request,    *)
(* wait for one of a few pool threads, and in enforcing mode the thread of *)
(* a request for the player first reports the video to the service.  The   *)
(* answer is always "204": the request of the browser is never changed.    *)
(*                                                                         *)
(* A socket's time-out bounds the wait for the next bytes, not the request:*)
(* a peer that keeps sending a few keeps its thread (PeerTrickles).        *)
(***************************************************************************)
EXTENDS Integers, FiniteSets

CONSTANTS
  Conns,       \* connections
  PoolSize,    \* max_workers
  Requests     \* what one may carry: [method, target, json, id, intent]

ASSUME IcapAssumption == PoolSize \in Nat \ {0}

VARIABLES
  enforce,     \* BRAINROT_SHIM_ENFORCE
  conn,        \* connection -> where it is
  request      \* connection -> what it carries

icapVars == <<enforce, conn, request>>

Busy == {c \in Conns : conn[c] \notin {"closed", "waiting"}}

IcapInit ==
  /\ enforce \in BOOLEAN
  /\ conn = [c \in Conns |-> "closed"]
  /\ \E r \in Requests : request = [c \in Conns |-> r]

Moves(c, from, to) == conn[c] = from /\ conn' = [conn EXCEPT ![c] = to]

\* process_request(): the accept loop hands every connection to the pool, which keeps
\* any number of them waiting.
Accept(c, r) ==
  /\ Moves(c, "closed", "waiting")
  /\ request' = [request EXCEPT ![c] = r]
  /\ UNCHANGED enforce

TakeUp(c) ==
  /\ Moves(c, "waiting", "reading")
  /\ Cardinality(Busy) < PoolSize
  /\ UNCHANGED <<enforce, request>>

\* Inside the loops over the header's lines and the body's chunks: one recv() or the next.
Reading(c) == conn[c] \in {"reading", "reading more"}

\* The request line, the headers and the body of a peer that sends them.
ReadRequest(c) ==
  /\ Reading(c)
  /\ conn' = [conn EXCEPT ![c] = "decide"]
  /\ UNCHANGED <<enforce, request>>

\* Some bytes of the request in time, not the last ones: the time-out starts anew.
PeerTrickles(c) ==
  /\ Moves(c, "reading", "reading more") \/ Moves(c, "reading more", "reading")
  /\ UNCHANGED <<enforce, request>>

\* A mistake: a peer that sends nothing is waited for without a time-out.
PeerStallsForever(c) ==
  /\ Reading(c)
  /\ conn' = [conn EXCEPT ![c] = "stalled"]
  /\ UNCHANGED <<enforce, request>>

\* A peer that stalls or hangs up: the socket's time-out or error ends the request.
PeerStalls(c) ==
  /\ Reading(c)
  /\ conn' = [conn EXCEPT ![c] = "closed"]
  /\ UNCHANGED <<enforce, request>>

\* _handle_reqmod(), _extract_snapshot() and _guess_intent(): a play is a request for the
\* player, or for what comes next, with a body that names a whole id, and no hover.
IsPlay(r) ==
  /\ r.method = "REQMOD" /\ r.target /\ r.json /\ r.id
  /\ r.intent \in {"click", "autoplay"}

Decide(c) ==
  /\ Moves(c, "decide", IF enforce /\ IsPlay(request[c]) THEN "check" ELSE "reply")
  /\ UNCHANGED <<enforce, request>>

\* A mistake: an error of the call of /api/check leaves out the next one.
PostCheckRaises(c) ==
  /\ Moves(c, "check", "analyze") \/ Moves(c, "check", "reply")
  /\ UNCHANGED <<enforce, request>>

\* _post_api(), best effort: whether the call of /api/check arrives or not.
PostCheck(c) ==
  /\ Moves(c, "check", "analyze")
  /\ UNCHANGED <<enforce, request>>

PostAnalyze(c) ==
  /\ Moves(c, "analyze", "reply")
  /\ UNCHANGED <<enforce, request>>

\* 204, the options, 400 or 405; then the connection is closed.
Reply(c) ==
  /\ Moves(c, "reply", "closed")
  /\ UNCHANGED <<enforce, request>>

Work(c) ==
  \/ ReadRequest(c) \/ PeerTrickles(c) \/ PeerStalls(c)
  \/ Decide(c) \/ PostCheck(c) \/ PostAnalyze(c) \/ Reply(c)

IcapNext ==
  \E c \in Conns : (\E r \in Requests : Accept(c, r)) \/ TakeUp(c) \/ Work(c)

\* The pool takes its tasks in their order, so none waits for ever (strong fairness);
\* a thread does not rest inside a request: each recv() and each post has a time-out.
IcapFairness == \A c \in Conns : SF_icapVars(TakeUp(c)) /\ WF_icapVars(Work(c))

IcapSpec == IcapInit /\ [][IcapNext]_icapVars /\ IcapFairness

-----------------------------------------------------------------------------
\* A peer sends all of a request or stops sending: its bytes do not dribble in for ever.
PeersFinish == \A c \in Conns : []<>~Reading(c) \/ <>[][~PeerTrickles(c)]_icapVars

\* If peers finish their requests, stall or hang up, every connection is answered or
\* closed, the one that waits for a thread included, whatever the service does.  (The
\* premise is needed: a time-out is one read's, so a peer that dribbles keeps its thread.)
ConnectionsEnd ==
  PeersFinish => \A c \in Conns : conn[c] = "waiting" ~> conn[c] = "closed"

\* In enforcing mode every play that was read is submitted for analysis, also when the
\* check before it got no answer.
PlaysAreSubmitted ==
  \A c \in Conns : (enforce /\ conn[c] = "decide" /\ IsPlay(request[c])) ~> conn[c] = "analyze"

=============================================================================
