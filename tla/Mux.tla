-------------------------------- MODULE Mux --------------------------------
(***************************************************************************)
(* The local side of the message mux (pkg/webpush/mux.go, http.go): where  *)
(* messages for this node come from, and the handlers they are given to.   *)
(* Handlers are added under the lock, and looked up without it, twice for  *)
(* each message.  What SendMessage does with the connections is in Uds.    *)
(*                                                                         *)
(* Of a destination "node/topic/..." only the topic matters here: NoTopic  *)
(* if it has a single part.                                                *)
(***************************************************************************)
EXTENDS Integers, Sequences, FiniteSets, Functions

CONSTANTS
  Tasks,        \* goroutines that bring a message, one each
  Topics,       \* topics messages are sent to
  MaxHandlers   \* bound on AddHandler

ASSUME MuxAssumption == MaxHandlers \in Nat /\ {"*", "", "none"} \cap Topics = {}

NoTopic == "none"
Paths   == Topics \cup {"*", ""}   \* what handlers are added for

VARIABLES
  httpMux,    \* mux.ServeMux is set; fixed
  handlers,   \* [Paths -> Seq(1..MaxHandlers)]: mux.handlers, a handlerSlice as its list
  adding,     \* the path of the AddHandler in progress, or NoTopic
  added,      \* how often AddHandler was called, which numbers the handlers
  lastId,     \* the counter of nextId
  msg,        \* [Tasks -> [at, http, topic, id]]: a message, and whether a request brought it
  called,     \* history: [Tasks -> the handlers called, in order]
  had,        \* history: [Tasks -> mux.handlers when the message came]
  fatal       \* the process was ended by the runtime

muxVars == <<handlers, adding, added, lastId, msg, called, had, fatal>>
muxAll  == <<httpMux, muxVars>>

NoHandlers == [p \in Paths |-> <<>>]

InitMux ==
  /\ httpMux \in BOOLEAN
  /\ handlers = NoHandlers /\ adding = NoTopic /\ added = 0 /\ lastId = 0
  /\ msg = [t \in Tasks |-> [at |-> "start", http |-> FALSE, topic |-> NoTopic, id |-> 0]]
  /\ called = [t \in Tasks |-> <<>>]
  /\ had = [t \in Tasks |-> NoHandlers]
  /\ fatal = FALSE

\* AddHandler has the lock and writes to the map.
AddStart(p) ==
  /\ adding = NoTopic /\ added < MaxHandlers
  /\ adding' = p /\ added' = added + 1
  /\ UNCHANGED <<handlers, lastId, msg, called, had, fatal>>

\* A second handler for a path makes a handlerSlice of the two, a third one extends it.
AddHandler ==
  /\ adding # NoTopic
  /\ handlers' = [handlers EXCEPT ![adding] = Append(@, added)]
  /\ adding' = NoTopic
  /\ UNCHANGED <<added, lastId, msg, called, had, fatal>>

-----------------------------------------------------------------------------
(***************************************************************************)
(* Where messages come from.                                               *)
(***************************************************************************)

\* A message that gets to HandleMessageForNode, with a number from nextId if numbered.
MuxMessage(t, http, topic, numbered) ==
  /\ msg[t].at = "start"
  /\ lastId' = IF numbered THEN lastId + 1 ELSE lastId
  /\ msg' = [msg EXCEPT ![t] = [at |-> IF topic = NoTopic THEN "sent" ELSE "star", http |-> http,
                                topic |-> topic, id |-> IF numbered THEN lastId + 1 ELSE 0]]
  /\ had' = [had EXCEPT ![t] = handlers]
  /\ UNCHANGED <<handlers, adding, added, called, fatal>>

\* A request that is answered without a message.
AnsweredOnly(t) ==
  /\ msg[t].at = "start"
  /\ msg' = [msg EXCEPT ![t].at = "done"]
  /\ UNCHANGED <<handlers, adding, added, lastId, called, had, fatal>>

\* Send and SendMeta of the application.
MuxSend(t) == \E topic \in Topics \cup {NoTopic} : MuxMessage(t, FALSE, topic, TRUE)

\* A message of a connection, which streamCommon hands over as it is.
FromStream(t) == \E topic \in Topics \cup {NoTopic} : MuxMessage(t, FALSE, topic, FALSE)

\* HTTPHandlerSend.  With q the message goes to q; without it to the parts of the path,
\* joined with blanks to a single part, which has no topic.  The request may bring the
\* number of its message.  A body that cannot be read is answered at once.
HTTPHandlerSend(t) ==
  \/ \E topic \in Topics \cup {NoTopic}, new \in BOOLEAN : MuxMessage(t, TRUE, topic, new)
  \/ AnsweredOnly(t)

\* HTTPHandlerWebpush.  The dot is put before the topic without a slash, so what follows
\* the topic in the path, if anything does, is the topic of the message.  A request that
\* is not signed, not for here or cannot be read is answered at once.
HTTPHandlerWebpush(t) ==
  \/ \E topic \in Topics \cup {NoTopic} : MuxMessage(t, TRUE, topic, TRUE)
  \/ AnsweredOnly(t)

-----------------------------------------------------------------------------
(***************************************************************************)
(* HandleMessageForNode.                                                   *)
(***************************************************************************)

\* A lookup that meets a write to the map may be noticed by the runtime.
MapRead == fatal' \in IF adding = NoTopic THEN {FALSE} ELSE BOOLEAN

At(t, l) == msg' = [msg EXCEPT ![t].at = l]
GiveTo(t, p) == called' = [called EXCEPT ![t] = @ \o handlers[p]]

HandleStar(t) ==
  /\ msg[t].at = "star"
  /\ GiveTo(t, "*") /\ MapRead
  /\ At(t, IF httpMux THEN "http" ELSE "topic")
  /\ UNCHANGED <<handlers, adding, added, lastId, had>>

\* The HTTP handler for the path: one that writes a body writes to a nil buffer.  The
\* panic is recovered where the message came in a request, and ends the process elsewhere.
HandleHTTP(t, writes) ==
  /\ msg[t].at = "http"
  /\ At(t, IF writes THEN "panicked" ELSE "sent")
  /\ fatal' = (writes /\ ~msg[t].http)
  /\ UNCHANGED <<handlers, adding, added, lastId, called, had>>

\* Mutant: the handlers for what nobody handles get the message as well.
HandleTopicBoth(t) ==
  /\ msg[t].at = "topic"
  /\ called' = [called EXCEPT ![t] = @ \o handlers[msg[t].topic] \o handlers[""]] /\ MapRead
  /\ At(t, "sent")
  /\ UNCHANGED <<handlers, adding, added, lastId, had>>

\* The handlers of the topic, or those for what nobody handles.
HandleTopic(t) ==
  /\ msg[t].at = "topic"
  /\ GiveTo(t, IF handlers[msg[t].topic] # <<>> THEN msg[t].topic ELSE "") /\ MapRead
  /\ At(t, "sent")
  /\ UNCHANGED <<handlers, adding, added, lastId, had>>

\* What is left of SendMessage, and the answer to the request.
MuxReturn(t) ==
  /\ msg[t].at = "sent"
  /\ At(t, "done")
  /\ UNCHANGED <<handlers, adding, added, lastId, called, had, fatal>>

Task(t) ==
  \/ MuxSend(t) \/ FromStream(t) \/ HTTPHandlerSend(t) \/ HTTPHandlerWebpush(t)
  \/ HandleStar(t) \/ (\E w \in BOOLEAN : HandleHTTP(t, w)) \/ HandleTopic(t) \/ MuxReturn(t)

NextMux ==
  /\ ~fatal
  /\ (\E p \in Paths : AddStart(p)) \/ AddHandler \/ (\E t \in Tasks : Task(t))
  /\ UNCHANGED httpMux

SpecMux == InitMux /\ [][NextMux]_muxAll

-----------------------------------------------------------------------------
MuxTypeOK ==
  /\ handlers \in [Paths -> Seq(1..MaxHandlers)] /\ adding \in Paths \cup {NoTopic}
  /\ lastId \in 0..Cardinality(Tasks)
  /\ \A t \in Tasks : msg[t].at \in {"start", "star", "http", "topic", "sent", "done", "panicked"}

\* "MuxMessage will be passed to one or more of the local handlers, based on type"
\* (HandleMessageForNode): whatever is added meanwhile, a message that was handled went
\* once to each handler for everything and, unless HTTP handlers take them, to each for
\* its topic that was there when it came; to those for what nobody handles only if its
\* topic had none; to no other; and no two messages were given one number.
HandledOnce ==
  \A t \in Tasks : msg[t].at = "done" =>
    LET was(p) == Range(had[t][p])
        now(p) == Range(handlers[p])
        got == Range(called[t])
        topic == msg[t].topic
    IN /\ IsInjective(called[t])
       /\ topic = NoTopic => got = {}
       /\ topic # NoTopic => was("*") \subseteq got /\ (~httpMux => was(topic) \subseteq got)
       /\ topic # NoTopic => got \subseteq now("*") \cup now(topic) \cup now("")
       /\ got \cap now("") # {} => was(topic) = {} /\ ~httpMux
       /\ topic # NoTopic /\ ~httpMux /\ now(topic) = {} => was("") \subseteq got
       /\ \A u \in Tasks \ {t} : msg[t].id # 0 => msg[u].id # msg[t].id
=============================================================================
