-------------------------------- MODULE Chat --------------------------------
(***************************************************************************)
(* The shopping assistant, from the chat widget to the stored transcript.  *)
(* A tab of the browser sends a message with the chat session it finds in  *)
(* the local storage that all tabs share (frontend/components/chat); the   *)
(* web service forwards it and repeats it once when no answer begins       *)
(* (web ai_gateway.open_chat); the AI service resolves the session, reads  *)
(* its history, lets the model answer and call tools, stores the exchange  *)
(* and streams frames back (ai chat_service).  A message and one of its    *)
(* two attempts is a run; a run may outlive the request that started it.   *)
(***************************************************************************)
EXTENDS Integers, FiniteSets

CONSTANTS Customers,  \* who can sign in
          Anonymous,  \* nobody signed in
          Absent,     \* a session that was never created
          MaxTurns,   \* bound: how many messages are sent
          MaxFaults,  \* bound: lost connections and stopped processes
          Cap,        \* MAX_MESSAGES_PER_SESSION
          MaxRounds,  \* model calls of one answer, MAX_TOOL_ITERATIONS + 1
          MaxTries    \* attempts of one model call, 1 + len(_BACKOFF_SECONDS)

Turns      == 1..MaxTurns
Runs       == Turns \X {1, 2}
Identities == Customers \cup {Anonymous}
NoSession  == <<0, 0>>
Forgotten  == <<0, 1>>  \* a session of a database that has been replaced

ASSUME ChatAssumption ==
  /\ Anonymous \notin Customers
  /\ Absent \notin Identities
  /\ MaxTurns \in Nat /\ MaxFaults \in Nat /\ Cap \in Nat
  /\ MaxRounds \in Nat \ {0} /\ MaxTries \in Nat \ {0}

VARIABLES cookie,   \* who the browser is signed in as
          key,      \* the session id in local storage (SESSION_KEY)
          screen,   \* what the tab shows of each message
          gate,     \* the forwarding request of each message in the web service
          owner,    \* ai_chat_sessions.user_email; a session is named by its creator
          messages, \* ai_chat_messages: the runs whose two messages are stored
          run,      \* each run in the AI service
          faults    \* how many faults there were

browser == <<cookie, key, screen>>
vars    == <<browser, gate, owner, messages, run, faults>>

NoGate == [stage |-> "unsent", attempt |-> 1, by |-> Anonymous, session |-> NoSession]
\* A run that keeps nothing but its session.
Blank(stage, s) ==
  [stage |-> stage, session |-> s,
   round |-> 1, try |-> 1,  \* the model call it makes
   shown |-> 0,    \* how many tries of this call have shown text
   others |-> {}]  \* whose data besides the visitor's own the model was given

NoRun == Blank("none", NoSession)

Init == /\ cookie = Anonymous
        /\ key \in {NoSession, Forgotten}
        /\ screen = [t \in Turns |-> "unsent"]
        /\ gate = [t \in Turns |-> NoGate]
        /\ owner = [s \in Runs |-> Absent]
        /\ messages = {}
        /\ run = [r \in Runs |-> NoRun]
        /\ faults = 0

Becomes(r, to) == run' = [run EXCEPT ![r] = to]

\* An attempt reaches the AI service, with the session id of the request.
Start(r, s) == Becomes(r, Blank("resolving", s))

\* The end of a run: only its session matters from now on.
End(r, stage) == Becomes(r, Blank(stage, run[r].session))

Show(t, what) ==
  screen' = [screen EXCEPT ![t] = IF @ = "typing" THEN what ELSE @]

-----------------------------------------------------------------------------
(* The browser. *)

\* A login or a logout in any tab; the cookie changes for all of them.
Unsent == \E t \in Turns : screen[t] = "unsent"  \* else the cookie and the key are idle

SignIn(u) == /\ Unsent /\ cookie # u
             /\ cookie' = u
             /\ UNCHANGED <<key, screen, gate, owner, messages, run, faults>>

\* The session id is dropped: by "start a new chat", or by the widget's effect
\* when the session store, which may be late, reports another user.
Forget == /\ Unsent
          /\ key' = NoSession
          /\ UNCHANGED <<cookie, screen, gate, owner, messages, run, faults>>

\* send(): the message, the session id in storage and the cookie go to the web
\* service, which makes its first attempt.  A tab waits for its answer before
\* it sends again; the others do not wait for it.
Send(t) ==
  /\ screen[t] = "unsent"
  /\ \A u \in Turns : u < t => screen[u] # "unsent"
  /\ screen' = [screen EXCEPT ![t] = "typing"]
  /\ gate' = [gate EXCEPT ![t] = [stage |-> "asked", attempt |-> 1,
                                  by |-> cookie, session |-> key]]
  /\ Start(<<t, 1>>, key)
  /\ UNCHANGED <<cookie, key, owner, messages, faults>>

\* "Start a new chat" meanwhile: the fetch is aborted, the web service goes on.
Reset(t) == /\ screen[t] = "typing"
            /\ Show(t, "error")
            /\ key' = NoSession
            /\ UNCHANGED <<cookie, gate, owner, messages, run, faults>>

-----------------------------------------------------------------------------
(* The web service: open_chat and _proxy. *)

Current(t) == <<t, gate[t].attempt>>

Close(t, what) == /\ gate' = [gate EXCEPT ![t] = [@ EXCEPT !.stage = "closed",
                                                        !.session = NoSession]]
                  /\ Show(t, what)

\* The AI service answers 200: its header names the session, before any frame.
Answering == {"loading", "calling", "persisting", "done", "error"}

Open(t) ==
  /\ gate[t].stage = "asked"
  /\ run[Current(t)].stage \in Answering
  /\ gate' = [gate EXCEPT ![t].stage = "open"]
  /\ key' = IF screen[t] = "typing" THEN run[Current(t)].session ELSE key
  /\ UNCHANGED <<cookie, screen, owner, messages, run, faults>>

Dead(t) == run[Current(t)].stage = "cut"

Fault == faults < MaxFaults /\ faults' = faults + 1

\* No answer: the connection fails or the platform answers 502, 503 or 504.
\* The first attempt is repeated whatever became of its run.
Retry(t) == /\ gate' = [gate EXCEPT ![t].attempt = 2]
            /\ Start(<<t, 2>>, gate[t].session)
            /\ UNCHANGED screen

Lose(t) ==
  /\ gate[t].stage = "asked"
  /\ IF gate[t].attempt = 1 THEN Retry(t) ELSE Close(t, "error") /\ UNCHANGED run
  /\ IF Dead(t) THEN UNCHANGED faults ELSE Fault
  /\ UNCHANGED <<cookie, key, owner, messages>>

\* A 404 is not repeated.
Refuse(t) ==
  /\ gate[t].stage = "asked"
  /\ run[Current(t)].stage = "refused"
  /\ Close(t, "error")
  /\ UNCHANGED <<cookie, key, owner, messages, run, faults>>

\* The stream breaks off, or the browser has gone.
Interrupt(t) ==
  /\ gate[t].stage = "open"
  /\ Close(t, "error")
  /\ IF Dead(t) \/ screen[t] = "error" THEN UNCHANGED faults ELSE Fault
  /\ UNCHANGED <<cookie, key, owner, messages, run>>

\* The last frame of the run reaches the tab.
DeliverDone(t) ==
  /\ gate[t].stage = "open"
  /\ run[Current(t)].stage = "done"
  /\ Close(t, "done")
  /\ UNCHANGED <<cookie, key, owner, messages, run, faults>>

Deliver(t) ==
  /\ gate[t].stage = "open"
  /\ run[Current(t)].stage \in {"done", "error"}
  /\ Close(t, run[Current(t)].stage)
  /\ UNCHANGED <<cookie, key, owner, messages, run, faults>>

-----------------------------------------------------------------------------
(* The AI service: one run. *)

By(r) == gate[r[1]].by

SameIdentityOrGuest(a, b) == a = b \/ b = Anonymous

SameIdentity(a, b) == a = b

Exists(s) == s \in Runs /\ owner[s] # Absent

\* resolve_session: a transaction of its own.
Resolve(r) ==
  LET s == run[r].session  \* the session of the request
      new == s = NoSession \/ ~SameIdentity(owner[s], By(r))
  IN /\ run[r].stage = "resolving"
     /\ IF s # NoSession /\ ~Exists(s)
        THEN Becomes(r, Blank("refused", NoSession)) /\ UNCHANGED owner
        ELSE /\ Becomes(r, [run[r] EXCEPT !.stage = "loading",
                                       !.session = IF new THEN r ELSE s])
             /\ owner' = IF new THEN [owner EXCEPT ![r] = By(r)] ELSE owner
     /\ UNCHANGED <<browser, gate, messages, faults>>

Stored(s) == {r \in messages : run[r].session = s}

Full(s) == 2 * Cardinality(Stored(s)) >= Cap

RefusedLate(r) == 2 * Cardinality(Stored(run[r].session)) > Cap

Refused(r) == Full(run[r].session)

\* _load_history: another transaction; a full session ends the turn.
Load(r) ==
  /\ run[r].stage = "loading"
  /\ IF Refused(r)
     THEN End(r, "error")
     ELSE Becomes(r, [run[r] EXCEPT
            !.stage = "calling",
            !.others = {By(m) : m \in Stored(run[r].session)} \ {By(r)}])
  /\ UNCHANGED <<browser, gate, owner, messages, faults>>

\* A model call fails: it is repeated only while nothing of it was passed on.
Repeat(r) == /\ run[r].try < MaxTries
             /\ Becomes(r, [run[r] EXCEPT !.try = @ + 1])

FailCallAfterText(r, yielded) ==
  /\ run[r].try < MaxTries
  /\ Becomes(r, [run[r] EXCEPT !.try = @ + 1, !.shown = IF yielded THEN @ + 1 ELSE @])

FailCall(r, yielded) == IF yielded THEN End(r, "error") ELSE Repeat(r)

\* execute: a customer-scoped tool gets the e-mail of the session, whatever
\* e-mail e the model put into its arguments.
ToolEmail(r, e) == owner[run[r].session]

\* The model calls tools: an order tool reads the orders of the customer it is
\* given; other tools and failing ones read nothing of a customer.
UseTools(r) ==
  \E read \in {{}} \cup {{ToolEmail(r, e)} : e \in Identities} :
    /\ run[r].round < MaxRounds
    /\ Becomes(r, [run[r] EXCEPT !.round = @ + 1, !.try = 1, !.shown = 0,
                                 !.others = @ \cup (read \ {Anonymous, By(r)})])

\* The model answers; a blank answer is replaced by a fixed text.  Text is
\* shown as it comes.
Answer(r) == Becomes(r, [run[r] EXCEPT !.stage = "persisting", !.round = 1, !.try = 1,
                                       !.shown = @ + 1])

\* One pass of the loop in stream_reply.  It ends the turn when the call fails
\* for good, a tool raises an application error or the rounds are used up.
Call(r) ==
  /\ run[r].stage = "calling"
  /\ \/ \E yielded \in BOOLEAN : FailCall(r, yielded)
     \/ UseTools(r)
     \/ Answer(r)
     \/ End(r, "error")
  /\ UNCHANGED <<browser, gate, owner, messages, faults>>

\* _persist: both messages in one transaction, then the done frame.
PersistLast(r) ==
  /\ run[r].stage = "persisting"
  /\ messages' = {m \in messages : run[m].session # run[r].session} \cup {r}
  /\ End(r, "done")
  /\ UNCHANGED <<browser, gate, owner, faults>>

Persist(r) ==
  /\ run[r].stage = "persisting"
  /\ messages' = messages \cup {r}
  /\ End(r, "done")
  /\ UNCHANGED <<browser, gate, owner, faults>>

\* The transaction fails: an error frame.
FailPersistSilently(r) ==
  /\ run[r].stage = "persisting"
  /\ End(r, "done")
  /\ UNCHANGED <<browser, gate, owner, messages, faults>>

FailPersist(r) ==
  /\ run[r].stage = "persisting"
  /\ End(r, "error")
  /\ UNCHANGED <<browser, gate, owner, messages, faults>>

Abandoned(r) == r # Current(r[1]) \/ gate[r[1]].stage = "closed"

Active == {"resolving", "loading", "calling", "persisting"}

\* The process stops, or the run is cancelled because its request has gone.
Cut(r) ==
  /\ run[r].stage \in Active
  /\ Becomes(r, Blank("cut", NoSession))
  /\ IF Abandoned(r) THEN UNCHANGED faults ELSE Fault
  /\ UNCHANGED <<browser, gate, owner, messages>>

-----------------------------------------------------------------------------
Work(r) == \/ Resolve(r) \/ Load(r) \/ Call(r) \/ Persist(r) \/ FailPersist(r)

Forward(t) == Open(t) \/ Refuse(t) \/ Deliver(t)

Next == \/ Forget \/ \E u \in Identities : SignIn(u)
        \/ \E t \in Turns : Send(t) \/ Reset(t)
        \/ \E t \in Turns : Forward(t) \/ Lose(t) \/ Interrupt(t)
        \/ \E r \in Runs : Work(r) \/ Cut(r)

Spec == Init /\ [][Next]_vars

\* Calls to the model and the database time out, so a run that is not cut goes
\* on; a connection whose other end died is noticed.
Fairness == /\ \A r \in Runs : WF_vars(Work(r))
            /\ \A t \in Turns : /\ WF_vars(Forward(t))
                                /\ WF_vars(Dead(t) /\ (Lose(t) \/ Interrupt(t)))

FairSpec == Spec /\ Fairness

-----------------------------------------------------------------------------
(* Properties. *)

Stages == {"none", "refused", "cut"} \cup Active \cup Answering

TypeOK ==
  /\ cookie \in Identities
  /\ key \in Runs \cup {NoSession, Forgotten}
  /\ screen \in [Turns -> {"unsent", "typing", "done", "error"}]
  /\ gate \in [Turns -> [stage : {"unsent", "asked", "open", "closed"}, attempt : {1, 2},
                         by : Identities, session : Runs \cup {NoSession, Forgotten}]]
  /\ owner \in [Runs -> Identities \cup {Absent}]
  /\ messages \subseteq Runs
  /\ run \in [Runs -> [stage : Stages, session : Runs \cup {NoSession, Forgotten},
                       others : SUBSET Identities, round : 1..MaxRounds, try : 1..MaxTries,
                       shown : Nat]]

\* What the model is given, stored messages and orders alike, belongs to the
\* visitor who asked, although the browser may send a session of somebody else:
\* an answer that began before a logout stores its session id after it.
OwnData == \A r \in Runs : run[r].others = {}

\* An exchange the tab shows as complete is stored, in the session that its
\* answer named, and that session is the visitor's own.
DoneIsStored ==
  \A t \in Turns : screen[t] = "done" =>
    /\ Current(t) \in messages
    /\ owner[run[Current(t)].session] = gate[t].by

\* No text is shown twice: within a round, all that is shown, and so all that
\* is stored as the answer, came from one attempt of the model call.
ShownOnce ==
  \A r \in Runs : run[r].shown <= 1

\* A turn is under way in s and has passed the check of the session's size.
Replying(s) ==
  \E r \in Runs : /\ run[r].session = s
                  /\ run[r].stage \in {"calling", "persisting"}

\* Turns that run together may overfill a session, but once it is full and
\* they have ended nothing is added to it, retried requests included.
FullStaysFull ==
  [][\A s \in Runs : Full(s) /\ ~Replying(s) =>
                      ~Replying(s)' /\ Stored(s)' = Stored(s)]_vars

\* Every message that was sent is answered, fails or is dropped.
Settled == []<>(\A t \in Turns : screen[t] # "typing")

\* The visitor's view of it all: see Conversation.
Outcome == [unsent |-> "unsent", typing |-> "waiting", done |-> "answered",
            error |-> "failed"]

Kept == {t \in Turns : \E a \in {1, 2} : <<t, a>> \in messages}

Promise == INSTANCE Conversation
             WITH outcome <- [t \in Turns |-> Outcome[screen[t]]], kept <- Kept

Keeps == Promise!Spec
=============================================================================
