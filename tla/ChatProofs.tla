---------------------------- MODULE ChatProofs ------------------------------
(***************************************************************************)
(* Proofs about Chat, for any customers, messages, faults, session cap,    *)
(* tool rounds and attempts of a model call.                               *)
(***************************************************************************)
EXTENDS Chat, FiniteSetTheorems, TLAPS

RunType == [stage : Stages, session : Runs \cup {NoSession, Forgotten},
            others : SUBSET Identities, round : 1..MaxRounds, try : 1..MaxTries,
            shown : Nat]

GateType == [stage : {"unsent", "asked", "open", "closed"}, attempt : {1, 2},
             by : Identities, session : Runs \cup {NoSession, Forgotten}]

-----------------------------------------------------------------------------
(* The inductive invariant. *)

\* An unsent message has started no run, and a second attempt starts only when
\* the first is given up.
Fresh ==
  \A t \in Turns :
    /\ screen[t] = "unsent" <=> gate[t].stage = "unsent"
    /\ gate[t].stage = "unsent" => gate[t].attempt = 1 /\ run[<<t, 1>>].stage = "none"
    /\ gate[t].attempt = 1 => run[<<t, 2>>].stage = "none"

\* Only a run that has passed resolve_session can have created a session.
Begun ==
  \A r \in Runs : run[r].stage \in {"none", "resolving"} => owner[r] = Absent

\* A run that answers works on a session of the visitor who asked.
OwnSession ==
  \A r \in Runs : run[r].stage \in Answering =>
    run[r].session \in Runs /\ owner[run[r].session] = By(r)

StoredDone == \A r \in Runs : r \in messages <=> run[r].stage = "done"

\* Text has been shown only by the call that ended the loop.
OneText ==
  \A r \in Runs : /\ run[r].shown <= 1
                  /\ run[r].stage # "persisting" => run[r].shown = 0

ShownDone ==
  \A t \in Turns : screen[t] = "done" =>
    gate[t].stage = "closed" /\ run[Current(t)].stage = "done"

Inv == /\ TypeOK /\ Fresh /\ Begun /\ OwnSession /\ StoredDone /\ OwnData
       /\ OneText /\ ShownDone

-----------------------------------------------------------------------------
(* Types. *)

LEMMA CurrentType ==
  ASSUME TypeOK, NEW t \in Turns
  PROVE  Current(t) \in Runs
BY DEF TypeOK, Current, Runs

LEMMA RunOne ==
  ASSUME TypeOK, NEW r \in Runs, NEW to \in RunType, Becomes(r, to)
  PROVE  run' \in [Runs -> RunType]
BY DEF TypeOK, Becomes, RunType

LEMMA BlankType ==
  ASSUME ChatAssumption, NEW stage \in Stages, NEW s \in Runs \cup {NoSession, Forgotten}
  PROVE  Blank(stage, s) \in RunType
BY DEF ChatAssumption, Blank, RunType

LEMMA EndOne ==
  ASSUME ChatAssumption, TypeOK, NEW r \in Runs, NEW stage \in Stages, End(r, stage)
  PROVE  run' \in [Runs -> RunType]
<1>1. run[r].session \in Runs \cup {NoSession, Forgotten} BY DEF TypeOK
<1> QED BY <1>1, BlankType, RunOne DEF End

LEMMA StartOne ==
  ASSUME ChatAssumption, TypeOK, NEW r \in Runs,
         NEW s \in Runs \cup {NoSession, Forgotten}, Start(r, s)
  PROVE  run' \in [Runs -> RunType]
BY BlankType, RunOne DEF Start, Stages, Active

LEMMA CloseOne ==
  ASSUME TypeOK, NEW t \in Turns, NEW what \in {"done", "error"}, Close(t, what)
  PROVE  /\ gate' \in [Turns -> GateType]
         /\ screen' \in [Turns -> {"unsent", "typing", "done", "error"}]
<1>1. gate[t] \in GateType BY DEF TypeOK, GateType
<1>2. [gate[t] EXCEPT !.stage = "closed", !.session = NoSession] \in GateType
  BY <1>1 DEF GateType
<1>3. gate \in [Turns -> GateType] BY DEF TypeOK, GateType
<1>4. gate' \in [Turns -> GateType] BY <1>2, <1>3 DEF Close
<1> QED BY <1>4 DEF TypeOK, Close, Show

LEMMA TypeInit ==
  ASSUME ChatAssumption, Init
  PROVE  TypeOK
<1>1. NoRun \in RunType BY BlankType DEF NoRun, Stages
<1>2. run \in [Runs -> RunType] BY <1>1 DEF Init
<1> QED BY <1>2 DEF Init, TypeOK, NoGate, Identities, RunType

LEMMA TypeStep ==
  ASSUME ChatAssumption, TypeOK, OwnSession, Next
  PROVE  TypeOK'
<1>1. CASE Forget BY <1>1 DEF Forget, TypeOK
<1>2. ASSUME NEW u \in Identities, SignIn(u) PROVE TypeOK'
  BY <1>2 DEF SignIn, TypeOK
<1>3. ASSUME NEW t \in Turns, Send(t) PROVE TypeOK'
  <2>1. <<t, 1>> \in Runs BY DEF Runs
  <2>2. run' \in [Runs -> RunType] BY <1>3, <2>1, StartOne DEF Send, TypeOK
  <2> QED BY <1>3, <2>2 DEF Send, TypeOK, RunType
<1>4. ASSUME NEW t \in Turns, Reset(t) PROVE TypeOK'
  BY <1>4 DEF Reset, Show, TypeOK
<1>5. ASSUME NEW t \in Turns, Open(t) PROVE TypeOK'
  <2>1. Current(t) \in Runs BY CurrentType
  <2>2. key' \in Runs \cup {NoSession, Forgotten} BY <1>5, <2>1 DEF Open, TypeOK
  <2> QED BY <1>5, <2>2 DEF Open, TypeOK
<1>6. ASSUME NEW t \in Turns, Refuse(t) PROVE TypeOK'
  BY <1>6, CloseOne DEF Refuse, TypeOK, GateType
<1>7. ASSUME NEW t \in Turns, Deliver(t) PROVE TypeOK'
  BY <1>7, CloseOne DEF Deliver, TypeOK, GateType
<1>8. ASSUME NEW t \in Turns, Lose(t) PROVE TypeOK'
  <2>1. CASE gate[t].attempt = 1
    <3>1. <<t, 2>> \in Runs /\ gate[t].session \in Runs \cup {NoSession, Forgotten}
      BY DEF Runs, TypeOK
    <3>2. run' \in [Runs -> RunType]
      BY <1>8, <2>1, <3>1, StartOne DEF Lose, Retry
    <3>3. gate' \in [Turns -> GateType] BY <1>8, <2>1 DEF Lose, Retry, TypeOK, GateType
    <3> QED BY <1>8, <2>1, <3>2, <3>3 DEF Lose, Retry, TypeOK, RunType, GateType
  <2>2. CASE gate[t].attempt # 1
    BY <1>8, <2>2, CloseOne DEF Lose, TypeOK, GateType
  <2> QED BY <2>1, <2>2
<1>9. ASSUME NEW t \in Turns, Interrupt(t) PROVE TypeOK'
  BY <1>9, CloseOne DEF Interrupt, TypeOK, GateType
<1>10. ASSUME NEW r \in Runs, Resolve(r) PROVE TypeOK'
  <2>1. By(r) \in Identities BY DEF TypeOK, By, Runs
  <2>7. run[r] \in RunType BY DEF TypeOK, RunType
  <2>2. \A s \in Runs \cup {NoSession, Forgotten} :
          [run[r] EXCEPT !.stage = "loading", !.session = s] \in RunType
    BY <2>7 DEF RunType, Stages, Answering
  <2>3. Blank("refused", NoSession) \in RunType BY BlankType DEF Stages
  <2>4. run[r].session \in Runs \cup {NoSession, Forgotten} BY DEF TypeOK
  <2>5. run' \in [Runs -> RunType] BY <1>10, <2>2, <2>3, <2>4, RunOne DEF Resolve
  <2>6. owner' \in [Runs -> Identities \cup {Absent}]
    BY <1>10, <2>1 DEF Resolve, TypeOK
  <2> QED BY <1>10, <2>5, <2>6 DEF Resolve, TypeOK, RunType, browser
<1>11. ASSUME NEW r \in Runs, Load(r) PROVE TypeOK'
  <2>1. \A m \in Runs : By(m) \in Identities BY DEF TypeOK, By, Runs
  <2> DEFINE others == {By(m) : m \in Stored(run[r].session)} \ {By(r)}
  <2>2. others \in SUBSET Identities BY <2>1 DEF Stored, TypeOK
  <2> HIDE DEF others
  <2>3. run[r] \in RunType BY DEF TypeOK, RunType
  <2>4. [run[r] EXCEPT !.stage = "calling", !.others = others] \in RunType
    BY <2>2, <2>3 DEF RunType, Stages, Active
  <2>5. run' \in [Runs -> RunType]
    BY <1>11, <2>4, RunOne, EndOne DEF Load, Stages, Answering, others
  <2> QED BY <1>11, <2>5 DEF Load, TypeOK, RunType, browser
<1>12. ASSUME NEW r \in Runs, Call(r) PROVE TypeOK'
  <2>1. run[r] \in RunType BY DEF TypeOK, RunType
  <2>2. ASSUME NEW yielded \in BOOLEAN, FailCall(r, yielded)
        PROVE  run' \in [Runs -> RunType]
    <3>1. ASSUME End(r, "error") PROVE run' \in [Runs -> RunType]
      BY <3>1, EndOne DEF Stages, Answering
    <3>2. ASSUME Repeat(r) PROVE run' \in [Runs -> RunType]
      <4>1. run[r].try \in 1..MaxTries /\ run[r].try < MaxTries BY <2>1, <3>2 DEF RunType, Repeat
      <4>2. run[r].try + 1 \in 1..MaxTries BY <4>1 DEF ChatAssumption
      <4>3. [run[r] EXCEPT !.try = @ + 1] \in RunType BY <2>1, <4>2 DEF RunType
      <4> QED BY <3>2, <4>3, RunOne DEF Repeat
    <3> QED BY <2>2, <3>1, <3>2 DEF FailCall
  <2>3. ASSUME UseTools(r) PROVE run' \in [Runs -> RunType]
    <3>1. PICK read \in {{}} \cup {{ToolEmail(r, e)} : e \in Identities} :
            /\ run[r].round < MaxRounds
            /\ Becomes(r, [run[r] EXCEPT !.round = @ + 1, !.try = 1, !.shown = 0,
                             !.others = @ \cup (read \ {Anonymous, By(r)})])
      BY <2>3 DEF UseTools
    <3> DEFINE others == run[r].others \cup (read \ {Anonymous, By(r)})
    <3>2. others \in SUBSET Identities
      <4>1. owner[run[r].session] = By(r) BY <1>12 DEF Call, OwnSession, Answering
      <4>2. read \ {Anonymous, By(r)} = {} BY <3>1, <4>1 DEF ToolEmail
      <4> QED BY <2>1, <4>2 DEF RunType
    <3> HIDE DEF others
    <3>3. run[r].round + 1 \in 1..MaxRounds /\ 1 \in 1..MaxTries
      BY <2>1, <3>1 DEF RunType, ChatAssumption
    <3>4. [run[r] EXCEPT !.round = @ + 1, !.try = 1, !.shown = 0, !.others = others] \in RunType
      BY <2>1, <3>2, <3>3 DEF RunType
    <3> QED BY <3>1, <3>4, RunOne DEF others
  <2>4. ASSUME Answer(r) PROVE run' \in [Runs -> RunType]
    <3>1. 1 \in 1..MaxRounds /\ 1 \in 1..MaxTries /\ run[r].shown + 1 \in Nat
      BY <2>1 DEF RunType, ChatAssumption
    <3>2. "persisting" \in Stages BY DEF Stages, Active
    <3>3. [run[r] EXCEPT !.stage = "persisting", !.round = 1, !.try = 1, !.shown = @ + 1]
            \in RunType
      BY <2>1, <3>1, <3>2 DEF RunType
    <3> QED BY <2>4, <3>3, RunOne DEF Answer
  <2>5. ASSUME End(r, "error") PROVE run' \in [Runs -> RunType]
    BY <2>5, EndOne DEF Stages, Answering
  <2>6. run' \in [Runs -> RunType]
    BY <1>12, <2>2, <2>3, <2>4, <2>5 DEF Call
  <2> QED BY <1>12, <2>6 DEF Call, TypeOK, RunType, browser
<1>13. ASSUME NEW r \in Runs, Persist(r) PROVE TypeOK'
  BY <1>13, EndOne DEF Persist, TypeOK, RunType, Stages, Answering, browser
<1>14. ASSUME NEW r \in Runs, FailPersist(r) PROVE TypeOK'
  BY <1>14, EndOne DEF FailPersist, TypeOK, RunType, Stages, Answering, browser
<1>15. ASSUME NEW r \in Runs, Cut(r) PROVE TypeOK'
  <2>1. Blank("cut", NoSession) \in RunType BY BlankType DEF Stages
  <2> QED BY <1>15, <2>1, RunOne DEF Cut, TypeOK, RunType, browser
<1> QED
  BY <1>1, <1>2, <1>3, <1>4, <1>5, <1>6, <1>7, <1>8, <1>9, <1>10, <1>11, <1>12,
     <1>13, <1>14, <1>15 DEF Next, Forward, Work


-----------------------------------------------------------------------------
(* The rest of the invariant. *)

Rest == Fresh /\ Begun /\ OwnSession /\ StoredDone /\ OwnData /\ OneText /\ ShownDone

LEMMA RunsOf ==
  ASSUME NEW r \in Runs
  PROVE  r[1] \in Turns /\ r = <<r[1], r[2]>> /\ r[2] \in {1, 2}
BY DEF Runs

LEMMA ByType ==
  ASSUME ChatAssumption, TypeOK, NEW r \in Runs
  PROVE  By(r) \in Identities /\ By(r) # Absent
BY RunsOf DEF TypeOK, By, ChatAssumption

\* A step of the browser or of the web service that starts no run.
LEMMA GateFrame ==
  ASSUME TypeOK, Rest, UNCHANGED <<owner, messages, run>>,
         \A t \in Turns :
           /\ gate'[t].by = gate[t].by /\ gate'[t].attempt = gate[t].attempt
           /\ gate'[t].stage = "unsent" <=> gate[t].stage = "unsent"
           /\ screen'[t] = "unsent" <=> screen[t] = "unsent"
           /\ screen'[t] = "done" =>
                gate'[t].stage = "closed" /\ run[Current(t)].stage = "done"
  PROVE  Rest'
<1>1. \A r \in Runs : By(r)' = By(r) BY RunsOf DEF By
<1>2. \A t \in Turns : Current(t)' = Current(t) BY DEF Current
<1>3. Fresh'
  <2> SUFFICES ASSUME NEW t \in Turns
               PROVE  /\ screen'[t] = "unsent" <=> gate'[t].stage = "unsent"
                      /\ gate'[t].stage = "unsent" =>
                           gate'[t].attempt = 1 /\ run'[<<t, 1>>].stage = "none"
                      /\ gate'[t].attempt = 1 => run'[<<t, 2>>].stage = "none"
    BY Zenon DEF Fresh
  <2>1. /\ screen[t] = "unsent" <=> gate[t].stage = "unsent"
        /\ gate[t].stage = "unsent" => gate[t].attempt = 1 /\ run[<<t, 1>>].stage = "none"
        /\ gate[t].attempt = 1 => run[<<t, 2>>].stage = "none"
    BY Zenon DEF Rest, Fresh
  <2>2. /\ gate'[t].attempt = gate[t].attempt
        /\ gate'[t].stage = "unsent" <=> gate[t].stage = "unsent"
        /\ screen'[t] = "unsent" <=> screen[t] = "unsent"
    BY Zenon
  <2>3. run' = run
    BY Zenon
  <2> QED
    BY <2>1, <2>2, <2>3, Zenon
<1>4. OwnSession' BY <1>1 DEF Rest, OwnSession
<1>5. ShownDone' BY <1>2 DEF Rest, ShownDone
<1> QED BY <1>3, <1>4, <1>5 DEF Rest, Begun, StoredDone, OwnData, OneText

\* A step of one run.
LEMMA RunFrame ==
  ASSUME ChatAssumption, TypeOK, Rest, NEW r \in Runs, NEW to \in RunType,
         UNCHANGED <<screen, gate>>, run[r].stage \in Active, Becomes(r, to),
         to.stage \notin {"none", "resolving"},
         to.others = {}, to.shown <= 1, to.stage # "persisting" => to.shown = 0,
         messages' = IF to.stage = "done" THEN messages \cup {r} ELSE messages,
         \A q \in Runs : q # r \/ owner[q] # Absent => owner'[q] = owner[q],
         to.stage \in Answering => to.session \in Runs /\ owner'[to.session] = By(r)
  PROVE  Rest'
<1>1. /\ run'[r] = to
      /\ \A q \in Runs : q # r => run'[q] = run[q]
  BY DEF TypeOK, Becomes
<1>2. \A q \in Runs : By(q)' = By(q) BY DEF By
<1>3. Fresh'
  <2>1. \A q \in Runs : run[q].stage = "none" => run'[q].stage = "none"
    BY <1>1 DEF Active
  <2>2. \A t \in Turns : <<t, 1>> \in Runs /\ <<t, 2>> \in Runs BY DEF Runs
  <2> QED BY <2>1, <2>2 DEF Rest, Fresh
<1>4. Begun' BY <1>1 DEF Rest, Begun
<1>5. OwnSession'
  <2> SUFFICES ASSUME NEW q \in Runs, run'[q].stage \in Answering
               PROVE  run'[q].session \in Runs /\ owner'[run'[q].session] = By(q)
    BY <1>2 DEF OwnSession
  <2>1. CASE q = r BY <2>1, <1>1
  <2>2. CASE q # r
    <3>1. run[q].session \in Runs /\ owner[run[q].session] = By(q)
      BY <2>2, <1>1 DEF Rest, OwnSession
    <3> QED BY <3>1, <2>2, <1>1, ByType
  <2> QED BY <2>1, <2>2
<1>6. StoredDone' BY <1>1 DEF Rest, StoredDone, Active
<1>7. OwnData' BY <1>1 DEF Rest, OwnData
<1>8. OneText' BY <1>1 DEF Rest, OneText
<1>9. ShownDone'
  <2>1. \A t \in Turns : Current(t) \in Runs /\ Current(t)' = Current(t)
    BY CurrentType DEF Current
  <2>2. \A q \in Runs : run[q].stage = "done" => run'[q].stage = "done"
    BY <1>1 DEF Active
  <2> QED BY <2>1, <2>2 DEF Rest, ShownDone
<1> QED BY <1>3, <1>4, <1>5, <1>6, <1>7, <1>8, <1>9 DEF Rest


\* A run that ends without an answer.
LEMMA Ended ==
  ASSUME ChatAssumption, TypeOK, Rest, NEW r \in Runs, NEW stage \in {"refused", "cut"},
         UNCHANGED <<screen, gate, owner, messages>>, run[r].stage \in Active,
         Becomes(r, Blank(stage, NoSession))
  PROVE  Rest'
<1>1. Blank(stage, NoSession) \in RunType BY BlankType DEF Stages
<1>2. /\ Blank(stage, NoSession).stage = stage /\ Blank(stage, NoSession).others = {}
      /\ Blank(stage, NoSession).shown = 0
  BY DEF Blank
<1> HIDE DEF Blank
<1> QED BY <1>1, <1>2, RunFrame DEF Answering

LEMMA EndedAs ==
  ASSUME ChatAssumption, TypeOK, Rest, NEW r \in Runs, NEW stage \in {"done", "error"},
         UNCHANGED <<screen, gate, owner>>, run[r].stage \in Active \cap Answering,
         End(r, stage), messages' = IF stage = "done" THEN messages \cup {r} ELSE messages
  PROVE  Rest'
<1> DEFINE s == run[r].session
<1>1. s \in Runs /\ owner[s] = By(r) BY DEF Rest, OwnSession
<1>2. Blank(stage, s) \in RunType BY <1>1, BlankType DEF Stages, Answering
<1>3. /\ Blank(stage, s).stage = stage /\ Blank(stage, s).others = {}
      /\ Blank(stage, s).shown = 0 /\ Blank(stage, s).session = s
  BY DEF Blank
<1>4. Becomes(r, Blank(stage, s)) BY DEF End
<1> HIDE DEF s
<1> QED BY <1>1, <1>2, <1>3, <1>4, RunFrame

LEMMA RestResolve ==
  ASSUME ChatAssumption, TypeOK, Rest, NEW r \in Runs, Resolve(r)
  PROVE  Rest'
<1> DEFINE s == run[r].session
           new == s = NoSession \/ ~SameIdentity(owner[s], By(r))
<1>0. run[r].stage = "resolving" BY DEF Resolve
<1>1. CASE s # NoSession /\ ~Exists(s)
  BY <1>0, <1>1, Ended DEF Resolve, browser, Active
<1>2. CASE ~(s # NoSession /\ ~Exists(s))
  <2> DEFINE to == [run[r] EXCEPT !.stage = "loading", !.session = IF new THEN r ELSE s]
  <2>1. /\ Becomes(r, to)
        /\ owner' = IF new THEN [owner EXCEPT ![r] = By(r)] ELSE owner
        /\ UNCHANGED <<screen, gate, messages>>
    BY <1>2 DEF Resolve, browser
  <2>2. run[r] \in RunType BY DEF TypeOK, RunType
  <2>3. ~new => s \in Runs /\ owner[s] = By(r) BY <1>2 DEF Exists, SameIdentity
  <2>4. to \in RunType BY <2>2, <2>3 DEF RunType, Stages, Answering
  <2>5. to.stage = "loading" /\ to.session = IF new THEN r ELSE s BY <2>2 DEF RunType
  <2>6. to.others = {} /\ to.shown = 0
    BY <1>0, <2>2 DEF RunType, Rest, OwnData, OneText
  <2>7. owner[r] = Absent BY <1>0 DEF Rest, Begun
  <2>8. \A q \in Runs : q # r \/ owner[q] # Absent => owner'[q] = owner[q]
    BY <2>1, <2>7 DEF TypeOK
  <2>9. to.session \in Runs /\ owner'[to.session] = By(r)
    BY <2>1, <2>3, <2>5 DEF TypeOK
  <2> HIDE DEF to
  <2> QED BY <1>0, <2>1, <2>4, <2>5, <2>6, <2>8, <2>9, RunFrame DEF Active
<1> QED BY <1>1, <1>2

LEMMA RestLoad ==
  ASSUME ChatAssumption, TypeOK, Rest, NEW r \in Runs, Load(r)
  PROVE  Rest'
<1>0. run[r].stage = "loading" /\ UNCHANGED <<screen, gate, owner, messages>>
  BY DEF Load, browser
<1>1. CASE Refused(r)
  BY <1>0, <1>1, EndedAs DEF Load, Active, Answering
<1>2. CASE ~Refused(r)
  <2> DEFINE others == {By(m) : m \in Stored(run[r].session)} \ {By(r)}
             to == [run[r] EXCEPT !.stage = "calling", !.others = others]
  <2>1. Becomes(r, to) BY <1>2 DEF Load
  <2>2. run[r].session \in Runs /\ owner[run[r].session] = By(r)
    BY <1>0 DEF Rest, OwnSession, Answering
  <2>3. \A m \in Stored(run[r].session) : By(m) = By(r)
    BY <2>2 DEF Stored, TypeOK, Rest, StoredDone, OwnSession, Answering
  <2>4. others = {} BY <2>3
  <2> HIDE DEF others
  <2>5. run[r] \in RunType BY DEF TypeOK, RunType
  <2>6. to \in RunType BY <2>4, <2>5 DEF RunType, Stages, Active
  <2>7. to.stage = "calling" /\ to.session = run[r].session /\ to.others = {}
    BY <2>4, <2>5 DEF RunType
  <2>8. to.shown = 0 BY <1>0, <2>5 DEF RunType, Rest, OneText
  <2> HIDE DEF to
  <2> QED BY <1>0, <2>1, <2>2, <2>6, <2>7, <2>8, RunFrame DEF Active
<1> QED BY <1>1, <1>2

\* A model call that does not end the turn.
LEMMA RestGoesOn ==
  ASSUME ChatAssumption, TypeOK, Rest, NEW r \in Runs, NEW to \in RunType,
         UNCHANGED <<screen, gate, owner, messages>>, run[r].stage = "calling",
         Becomes(r, to), to.stage \in {"calling", "persisting"}, to.others = {},
         to.session = run[r].session,
         to.shown <= 1, to.stage # "persisting" => to.shown = 0
  PROVE  Rest'
<1>1. run[r].session \in Runs /\ owner[run[r].session] = By(r)
  BY DEF Rest, OwnSession, Answering
<1> QED BY <1>1, RunFrame DEF Active

LEMMA RestCall ==
  ASSUME ChatAssumption, TypeOK, Rest, NEW r \in Runs, Call(r)
  PROVE  Rest'
<1>0. run[r].stage = "calling" /\ UNCHANGED <<screen, gate, owner, messages>>
  BY DEF Call, browser
<1>1. run[r] \in RunType BY DEF TypeOK, RunType
<1>2. run[r].others = {} /\ run[r].shown = 0
  BY <1>0 DEF Rest, OwnData, OneText
<1>3. ASSUME NEW to \in RunType, Becomes(r, to), to.session = run[r].session, to.others = {},
             \/ to.stage = "calling" /\ to.shown = 0
             \/ to.stage = "persisting" /\ to.shown = 1
      PROVE  Rest'
  BY <1>0, <1>3, RestGoesOn
<1>4. ASSUME End(r, "error") PROVE Rest'
  BY <1>0, <1>4, EndedAs DEF Active, Answering
<1>5. ASSUME NEW yielded \in BOOLEAN, FailCall(r, yielded) PROVE Rest'
  <2>1. ASSUME Repeat(r) PROVE Rest'
    <3> DEFINE to == [run[r] EXCEPT !.try = @ + 1]
    <3>1. Becomes(r, to) /\ run[r].try < MaxTries BY <2>1 DEF Repeat
    <3>2. run[r].try + 1 \in 1..MaxTries BY <1>1, <3>1 DEF RunType, ChatAssumption
    <3>3. to \in RunType BY <1>1, <3>2 DEF RunType
    <3>4. /\ to.stage = "calling" /\ to.session = run[r].session
          /\ to.others = {} /\ to.shown = 0
      BY <1>0, <1>1, <1>2 DEF RunType
    <3> HIDE DEF to
    <3> QED BY <1>3, <3>1, <3>3, <3>4
  <2> QED BY <1>4, <1>5, <2>1 DEF FailCall
<1>6. ASSUME UseTools(r) PROVE Rest'
  <2>1. PICK read \in {{}} \cup {{ToolEmail(r, e)} : e \in Identities} :
          /\ run[r].round < MaxRounds
          /\ Becomes(r, [run[r] EXCEPT !.round = @ + 1, !.try = 1, !.shown = 0,
                           !.others = @ \cup (read \ {Anonymous, By(r)})])
    BY <1>6 DEF UseTools
  <2> DEFINE others == run[r].others \cup (read \ {Anonymous, By(r)})
             to == [run[r] EXCEPT !.round = @ + 1, !.try = 1, !.shown = 0, !.others = others]
  <2>2. owner[run[r].session] = By(r) BY <1>0 DEF Rest, OwnSession, Answering
  <2>3. others = {} BY <1>2, <2>1, <2>2 DEF ToolEmail
  <2>4. Becomes(r, to) BY <2>1
  <2> HIDE DEF others
  <2>5. run[r].round + 1 \in 1..MaxRounds /\ 1 \in 1..MaxTries
    BY <1>1, <2>1 DEF RunType, ChatAssumption
  <2>6. to \in RunType BY <1>1, <2>3, <2>5 DEF RunType
  <2>7. /\ to.stage = "calling" /\ to.session = run[r].session
        /\ to.others = {} /\ to.shown = 0
    BY <1>0, <1>1, <2>3 DEF RunType
  <2> HIDE DEF to
  <2> QED BY <1>3, <2>4, <2>6, <2>7
<1>7. ASSUME Answer(r) PROVE Rest'
  <2> DEFINE to == [run[r] EXCEPT !.stage = "persisting", !.round = 1, !.try = 1, !.shown = @ + 1]
  <2>1. Becomes(r, to) BY <1>7 DEF Answer
  <2>2. 1 \in 1..MaxRounds /\ 1 \in 1..MaxTries BY DEF ChatAssumption
  <2>3. "persisting" \in Stages BY DEF Stages, Active
  <2>6. run[r].shown + 1 \in Nat BY <1>2
  <2>4. to \in RunType BY <1>1, <2>2, <2>3, <2>6 DEF RunType
  <2>5. /\ to.stage = "persisting" /\ to.session = run[r].session
        /\ to.others = {} /\ to.shown = 1
    BY <1>1, <1>2 DEF RunType
  <2> HIDE DEF to
  <2> QED BY <1>3, <2>1, <2>4, <2>5
<1> QED BY <1>4, <1>5, <1>6, <1>7 DEF Call


\* A run is started by a message that is sent, or by a repeated attempt.
LEMMA StartFrame ==
  ASSUME ChatAssumption, TypeOK, Rest, NEW r \in Runs,
         NEW s \in Runs \cup {NoSession, Forgotten}, Start(r, s),
         run[r].stage = "none", UNCHANGED <<owner, messages>>
  PROVE  /\ run'[r].stage = "resolving"
         /\ \A q \in Runs : q # r => run'[q] = run[q]
         /\ Begun' /\ StoredDone' /\ OwnData' /\ OneText'
<1>1. run'[r] = Blank("resolving", s) /\ \A q \in Runs : q # r => run'[q] = run[q]
  BY DEF TypeOK, Start, Becomes
<1>2. run'[r].stage = "resolving" /\ run'[r].others = {} /\ run'[r].shown = 0
  BY <1>1 DEF Blank
<1>3. Begun' BY <1>1, <1>2 DEF Rest, Begun
<1>4. StoredDone' BY <1>1, <1>2 DEF Rest, StoredDone
<1>5. OwnData' BY <1>1, <1>2 DEF Rest, OwnData
<1>6. OneText' BY <1>1, <1>2 DEF Rest, OneText
<1> QED BY <1>1, <1>2, <1>3, <1>4, <1>5, <1>6

\* The three parts of Fresh, one by one.
LEMMA FreshParts ==
  ASSUME Fresh
  PROVE  /\ \A t \in Turns : screen[t] = "unsent" <=> gate[t].stage = "unsent"
         /\ \A t \in Turns : gate[t].stage = "unsent" =>
              gate[t].attempt = 1 /\ run[<<t, 1>>].stage = "none"
         /\ \A t \in Turns : gate[t].attempt = 1 => run[<<t, 2>>].stage = "none"
BY DEF Fresh

LEMMA RestSend ==
  ASSUME ChatAssumption, TypeOK, Rest, NEW t \in Turns, Send(t)
  PROVE  Rest'
<1> DEFINE r == <<t, 1>>
<1>1. r \in Runs /\ <<t, 2>> \in Runs BY DEF Runs
<1>2. /\ screen[t] = "unsent" /\ gate[t].stage = "unsent" /\ gate[t].attempt = 1
      /\ run[r].stage = "none" /\ run[<<t, 2>>].stage = "none"
  BY DEF Send, Rest, Fresh
<1>3. Start(r, key) /\ UNCHANGED <<owner, messages>> BY DEF Send
<1>4. key \in Runs \cup {NoSession, Forgotten} BY DEF TypeOK
<1>5. /\ run'[r].stage = "resolving"
      /\ \A q \in Runs : q # r => run'[q] = run[q]
      /\ Begun' /\ StoredDone' /\ OwnData' /\ OneText'
  BY <1>1, <1>2, <1>3, <1>4, StartFrame
<1>6. /\ gate'[t].stage = "asked" /\ gate'[t].attempt = 1 /\ screen'[t] = "typing"
      /\ \A u \in Turns : u # t => gate'[u] = gate[u] /\ screen'[u] = screen[u]
  BY DEF Send, TypeOK
<1>7. Fresh'
  <2>1. \A u \in Turns : u # t => /\ run'[<<u, 1>>] = run[<<u, 1>>]
                                  /\ run'[<<u, 2>>] = run[<<u, 2>>]
    BY <1>5 DEF Runs
  <2>2. run'[<<t, 2>>] = run[<<t, 2>>] BY <1>1, <1>5
  <2>3. \A u \in Turns : screen'[u] = "unsent" <=> gate'[u].stage = "unsent"
    BY <1>2, <1>6, FreshParts DEF Rest
  <2>4. ASSUME NEW u \in Turns, gate'[u].stage = "unsent"
        PROVE  gate'[u].attempt = 1 /\ run'[<<u, 1>>].stage = "none"
    <3>1. u # t /\ gate'[u] = gate[u] BY <1>6, <2>4
    <3> QED BY <2>1, <2>4, <3>1, FreshParts DEF Rest
  <2>5. \A u \in Turns : gate'[u].attempt = 1 => run'[<<u, 2>>].stage = "none"
    BY <1>2, <1>6, <2>1, <2>2, FreshParts DEF Rest
  <2> QED BY <2>3, <2>4, <2>5 DEF Fresh
<1>8. OwnSession'
  <2> SUFFICES ASSUME NEW q \in Runs, run'[q].stage \in Answering
               PROVE  run'[q].session \in Runs /\ owner'[run'[q].session] = By(q)'
    BY DEF OwnSession
  <2>1. q # r BY <1>5 DEF Answering
  <2>2. run'[q] = run[q] BY <1>5, <2>1
  <2>3. q[1] # t BY <1>2, <2>1, <2>2, RunsOf DEF Answering
  <2>4. By(q)' = By(q) BY <1>6, <2>3, RunsOf DEF By
  <2> QED BY <1>3, <2>2, <2>4 DEF Rest, OwnSession
<1>9. ShownDone'
  <2> SUFFICES ASSUME NEW u \in Turns, screen'[u] = "done"
               PROVE  gate'[u].stage = "closed" /\ run'[Current(u)'].stage = "done"
    BY DEF ShownDone
  <2>1. u # t BY <1>6
  <2>2. Current(u)' = Current(u) /\ Current(u) \in Runs /\ Current(u) # r
    BY <1>6, <2>1, CurrentType DEF Current
  <2> QED BY <1>5, <1>6, <2>1, <2>2 DEF Rest, ShownDone
<1> QED BY <1>5, <1>7, <1>8, <1>9 DEF Rest

LEMMA RestRetry ==
  ASSUME ChatAssumption, TypeOK, Rest, NEW t \in Turns,
         gate[t].stage = "asked", gate[t].attempt = 1, Retry(t),
         UNCHANGED <<owner, messages>>
  PROVE  Rest'
<1> DEFINE r == <<t, 2>>
<1>1. r \in Runs /\ gate[t].session \in Runs \cup {NoSession, Forgotten}
  BY DEF Runs, TypeOK
<1>2. run[r].stage = "none" BY DEF Rest, Fresh
<1>3. /\ run'[r].stage = "resolving"
      /\ \A q \in Runs : q # r => run'[q] = run[q]
      /\ Begun' /\ StoredDone' /\ OwnData' /\ OneText'
  BY <1>1, <1>2, StartFrame DEF Retry
<1>4. /\ gate'[t].stage = "asked" /\ gate'[t].attempt = 2 /\ screen' = screen
      /\ \A u \in Turns : gate'[u].by = gate[u].by /\ (u # t => gate'[u] = gate[u])
  BY DEF Retry, TypeOK
<1>5. screen[t] # "unsent" /\ screen[t] # "done" BY DEF Rest, Fresh, ShownDone
<1>6. Fresh'
  <2>1. \A u \in Turns : u # t => /\ run'[<<u, 1>>] = run[<<u, 1>>]
                                  /\ run'[<<u, 2>>] = run[<<u, 2>>]
    BY <1>3 DEF Runs
  <2>2. \A u \in Turns : screen'[u] = "unsent" <=> gate'[u].stage = "unsent"
    BY <1>4, <1>5, FreshParts DEF Rest
  <2>3. ASSUME NEW u \in Turns, gate'[u].stage = "unsent"
        PROVE  gate'[u].attempt = 1 /\ run'[<<u, 1>>].stage = "none"
    <3>1. u # t /\ gate'[u] = gate[u] BY <1>4, <2>3
    <3> QED BY <2>1, <2>3, <3>1, FreshParts DEF Rest
  <2>4. ASSUME NEW u \in Turns, gate'[u].attempt = 1
        PROVE  run'[<<u, 2>>].stage = "none"
    <3>1. u # t /\ gate'[u] = gate[u] BY <1>4, <2>4
    <3> QED BY <2>1, <2>4, <3>1, FreshParts DEF Rest
  <2> QED BY <2>2, <2>3, <2>4 DEF Fresh
<1>7. OwnSession'
  <2>1. \A q \in Runs : By(q)' = By(q) BY <1>4, RunsOf DEF By
  <2> QED BY <1>3, <2>1 DEF Rest, OwnSession, Answering
<1>8. ShownDone'
  <2> SUFFICES ASSUME NEW u \in Turns, screen'[u] = "done"
               PROVE  gate'[u].stage = "closed" /\ run'[Current(u)'].stage = "done"
    BY DEF ShownDone
  <2>1. u # t BY <1>4, <1>5
  <2>2. Current(u)' = Current(u) /\ Current(u) \in Runs /\ Current(u) # r
    BY <1>4, <2>1, CurrentType DEF Current
  <2> QED BY <1>3, <1>4, <2>1, <2>2 DEF Rest, ShownDone
<1> QED BY <1>3, <1>6, <1>7, <1>8 DEF Rest

\* A message is closed.
LEMMA RestClose ==
  ASSUME TypeOK, Rest, NEW t \in Turns, NEW what \in {"done", "error"}, Close(t, what),
         gate[t].stage \in {"asked", "open"}, what = "done" => run[Current(t)].stage = "done",
         UNCHANGED <<owner, messages, run>>
  PROVE  Rest'
<1>1. /\ gate'[t].stage = "closed" /\ gate'[t].by = gate[t].by
      /\ gate'[t].attempt = gate[t].attempt
      /\ \A u \in Turns : u # t => gate'[u] = gate[u] /\ screen'[u] = screen[u]
      /\ screen'[t] = IF screen[t] = "typing" THEN what ELSE screen[t]
  BY DEF Close, Show, TypeOK
<1>2. screen[t] # "unsent" BY DEF Rest, Fresh
<1>3. \A u \in Turns :
        /\ gate'[u].by = gate[u].by /\ gate'[u].attempt = gate[u].attempt
        /\ gate'[u].stage = "unsent" <=> gate[u].stage = "unsent"
        /\ screen'[u] = "unsent" <=> screen[u] = "unsent"
  BY <1>1, <1>2
<1>4. \A u \in Turns : screen'[u] = "done" =>
        gate'[u].stage = "closed" /\ run[Current(u)].stage = "done"
  BY <1>1 DEF Rest, ShownDone
<1> QED BY <1>3, <1>4, GateFrame


LEMMA RestStep ==
  ASSUME ChatAssumption, TypeOK, Rest, Next
  PROVE  Rest'
<1>1. ASSUME Forget \/ \E u \in Identities : SignIn(u) PROVE Rest'
  <2>1. UNCHANGED <<screen, gate, owner, messages, run>> BY <1>1 DEF Forget, SignIn
  <2> QED BY <2>1, GateFrame DEF Rest, Fresh, ShownDone
<1>2. ASSUME NEW t \in Turns, Send(t) PROVE Rest' BY <1>2, RestSend
<1>3. ASSUME NEW t \in Turns, Reset(t) PROVE Rest'
  <2>1. /\ UNCHANGED <<gate, owner, messages, run>> /\ screen[t] = "typing"
        /\ screen'[t] = "error" /\ \A u \in Turns : u # t => screen'[u] = screen[u]
    BY <1>3 DEF Reset, Show, TypeOK
  <2> QED BY <2>1, GateFrame DEF Rest, ShownDone
<1>4. ASSUME NEW t \in Turns, Open(t) PROVE Rest'
  <2>1. /\ UNCHANGED <<screen, owner, messages, run>> /\ gate[t].stage = "asked"
        /\ gate'[t].by = gate[t].by /\ gate'[t].attempt = gate[t].attempt
        /\ gate'[t].stage = "open" /\ \A u \in Turns : u # t => gate'[u] = gate[u]
    BY <1>4 DEF Open, TypeOK
  <2>2. screen[t] # "done" BY <2>1 DEF Rest, ShownDone
  <2> QED BY <2>1, <2>2, GateFrame DEF Rest, ShownDone
<1>5. ASSUME NEW t \in Turns, Refuse(t) PROVE Rest' BY <1>5, RestClose DEF Refuse
<1>6. ASSUME NEW t \in Turns, Deliver(t) PROVE Rest' BY <1>6, RestClose DEF Deliver
<1>7. ASSUME NEW t \in Turns, Lose(t) PROVE Rest'
  <2>1. CASE gate[t].attempt = 1 BY <1>7, <2>1, RestRetry DEF Lose
  <2>2. CASE gate[t].attempt # 1 BY <1>7, <2>2, RestClose DEF Lose
  <2> QED BY <2>1, <2>2
<1>8. ASSUME NEW t \in Turns, Interrupt(t) PROVE Rest' BY <1>8, RestClose DEF Interrupt
<1>9. ASSUME NEW r \in Runs, Work(r) PROVE Rest'
  <2>1. ASSUME Persist(r) PROVE Rest'
    BY <2>1, EndedAs DEF Persist, browser, Active, Answering
  <2>2. ASSUME FailPersist(r) PROVE Rest'
    BY <2>2, EndedAs DEF FailPersist, browser, Active, Answering
  <2> QED BY <1>9, <2>1, <2>2, RestResolve, RestLoad, RestCall DEF Work
<1>10. ASSUME NEW r \in Runs, Cut(r) PROVE Rest'
  BY <1>10, Ended DEF Cut, browser
<1> QED
  BY <1>1, <1>2, <1>3, <1>4, <1>5, <1>6, <1>7, <1>8, <1>9, <1>10 DEF Next, Forward

LEMMA InvInit ==
  ASSUME ChatAssumption, Init
  PROVE  Inv
<1>1. TypeOK BY TypeInit
<1>2. \A r \in Runs : /\ run[r].stage = "none" /\ run[r].others = {} /\ run[r].shown = 0
                      /\ owner[r] = Absent
  BY DEF Init, NoRun, Blank
<1>3. \A t \in Turns : /\ screen[t] = "unsent" /\ gate[t].stage = "unsent"
                       /\ gate[t].attempt = 1 /\ <<t, 1>> \in Runs /\ <<t, 2>> \in Runs
  BY DEF Init, NoGate, Runs
<1>4. messages = {} BY DEF Init
<1>5. Fresh BY <1>2, <1>3 DEF Fresh
<1>6. Begun /\ OwnSession BY <1>2 DEF Begun, OwnSession, Answering
<1>7. StoredDone BY <1>2, <1>4 DEF StoredDone
<1>8. OwnData /\ OneText BY <1>2 DEF OwnData, OneText
<1>9. ShownDone BY <1>3 DEF ShownDone
<1> QED BY <1>1, <1>5, <1>6, <1>7, <1>8, <1>9 DEF Inv

LEMMA InvStep ==
  ASSUME ChatAssumption, Inv, [Next]_vars
  PROVE  Inv'
<1>1. TypeOK /\ Rest /\ OwnSession BY DEF Inv, Rest
<1>2. CASE Next
  <2>1. TypeOK' BY <1>1, <1>2, TypeStep
  <2>2. Rest' BY <1>1, <1>2, RestStep
  <2> QED BY <2>1, <2>2 DEF Inv, Rest
<1>3. CASE UNCHANGED vars
  BY <1>3 DEF Inv, TypeOK, Fresh, Begun, OwnSession, StoredDone, OwnData, OneText,
              ShownDone, By, Current, vars, browser
<1> QED BY <1>2, <1>3

\* The inductive invariant of the assistant.
THEOREM Invariant == Spec => []Inv
<1>1. Init => Inv BY InvInit, ChatAssumption
<1>2. Inv /\ [Next]_vars => Inv' BY InvStep, ChatAssumption
<1> QED BY <1>1, <1>2, PTL DEF Spec

-----------------------------------------------------------------------------
(* The safety invariants that TLC checks. *)

\* The variables keep their types.
THEOREM TypeCorrect == Spec => []TypeOK
<1>1. Inv => TypeOK BY DEF Inv
<1> QED BY <1>1, Invariant, PTL

\* The model is given nothing that belongs to somebody else.
THEOREM OwnDataHolds == Spec => []OwnData
<1>1. Inv => OwnData BY DEF Inv
<1> QED BY <1>1, Invariant, PTL

\* What a tab shows as complete is stored in a session of the visitor.
THEOREM DoneIsStoredHolds == Spec => []DoneIsStored
<1>1. Inv => DoneIsStored
  <2> SUFFICES ASSUME Inv, NEW t \in Turns, screen[t] = "done"
               PROVE  /\ Current(t) \in messages
                      /\ owner[run[Current(t)].session] = gate[t].by
    BY DEF DoneIsStored
  <2>1. Current(t) \in Runs BY CurrentType DEF Inv
  <2>2. run[Current(t)].stage = "done" BY DEF Inv, ShownDone
  <2>3. Current(t)[1] = t BY DEF Current
  <2> QED BY <2>1, <2>2, <2>3 DEF Inv, StoredDone, OwnSession, Answering, By
<1> QED BY <1>1, Invariant, PTL

\* No text of a round is shown twice.
THEOREM ShownOnceHolds == Spec => []ShownOnce
<1>1. Inv => ShownOnce BY DEF Inv, OneText, ShownOnce
<1> QED BY <1>1, Invariant, PTL


-----------------------------------------------------------------------------
(* A full session stays as it is. *)

LEMMA FullFrame ==
  ASSUME Inv, NEW s \in Runs, ~Replying(s), NEW r \in Runs, NEW to, Becomes(r, to),
         r \notin messages, messages' \in {messages, messages \cup {r}},
         to.stage \in {"calling", "persisting"} \/ r \in messages' => to.session # s
  PROVE  ~Replying(s)' /\ Stored(s)' = Stored(s)
<1>1. run'[r] = to /\ \A q \in Runs : q # r => run'[q] = run[q]
  BY DEF Inv, TypeOK, Becomes
<1>2. ~Replying(s)' BY <1>1 DEF Replying
<1>3. \A q \in messages : q \in Runs /\ q # r BY DEF Inv, TypeOK
<1>4. Stored(s)' = Stored(s) BY <1>1, <1>3 DEF Stored
<1> QED BY <1>2, <1>4

LEMMA FullStep ==
  ASSUME ChatAssumption, Inv, Next, NEW s \in Runs, Full(s), ~Replying(s)
  PROVE  ~Replying(s)' /\ Stored(s)' = Stored(s)
<1> DEFINE Goal == ~Replying(s)' /\ Stored(s)' = Stored(s)
<1>1. ASSUME UNCHANGED <<messages, run>> PROVE Goal
  BY <1>1 DEF Stored, Replying
<1>2. ASSUME NEW r \in Runs, NEW stage \in {"resolving", "refused", "error", "cut"}, NEW v,
             Becomes(r, Blank(stage, v)), run[r].stage # "done", messages' = messages
      PROVE  Goal
  <2>1. r \notin messages BY <1>2 DEF Inv, StoredDone
  <2>2. Blank(stage, v).stage = stage BY DEF Blank
  <2> QED BY <1>2, <2>1, <2>2, FullFrame
<1>3. ASSUME NEW t \in Turns, Send(t) PROVE Goal
  <2>1. <<t, 1>> \in Runs BY DEF Runs
  <2>2. run[<<t, 1>>].stage = "none" BY <1>3, FreshParts DEF Send, Inv
  <2> QED BY <1>2, <1>3, <2>1, <2>2 DEF Send, Start
<1>4. ASSUME NEW t \in Turns, Lose(t) PROVE Goal
  <2>1. CASE gate[t].attempt = 1
    <3>1. <<t, 2>> \in Runs BY DEF Runs
    <3>2. run[<<t, 2>>].stage = "none" BY <2>1, FreshParts DEF Inv
    <3> QED BY <1>2, <1>4, <2>1, <3>1, <3>2 DEF Lose, Retry, Start
  <2>2. CASE gate[t].attempt # 1 BY <1>1, <1>4, <2>2 DEF Lose
  <2> QED BY <2>1, <2>2
<1>5. ASSUME NEW r \in Runs, Resolve(r) PROVE Goal
  <2>1. CASE Becomes(r, Blank("refused", NoSession))
    BY <1>2, <1>5, <2>1 DEF Resolve
  <2>2. ASSUME NEW v \in Runs \cup {NoSession, Forgotten},
               Becomes(r, [run[r] EXCEPT !.stage = "loading", !.session = v])
        PROVE  Goal
    <3>1. [run[r] EXCEPT !.stage = "loading", !.session = v].stage = "loading"
      BY DEF Inv, TypeOK
    <3>2. r \notin messages /\ messages' = messages
      BY <1>5 DEF Resolve, Inv, StoredDone
    <3> QED BY <2>2, <3>1, <3>2, FullFrame
  <2>3. run[r].session \in Runs \cup {NoSession, Forgotten} BY DEF Inv, TypeOK
  <2> QED BY <1>5, <2>1, <2>2, <2>3 DEF Resolve
<1>6. ASSUME NEW r \in Runs, Load(r) PROVE Goal
  <2>0. r \notin messages /\ messages' = messages /\ run[r].stage = "loading"
    BY <1>6 DEF Load, Inv, StoredDone
  <2>1. CASE Refused(r) BY <1>2, <1>6, <2>0, <2>1 DEF Load, End
  <2>2. CASE ~Refused(r)
    <3>1. run[r].session # s BY <2>2 DEF Refused
    <3>2. PICK others : Becomes(r, [run[r] EXCEPT !.stage = "calling", !.others = others])
      BY <1>6, <2>2 DEF Load
    <3>3. [run[r] EXCEPT !.stage = "calling", !.others = others].session = run[r].session
      BY DEF Inv, TypeOK
    <3> QED BY <2>0, <3>1, <3>2, <3>3, FullFrame
  <2> QED BY <2>1, <2>2
<1>7. ASSUME NEW r \in Runs, Call(r) PROVE Goal
  <2>0. /\ r \notin messages /\ messages' = messages
        /\ run[r].stage = "calling" /\ run[r].session # s
    BY <1>7 DEF Call, Inv, StoredDone, Replying
  <2>1. ASSUME NEW to, Becomes(r, to), to.session = run[r].session PROVE Goal
    BY <2>0, <2>1, FullFrame
  <2>2. ASSUME End(r, "error") PROVE Goal BY <1>2, <2>0, <2>2 DEF End
  <2>3. run[r] \in RunType BY DEF Inv, TypeOK, RunType
  <2>4. ASSUME Repeat(r) PROVE Goal
    <3>1. [run[r] EXCEPT !.try = @ + 1].session = run[r].session BY <2>3 DEF RunType
    <3> QED BY <2>1, <2>4, <3>1 DEF Repeat
  <2>5. ASSUME UseTools(r) PROVE Goal
    <3>1. PICK read : Becomes(r, [run[r] EXCEPT !.round = @ + 1, !.try = 1, !.shown = 0,
                                     !.others = @ \cup (read \ {Anonymous, By(r)})])
      BY <2>5 DEF UseTools
    <3>2. [run[r] EXCEPT !.round = @ + 1, !.try = 1, !.shown = 0,
             !.others = @ \cup (read \ {Anonymous, By(r)})].session = run[r].session
      BY <2>3 DEF RunType
    <3> QED BY <2>1, <3>1, <3>2
  <2>6. ASSUME Answer(r) PROVE Goal
    <3>1. [run[r] EXCEPT !.stage = "persisting", !.round = 1, !.try = 1,
             !.shown = @ + 1].session = run[r].session
      BY <2>3 DEF RunType
    <3> QED BY <2>1, <2>6, <3>1 DEF Answer
  <2>7. ASSUME NEW yielded \in BOOLEAN, FailCall(r, yielded) PROVE Goal
    BY <2>2, <2>4, <2>7 DEF FailCall
  <2> QED BY <1>7, <2>2, <2>5, <2>6, <2>7 DEF Call
<1>8. ASSUME NEW r \in Runs, Persist(r) PROVE Goal
  <2>1. r \notin messages /\ run[r].stage = "persisting" /\ run[r].session # s
    BY <1>8 DEF Persist, Inv, StoredDone, Replying
  <2>2. Becomes(r, Blank("done", run[r].session)) /\ messages' = messages \cup {r}
    BY <1>8 DEF Persist, End
  <2>3. Blank("done", run[r].session).session = run[r].session BY DEF Blank
  <2> QED BY <2>1, <2>2, <2>3, FullFrame
<1>9. ASSUME NEW r \in Runs, FailPersist(r) PROVE Goal
  BY <1>2, <1>9 DEF FailPersist, End
<1>10. ASSUME NEW r \in Runs, Cut(r) PROVE Goal
  BY <1>2, <1>10 DEF Cut, Active
<1>11. ASSUME Forget \/ \E u \in Identities : SignIn(u) PROVE Goal
  BY <1>1, <1>11 DEF Forget, SignIn
<1>12. ASSUME NEW t \in Turns, Reset(t) \/ Forward(t) \/ Interrupt(t) PROVE Goal
  BY <1>1, <1>12 DEF Reset, Forward, Open, Refuse, Deliver, Interrupt
<1> QED
  BY <1>3, <1>4, <1>5, <1>6, <1>7, <1>8, <1>9, <1>10, <1>11, <1>12 DEF Next, Work

\* Once the turns of a full session have ended, it stays as it is.
THEOREM FullStaysFullHolds == Spec => FullStaysFull
<1> DEFINE Stays == \A s \in Runs : Full(s) /\ ~Replying(s) =>
                                      ~Replying(s)' /\ Stored(s)' = Stored(s)
<1>1. Inv /\ [Next]_vars => [Stays]_vars BY FullStep, ChatAssumption
<1> QED BY <1>1, Invariant, PTL DEF Spec, FullStaysFull


-----------------------------------------------------------------------------
(* Chat implements Conversation. *)

View == [t \in Turns |-> Outcome[screen[t]]]

LEMMA OutcomeOf ==
  /\ Outcome["unsent"] = "unsent" /\ Outcome["typing"] = "waiting"
  /\ Outcome["done"] = "answered" /\ Outcome["error"] = "failed"
BY DEF Outcome

\* A message whose run is stored has been sent.
LEMMA RunMeansSent ==
  ASSUME Inv, NEW r \in Runs, run[r].stage # "none"
  PROVE  screen[r[1]] # "unsent"
<1>1. r[1] \in Turns /\ (r = <<r[1], 1>> \/ r = <<r[1], 2>>) BY RunsOf
<1> QED BY <1>1, FreshParts DEF Inv

LEMMA ViewOfChange ==
  ASSUME TypeOK, NEW t \in Turns, NEW x, screen' = [screen EXCEPT ![t] = x]
  PROVE  View' = [View EXCEPT ![t] = Outcome[x]]
BY DEF TypeOK, View

LEMMA KeepsInit ==
  ASSUME Init
  PROVE  Promise!Init
BY OutcomeOf DEF Init, Promise!Init, Kept

\* Closing a message.
LEMMA KeepsClose ==
  ASSUME Inv, NEW t \in Turns, NEW what \in {"done", "error"}, Show(t, what),
         what = "done" => t \in Kept, UNCHANGED messages
  PROVE  [Promise!Next]_(Promise!vars)
<1>0. Kept' = Kept BY DEF Kept
<1>1. CASE screen[t] = "typing"
  <2>1. screen' = [screen EXCEPT ![t] = what] BY <1>1 DEF Show
  <2>2. View' = [View EXCEPT ![t] = Outcome[what]] /\ View[t] = "waiting"
    BY <1>1, <2>1, ViewOfChange, OutcomeOf DEF Inv, View
  <2>3. Promise!Answer(t) \/ Promise!Fail(t)
    BY <1>0, <2>2, OutcomeOf DEF View, Promise!Answer, Promise!Fail
  <2> QED BY <2>3 DEF Promise!Next
<1>2. CASE screen[t] # "typing"
  <2>1. screen' = screen BY <1>2 DEF Show, Inv, TypeOK
  <2> QED BY <1>0, <2>1 DEF Promise!vars
<1> QED BY <1>1, <1>2

LEMMA KeepsStep ==
  ASSUME ChatAssumption, Inv, [Next]_vars
  PROVE  [Promise!Next]_(Promise!vars)
<1>1. ASSUME UNCHANGED <<screen, messages>> PROVE [Promise!Next]_(Promise!vars)
  BY <1>1 DEF Promise!vars, Kept
<1>2. ASSUME NEW t \in Turns, Send(t) PROVE [Promise!Next]_(Promise!vars)
  <2>0. screen[t] = "unsent" /\ screen' = [screen EXCEPT ![t] = "typing"] BY <1>2 DEF Send
  <2>1. View' = [View EXCEPT ![t] = Outcome["typing"]] BY <2>0, ViewOfChange DEF Inv
  <2>3. View[t] = "unsent" BY <2>0, OutcomeOf DEF View
  <2>2. Promise!Ask(t) BY <1>2, <2>1, <2>3, OutcomeOf DEF Send, View, Kept, Promise!Ask
  <2> QED BY <2>2 DEF Promise!Next
<1>3. ASSUME NEW t \in Turns, Reset(t) PROVE [Promise!Next]_(Promise!vars)
  BY <1>3, KeepsClose DEF Reset
<1>4. ASSUME NEW t \in Turns, Refuse(t) \/ Interrupt(t) PROVE [Promise!Next]_(Promise!vars)
  BY <1>4, KeepsClose DEF Refuse, Interrupt, Close
<1>5. ASSUME NEW t \in Turns, Deliver(t) PROVE [Promise!Next]_(Promise!vars)
  <2>1. run[Current(t)].stage = "done" => t \in Kept
    <3>1. Current(t) \in Runs BY CurrentType DEF Inv
    <3>2. Current(t) = <<t, gate[t].attempt>> /\ gate[t].attempt \in {1, 2}
      BY DEF Current, Inv, TypeOK
    <3> QED BY <3>1, <3>2 DEF Inv, StoredDone, Kept
  <2> QED BY <1>5, <2>1, KeepsClose DEF Deliver, Close
<1>6. ASSUME NEW t \in Turns, Lose(t) PROVE [Promise!Next]_(Promise!vars)
  <2>1. CASE gate[t].attempt = 1 BY <1>1, <1>6, <2>1 DEF Lose, Retry
  <2>2. CASE gate[t].attempt # 1 BY <1>6, <2>2, KeepsClose DEF Lose, Close
  <2> QED BY <2>1, <2>2
<1>7. ASSUME NEW r \in Runs, Persist(r) PROVE [Promise!Next]_(Promise!vars)
  <2>1. r[1] \in Turns /\ r = <<r[1], r[2]>> /\ r[2] \in {1, 2} BY RunsOf
  <2>2. screen[r[1]] # "unsent" BY <1>7, RunMeansSent DEF Persist
  <2>3. screen[r[1]] \in {"typing", "done", "error"} BY <2>1, <2>2 DEF Inv, TypeOK
  <2>4. View[r[1]] # "unsent" BY <2>1, <2>3, OutcomeOf DEF View
  <2>5. Kept' = Kept \cup {r[1]} BY <1>7, <2>1 DEF Persist, Kept
  <2>6. View' = View BY <1>7 DEF Persist, browser, View
  <2>7. Promise!Keep(r[1]) BY <2>4, <2>5, <2>6 DEF View, Promise!Keep
  <2> QED BY <2>1, <2>7 DEF Promise!Next
<1>8. ASSUME NEW r \in Runs, Resolve(r) \/ Load(r) \/ Call(r) \/ FailPersist(r) \/ Cut(r)
      PROVE  [Promise!Next]_(Promise!vars)
  BY <1>1, <1>8 DEF Resolve, Load, Call, FailPersist, Cut, browser
<1>9. ASSUME Forget \/ \E u \in Identities : SignIn(u) PROVE [Promise!Next]_(Promise!vars)
  BY <1>1, <1>9 DEF Forget, SignIn
<1>10. ASSUME NEW t \in Turns, Open(t) PROVE [Promise!Next]_(Promise!vars)
  BY <1>1, <1>10 DEF Open
<1>11. CASE UNCHANGED vars BY <1>1, <1>11 DEF vars, browser
<1> QED
  BY <1>2, <1>3, <1>4, <1>5, <1>6, <1>7, <1>8, <1>9, <1>10, <1>11 DEF Next, Forward, Work

\* Every behaviour of the assistant is one that Conversation promises.
THEOREM KeepsHolds == Spec => Keeps
<1>1. Init => Promise!Init BY KeepsInit
<1>2. Inv /\ [Next]_vars => [Promise!Next]_(Promise!vars) BY KeepsStep, ChatAssumption
<1> QED BY <1>1, <1>2, Invariant, PTL DEF Spec, Keeps, Promise!Spec
=============================================================================
