---------------------------- MODULE SendMsgProofs ----------------------------
(***************************************************************************)
(* For any number of workers and lines: whoever is not disturbed between   *)
(* the two calls of strtok gets the rest of its own line, and nothing but  *)
(* an incomplete line or that race ends the process.                       *)
(***************************************************************************)
EXTENDS SendMsg, TLAPS

(* A line without a word has no rest. *)
Blanks == \A i \in Lines : line[i].kind = "blank" => ~line[i].rest

(* Who works on a line has it alone, and its buffer is there. *)
Owners ==
  /\ \A t \in Threads : at[t] # "idle" => job[t] \in Lines
  /\ \A t \in Threads : job[t] \in Lines => job[t] \notin gone \cup jobs /\ job[t] <= typed
  /\ \A t, u \in Threads : job[t] \in Lines /\ job[t] = job[u] => t = u

Buffers ==
  /\ jobs \cap gone = {}
  /\ \A i \in jobs \cup gone : i <= typed

RestOf(t) == [line |-> job[t], rest |-> line[job[t]].rest]

(* Between the calls the position is where the first one left it, unless    *)
(* somebody else has stored one since.                                      *)
Position ==
  \A t \in Threads :
    /\ at[t] = "next" => saved = RestOf(t) \/ disturbed[t]
    /\ at[t] = "found" => cursor[t] = RestOf(t) \/ disturbed[t]

IInv ==
  /\ TypeOK /\ Blanks /\ Owners /\ Buffers /\ Position
  /\ OwnRestUnlessDisturbed /\ CrashExplained

-----------------------------------------------------------------------------
LEMMA InitHolds == Init => IInv
<1> SUFFICES ASSUME Init PROVE IInv
  OBVIOUS
<1>1. TypeOK
  BY SendMsgAssumption DEF Init, TypeOK, Positions, Behind, Lines, None, Garbage
<1>2. Blanks /\ Owners /\ Buffers
  BY DEF Init, Blanks, Owners, Buffers, None, Lines
<1>3. Position /\ OwnRestUnlessDisturbed /\ CrashExplained
  BY DEF Init, Position, OwnRestUnlessDisturbed, CrashExplained
<1> QED
  BY <1>1, <1>2, <1>3 DEF IInv

(* The first call stores the rest of its own line and disturbs the others.  *)
LEMMA FirstCallKeeps ==
  ASSUME IInv, Running, NEW x \in Threads, FirstCall(x)
  PROVE  IInv'
<1>1. at[x] = "first" /\ job[x] \in Lines /\ job' = job /\ line' = line
  BY DEF IInv, Owners, FirstCall, lineVars
<1>2. saved' = RestOf(x) /\ RestOf(x) \in Positions
  BY <1>1 DEF IInv, TypeOK, FirstCall, First, RestOf, Positions
<1>3. \/ line[job[x]].kind = "blank" /\ crashed' = x /\ at' = at
      \/ crashed' = crashed /\ at' \in {[at EXCEPT ![x] = "idle"], [at EXCEPT ![x] = "next"]}
  BY DEF FirstCall, Goto
<1>4. \A t \in Threads \ {x} : at'[t] = at[t]
  BY <1>3 DEF IInv, TypeOK
<1>5. disturbed' \in [Threads -> BOOLEAN]
      /\ \A t \in Threads \ {x} : disturbed'[t] <=> disturbed[t] \/ at[t] = "next"
  BY DEF IInv, TypeOK, FirstCall, Disturb
<1>6. TypeOK'
  BY <1>1, <1>2, <1>3, <1>5 DEF IInv, TypeOK, FirstCall, lineVars
<1>7. Blanks' /\ Buffers'
  BY <1>1 DEF IInv, Blanks, Buffers, FirstCall, lineVars
<1>8. Owners'
  BY <1>1, <1>4 DEF IInv, Owners, FirstCall, lineVars
<1>9. Position'
  BY <1>1, <1>2, <1>3, <1>4, <1>5 DEF IInv, TypeOK, Position, RestOf, FirstCall
<1>10. OwnRestUnlessDisturbed'
  BY <1>1, <1>3, <1>4, <1>5 DEF IInv, TypeOK, OwnRestUnlessDisturbed, FirstCall
<1>11. CrashExplained'
  BY <1>1, <1>3 DEF IInv, CrashExplained, Blanks, Running
<1> QED
  BY <1>6, <1>7, <1>8, <1>9, <1>10, <1>11 DEF IInv

LEMMA ReadPositionKeeps ==
  ASSUME IInv, Running, NEW x \in Threads, ReadPosition(x)
  PROVE  IInv'
<1>1. at[x] = "next" /\ at' = [at EXCEPT ![x] = "found"] /\ cursor' = [cursor EXCEPT ![x] = saved]
  BY DEF ReadPosition, Goto
<1>2. TypeOK'
  BY <1>1 DEF IInv, TypeOK, ReadPosition, lineVars
<1>3. Blanks' /\ Buffers' /\ Owners'
  BY <1>1 DEF IInv, TypeOK, Blanks, Buffers, Owners, ReadPosition, lineVars
<1>4. Position'
  BY <1>1 DEF IInv, TypeOK, Position, RestOf, ReadPosition, lineVars
<1>5. OwnRestUnlessDisturbed' /\ CrashExplained'
  BY <1>1 DEF IInv, TypeOK, OwnRestUnlessDisturbed, CrashExplained, ReadPosition, lineVars
<1> QED
  BY <1>2, <1>3, <1>4, <1>5 DEF IInv

(* The second call returns the rest of the own line, if undisturbed: its    *)
(* buffer is still there.                                                   *)
LEMMA StorePositionKeeps ==
  ASSUME IInv, Running, NEW x \in Threads, StorePosition(x)
  PROVE  IInv'
<1>1. at[x] = "found" /\ job[x] \in Lines /\ job' = job /\ line' = line /\ gone' = gone /\ jobs' = jobs
  BY DEF IInv, Owners, StorePosition, lineVars
<1>2. PICK r \in Readable(cursor[x]) :
        /\ token' = [token EXCEPT ![x] = r]
        /\ IF r = None THEN crashed' = x /\ at' = at
           ELSE at' = [at EXCEPT ![x] = IF x = Cmd THEN "ask" ELSE "lock"] /\ crashed' = crashed
  BY DEF StorePosition, Goto
<1>3. r \in Lines \cup {None, Garbage}
  BY DEF Readable, IInv, TypeOK, Positions
<1>4. disturbed' \in [Threads -> BOOLEAN] /\ disturbed'[x] = disturbed[x]
      /\ \A t \in Threads \ {x} : disturbed'[t] <=> disturbed[t] \/ at[t] = "next"
  BY DEF IInv, TypeOK, StorePosition
<1>5. ~disturbed[x] => r = IF line[job[x]].rest THEN job[x] ELSE None
  <2> SUFFICES ASSUME ~disturbed[x] PROVE r = IF line[job[x]].rest THEN job[x] ELSE None
    OBVIOUS
  <2>1. cursor[x] = RestOf(x)
    BY <1>1 DEF IInv, Position
  <2>2. cursor[x].line = job[x] /\ cursor[x].rest = line[job[x]].rest
    BY <2>1 DEF RestOf
  <2>3. job[x] \notin gone
    BY <1>1 DEF IInv, Owners
  <2>4. r \in IF line[job[x]].rest THEN {job[x]} ELSE {None}
    BY <2>2, <2>3 DEF Readable
  <2> QED
    BY <2>4
<1>6. job[x] # None
  BY <1>1, SendMsgAssumption DEF Lines, None
<1>7. \A t \in Threads \ {x} : at'[t] = at[t]
  BY <1>2 DEF IInv, TypeOK
<1>8. TypeOK'
  <2>1. saved' \in Positions
    BY DEF IInv, TypeOK, StorePosition, Behind, Positions
  <2>2. token' \in [Threads -> Lines \cup {None, Garbage}]
    BY <1>2, <1>3 DEF IInv, TypeOK
  <2>3. at' \in [Threads -> {"idle", "first", "next", "found", "ask", "lock", "inside", "free"}]
    BY <1>2 DEF IInv, TypeOK
  <2>4. crashed' \in Threads \cup {Nobody}
    BY <1>2 DEF IInv, TypeOK
  <2> QED
    BY <1>1, <1>4, <2>1, <2>2, <2>3, <2>4 DEF IInv, TypeOK, StorePosition, lineVars
<1>9. Blanks' /\ Buffers' /\ Owners'
  BY <1>1, <1>7 DEF IInv, Blanks, Buffers, Owners, StorePosition, lineVars
<1>10. at'[x] \in {"found", "ask", "lock"} /\ (at'[x] = "found" => crashed' = x /\ r = None)
  BY <1>1, <1>2 DEF IInv, TypeOK
<1>11. Position'
  BY <1>1, <1>4, <1>7, <1>10 DEF IInv, TypeOK, Position, RestOf, StorePosition
<1>12. OwnRestUnlessDisturbed'
  <2>1. token'[x] = job'[x] \/ disturbed'[x] \/ at'[x] = "found"
    BY <1>1, <1>2, <1>4, <1>5, <1>6 DEF IInv, TypeOK
  <2> QED
    BY <1>1, <1>2, <1>4, <1>7, <2>1 DEF IInv, TypeOK, OwnRestUnlessDisturbed
<1>13. CrashExplained'
  BY <1>1, <1>2, <1>4, <1>5, <1>6 DEF IInv, CrashExplained, Running
<1> QED
  BY <1>8, <1>9, <1>11, <1>12, <1>13 DEF IInv

(* Lines come and go. *)
LEMMA LinesKeep ==
  ASSUME IInv, Running, ClearLine \/ ReadLine
  PROVE  IInv'
<1>1. Cmd \in Threads
  BY DEF Threads
<1>2. CASE ClearLine
  <2>1. job[Cmd] \in Lines /\ at[Cmd] = "idle" /\ typed \in Nat
    BY <1>1, <1>2, SendMsgAssumption DEF IInv, TypeOK, ClearLine
  <2>2. TypeOK'
    BY <1>1, <1>2, <2>1 DEF IInv, TypeOK, ClearLine, lineVars, tokenVars, None
  <2>3. Blanks' /\ Owners'
    BY <1>1, <1>2, <2>1 DEF IInv, TypeOK, Blanks, Owners, ClearLine, lineVars, None, Lines
  <2>4. Buffers'
    BY <1>1, <1>2, <2>1 DEF IInv, Owners, Buffers, ClearLine, lineVars
  <2>5. Position' /\ OwnRestUnlessDisturbed' /\ CrashExplained'
    BY <1>1, <1>2, <2>1 DEF IInv, TypeOK, Position, RestOf, OwnRestUnlessDisturbed, CrashExplained,
       Running, ClearLine, lineVars, tokenVars
  <2> QED
    BY <2>2, <2>3, <2>4, <2>5 DEF IInv
<1>3. CASE ReadLine
  <2>1. /\ typed \in Nat /\ typed' = typed + 1 /\ typed' \in Lines /\ typed' \in 0..MaxLines
        /\ at[Cmd] = "idle" /\ job[Cmd] = None /\ line' = line /\ gone' = gone
    BY <1>3, SendMsgAssumption DEF IInv, TypeOK, ReadLine, Lines
  <2>2. \A t \in Threads : job[t] # typed' /\ (job[t] \in Lines => job[t] <= typed')
    BY <2>1 DEF IInv, Owners, Lines
  <2>3. typed' \notin jobs \cup gone /\ \A i \in jobs \cup gone : i <= typed'
    BY <2>1 DEF IInv, TypeOK, Buffers, Lines
  <2>4. \/ jobs' = jobs \cup {typed'} /\ at' = at /\ job' = job
        \/ jobs' = jobs /\ at' = [at EXCEPT ![Cmd] = "first"] /\ job' = [job EXCEPT ![Cmd] = typed']
    BY <1>3 DEF ReadLine, Goto
  <2>5. TypeOK'
    BY <1>1, <1>3, <2>1, <2>4 DEF IInv, TypeOK, ReadLine, tokenVars
  <2>6. Blanks' /\ Buffers'
    <3>1. jobs' \in {jobs, jobs \cup {typed'}}
      BY <2>4
    <3>2. jobs' \cap gone = {}
      BY <2>3, <3>1 DEF IInv, Buffers
    <3>3. \A i \in jobs' \cup gone : i <= typed'
      BY <2>1, <2>3, <3>1
    <3> QED
      BY <2>1, <3>2, <3>3 DEF IInv, Blanks, Buffers
  <2>7. Owners'
    BY <1>1, <2>1, <2>2, <2>3, <2>4 DEF IInv, TypeOK, Owners
  <2>8. Position' /\ OwnRestUnlessDisturbed' /\ CrashExplained'
    BY <1>1, <1>3, <2>1, <2>4 DEF IInv, TypeOK, Position, RestOf, OwnRestUnlessDisturbed, CrashExplained,
       Running, ReadLine, tokenVars
  <2> QED
    BY <2>5, <2>6, <2>7, <2>8 DEF IInv
<1> QED
  BY <1>2, <1>3

(* A worker takes a message over, or frees it. *)
LEMMA JobsKeep ==
  ASSUME IInv, Running, NEW x \in Workers, TakeJob(x) \/ FreeJob(x)
  PROVE  IInv'
<1>1. x \in Threads
  BY DEF Threads
<1>2. CASE TakeJob(x)
  <2>1. PICK i \in jobs : jobs' = jobs \ {i} /\ job' = [job EXCEPT ![x] = i]
    BY <1>2 DEF TakeJob
  <2>2. i \in Lines /\ i \notin gone /\ i <= typed /\ \A t \in Threads : job[t] # i
    BY <2>1 DEF IInv, TypeOK, Owners, Buffers
  <2>3. at[x] = "idle" /\ at' = [at EXCEPT ![x] = "first"]
    BY <1>2 DEF TakeJob, Goto
  <2>4. TypeOK' /\ Blanks' /\ Buffers'
    BY <1>1, <1>2, <2>1, <2>2, <2>3 DEF IInv, TypeOK, Blanks, Buffers, TakeJob, tokenVars
  <2>5. Owners'
    BY <1>1, <1>2, <2>1, <2>2, <2>3 DEF IInv, TypeOK, Owners, TakeJob
  <2>6. Position' /\ OwnRestUnlessDisturbed' /\ CrashExplained'
    BY <1>1, <1>2, <2>1, <2>3 DEF IInv, TypeOK, Position, RestOf, OwnRestUnlessDisturbed, CrashExplained,
       Running, TakeJob, tokenVars
  <2> QED
    BY <2>4, <2>5, <2>6 DEF IInv
<1>3. CASE FreeJob(x)
  <2>1. at[x] = "free" /\ job[x] \in Lines /\ job[x] \notin jobs /\ job[x] <= typed
    BY <1>1, <1>3 DEF IInv, Owners, FreeJob
  <2>2. at' = [at EXCEPT ![x] = "idle"] /\ job' = [job EXCEPT ![x] = None] /\ gone' = gone \cup {job[x]}
    BY <1>3 DEF FreeJob, Freed, Goto
  <2>3. None \notin Lines
    BY DEF None, Lines
  <2>4. TypeOK'
    BY <1>1, <1>3, <2>1, <2>2 DEF IInv, TypeOK, FreeJob, lineVars, Behind, Positions
  <2>5. Blanks' /\ Buffers'
    BY <1>3, <2>1, <2>2 DEF IInv, Blanks, Buffers, FreeJob, lineVars
  <2>6. Owners'
    BY <1>1, <1>3, <2>1, <2>2, <2>3 DEF IInv, TypeOK, Owners, FreeJob, lineVars
  <2>7. Position' /\ OwnRestUnlessDisturbed' /\ CrashExplained'
    BY <1>1, <1>3, <2>1, <2>2 DEF IInv, TypeOK, Position, RestOf, OwnRestUnlessDisturbed, CrashExplained,
       Running, FreeJob, lineVars
  <2> QED
    BY <2>4, <2>5, <2>6, <2>7 DEF IInv
<1> QED
  BY <1>2, <1>3

(* The other steps only go on. *)
LEMMA OthersKeep ==
  ASSUME IInv, Running, NEW x \in Threads,
         (x = Cmd /\ AskFor) \/ (x \in Workers /\ (Lock(x) \/ GiveUp(x) \/ Transmit(x)))
  PROVE  IInv'
<1>1. /\ at[x] \in {"ask", "lock", "inside"} /\ (at[x] = "ask" <=> AskFor /\ x = Cmd)
      /\ at' \in {[at EXCEPT ![x] = "idle"], [at EXCEPT ![x] = "inside"], [at EXCEPT ![x] = "free"]}
      /\ UNCHANGED <<lineVars, gone, job, tokenVars, crashed>>
  BY SendMsgAssumption DEF AskFor, Lock, GiveUp, Transmit, Unlocked, Goto
<1>2. mutex' \in Workers \cup {Nobody} /\ (at'[x] = "inside" => at[x] = "lock")
  BY DEF IInv, TypeOK, AskFor, Lock, GiveUp, Transmit, Unlocked, Goto
<1>3. TypeOK' /\ Blanks' /\ Buffers' /\ Owners'
  BY <1>1, <1>2 DEF IInv, TypeOK, Blanks, Buffers, Owners, lineVars, tokenVars
<1>4. Position'
  BY <1>1 DEF IInv, TypeOK, Position, RestOf, lineVars, tokenVars
<1>5. OwnRestUnlessDisturbed' /\ CrashExplained'
  BY <1>1, <1>2 DEF IInv, TypeOK, OwnRestUnlessDisturbed, CrashExplained, Running, lineVars, tokenVars
<1> QED
  BY <1>3, <1>4, <1>5 DEF IInv

LEMMA InvHolds == Spec => []IInv
<1>1. IInv /\ [Next]_vars => IInv'
  <2> SUFFICES ASSUME IInv, [Next]_vars PROVE IInv'
    OBVIOUS
  <2>1. CASE UNCHANGED vars
    <3>1. TypeOK' /\ Blanks' /\ Buffers' /\ Owners'
      BY <2>1 DEF IInv, TypeOK, Blanks, Buffers, Owners, vars, lineVars, tokenVars
    <3>2. Position' /\ OwnRestUnlessDisturbed' /\ CrashExplained'
      BY <2>1 DEF IInv, Position, RestOf, OwnRestUnlessDisturbed, CrashExplained, vars, lineVars, tokenVars
    <3> QED
      BY <3>1, <3>2 DEF IInv
  <2>2. CASE Next
    <3>1. Running /\ Cmd \in Threads /\ \A t \in Workers : t \in Threads
      BY <2>2 DEF Next, Threads
    <3>2. CASE ClearLine \/ ReadLine
      BY <3>1, <3>2, LinesKeep
    <3>3. CASE AskFor
      BY <3>1, <3>3, OthersKeep
    <3>4. ASSUME NEW t \in Threads, Tokenize(t) PROVE IInv'
      BY <3>1, <3>4, FirstCallKeeps, ReadPositionKeeps, StorePositionKeeps DEF Tokenize
    <3>5. ASSUME NEW t \in Workers, TakeJob(t) \/ FreeJob(t) PROVE IInv'
      BY <3>1, <3>5, JobsKeep
    <3>6. ASSUME NEW t \in Workers, Lock(t) \/ GiveUp(t) \/ Transmit(t) PROVE IInv'
      BY <3>1, <3>6, OthersKeep
    <3> QED
      BY <2>2, <3>1, <3>2, <3>3, <3>4, <3>5, <3>6 DEF Next, SendStep
  <2> QED
    BY <2>1, <2>2
<1> QED
  BY <1>1, InitHolds, PTL DEF Spec

(* Every variable has its type, for any number of workers and lines.        *)
THEOREM SendMsgTyped == Spec => []TypeOK
<1>1. IInv => TypeOK
  BY DEF IInv
<1> QED
  BY <1>1, InvHolds, PTL

(* strtok gives a thread the rest of its own line unless another thread has *)
(* called it in between (task.c:270-274, chat.c:48-69).                     *)
THEOREM RestIsOwn == Spec => []OwnRestUnlessDisturbed
<1>1. IInv => OwnRestUnlessDisturbed
  BY DEF IInv
<1> QED
  BY <1>1, InvHolds, PTL

(* Nothing but an incomplete line or that race makes the process follow a   *)
(* null pointer (chat.c:66-70, task.c:270-274).                             *)
THEOREM CrashHasReason == Spec => []CrashExplained
<1>1. IInv => CrashExplained
  BY DEF IInv
<1> QED
  BY <1>1, InvHolds, PTL
==============================================================================
