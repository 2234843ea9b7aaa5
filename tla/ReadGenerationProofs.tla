------------------------ MODULE ReadGenerationProofs ------------------------
(***************************************************************************)
(* The safety properties of ReadGeneration, for any strategies, any number *)
(* of clients and requests.                                                *)
(*                                                                         *)
(* The argument: run's program counter says which of its shapes the row    *)
(* has (RowInv), and a settled one is its last, so what a handler has      *)
(* loaded, and what a client knows, is either the row as it still is or    *)
(* the row before it was settled.                                          *)
(***************************************************************************)
EXTENDS ReadGeneration, TLAPS

StreamingRow == [status |-> "streaming", variations |-> Null]

CompletedRow == [status |-> "completed", variations |-> Column(Strategies)]

FailedRow == [status |-> "failed", variations |-> Null]

RowInv ==
    /\ row \in {NoRow, StreamingRow, CompletedRow, FailedRow}
    /\ run = "execute" => row = NoRow
    /\ run \in {"started", "working"} => row = StreamingRow
    /\ run = "report" =>
          row # NoRow /\ (report # "none" => row.status = report)
    /\ told # "none" => row # NoRow
    /\ told \in {"completed", "failed"} =>
          run = "returned" /\ row.status = told

\* What a query returned: the row as it is, or as it was before it settled.
LoadedInv(c) ==
    stage[c] = "found" =>
        /\ loaded[c] \in {row, StreamingRow}
        /\ row # NoRow
        /\ Proper(c)
        /\ knows[c] \in {"completed", "failed"} => loaded[c].status = knows[c]

KnowsInv(c) ==
    /\ knows[c] # "none" => row # NoRow
    /\ knows[c] \in {"completed", "failed"} => row.status = knows[c]

\* An answer, while its client has not asked again.
AnswerInv(c) ==
    /\ stage[c] # "idle" => answer[c] = NoAnswer
    /\ answer[c].code = 200 =>
          /\ Proper(c)
          /\ row # NoRow
          /\ request[c].kind = "get" =>
                /\ answer[c].body.status \in {row.status, "streaming"}
                /\ answer[c].body.variations =
                      IF answer[c].body.status = "completed" THEN Strategies
                                                             ELSE {}
          /\ request[c].kind = "export" =>
                row = CompletedRow /\ answer[c].body.artifact \in Strategies

ClientInv(c) == LoadedInv(c) /\ KnowsInv(c) /\ AnswerInv(c) /\ Told(c)

----------------------------------------------------------------------------
(* The conversions.                                                        *)

\* Reading back what was written lists what was written: json.Marshal and
\* rowToGeneration lose nothing of a generation's variations.
LEMMA ColumnListed == ASSUME NEW S PROVE Listed(Column(S)) = S
BY DEF Listed, Column, Null

LEMMA ColumnType ==
    ASSUME NEW S \in SUBSET Strategies
    PROVE  Column(S) \in {Null} \cup {{v} : v \in SUBSET Strategies}
BY DEF Column

LEMMA ListedType ==
    ASSUME NEW col \in {Null} \cup {{v} : v \in SUBSET Strategies}
    PROVE  Listed(col) \in SUBSET Strategies
<1>1. CASE col = Null
  BY <1>1 DEF Listed, Null
<1>2. ASSUME NEW v \in SUBSET Strategies, col = {v}
      PROVE  Listed(col) \in SUBSET Strategies
  <2>1. UNION {v} = v
    OBVIOUS
  <2> QED
    BY <1>2, <2>1 DEF Listed
<1> QED
  BY <1>1, <1>2

\* The shapes of the row are told apart by the status alone.
LEMMA Shapes ==
    /\ NoRow.status = "none" /\ StreamingRow.status = "streaming"
    /\ CompletedRow.status = "completed" /\ FailedRow.status = "failed"
    /\ Listed(NoRow.variations) = {} /\ Listed(StreamingRow.variations) = {}
    /\ Listed(FailedRow.variations) = {}
    /\ Listed(CompletedRow.variations) = Strategies
    /\ StreamingRow \in Generations /\ CompletedRow \in Generations
    /\ FailedRow \in Generations
<1>1. Column({}) = Null
  BY DEF Column
<1>2. Listed(Null) = {}
  BY DEF Listed, Null
<1>3. Column(Strategies) \in {Null} \cup {{v} : v \in SUBSET Strategies}
  BY ColumnType
<1>4. Listed(Column(Strategies)) = Strategies
  BY ColumnListed
<1> QED
  BY <1>1, <1>2, <1>3, <1>4
     DEF NoRow, StreamingRow, CompletedRow, FailedRow, Generations

----------------------------------------------------------------------------
(* Types.                                                                  *)

\* A generation is loaded, and only for a request that is well formed.
FoundTyped ==
    \A c \in Clients :
        stage[c] = "found" => loaded[c] \in Generations /\ ~Malformed(request[c])

\* The body that answers a GET has a status.
FetchedTyped ==
    \A c \in Clients :
        Fetched(c) => answer[c].body.status \in {"streaming", "completed", "failed"}

TInv == TypeOK /\ FoundTyped /\ FetchedTyped

LEMMA TInvInit == Init => TInv
BY MaxAsksAssumption
   DEF Init, TInv, TypeOK, FoundTyped, FetchedTyped, Fetched, Requests, Gets,
       Ids, Answers, NoAnswer, Code

\* An answer that has the type of answers keeps TInv.
LEMMA AnswerKeepsTInv ==
    ASSUME TInv, NEW c \in Clients, NEW a \in Answers, Answer(c, a),
           a.code = 200 /\ request[c].kind = "get" =>
               a.body.status \in {"streaming", "completed", "failed"}
    PROVE  TInv'
BY DEF Answer, TInv, TypeOK, FoundTyped, FetchedTyped, Fetched, writerVars,
       Malformed

LEMMA CodesAreAnswers ==
    \A n \in {0, 400, 404, 500} : Code(n) \in Answers /\ Code(n).code = n
BY DEF Code, Answers

LEMMA TInvWriter ==
    ASSUME TInv, Write
    PROVE  TInv'
<1>1. UNCHANGED <<handlerVars, ctxDone, asks, knows>>
  BY DEF Write, SaveNew, SaveNewFails, Start, GiveUp, SaveTerminal,
         SaveTerminalFails, Tell
<1>2. row' \in Generations \cup {NoRow}
  <2>1. \A v \in SUBSET Strategies :
           Column(v) \in {Null} \cup {{w} : w \in SUBSET Strategies}
    BY ColumnType
  <2>2. \A v \in SUBSET Strategies, s \in {"streaming", "completed", "failed"} :
           [status |-> s, variations |-> Column(v)] \in Generations
    BY <2>1 DEF Generations
  <2>3. \A v \in SUBSET Strategies, s \in {"streaming", "completed", "failed"} :
           Upsert(s, v) => row' \in Generations
    BY <2>2 DEF Upsert
  <2>4. CASE SaveNew \/ SaveNewFails
    BY <2>3, <2>4 DEF SaveNew, SaveNewFails, TInv, TypeOK
  <2>5. CASE SaveTerminal \/ SaveTerminalFails
    BY <2>3, <2>5 DEF SaveTerminal, SaveTerminalFails, TInv, TypeOK
  <2> QED
    BY <2>4, <2>5 DEF Write, Start, GiveUp, Tell, TInv, TypeOK
<1>3. /\ run' \in {"execute", "started", "working", "report", "returned"}
      /\ report' \in {"none", "completed", "failed"}
      /\ told' \in {"none", "streaming", "completed", "failed"}
  BY DEF Write, SaveNew, SaveNewFails, Start, GiveUp, SaveTerminal,
         SaveTerminalFails, Tell, TInv, TypeOK
<1> QED
  BY <1>1, <1>2, <1>3
     DEF TInv, TypeOK, FoundTyped, FetchedTyped, Fetched, handlerVars, Malformed

LEMMA TInvAsk ==
    ASSUME TInv, NEW c \in Clients, Ask(c)
    PROVE  TInv'
<1>1. Knowledge(c) \in {"none", "streaming", "completed", "failed"}
  BY DEF Knowledge, TInv, TypeOK, FetchedTyped, Fetched
<1>2. NoAnswer \in Answers /\ NoAnswer.code = 0
  BY CodesAreAnswers DEF NoAnswer
<1>3. TypeOK'
  BY <1>1, <1>2, MaxAsksAssumption DEF Ask, TInv, TypeOK, writerVars
<1>4. FoundTyped' /\ FetchedTyped'
  BY <1>2
     DEF Ask, TInv, TypeOK, FoundTyped, FetchedTyped, Fetched, Malformed
<1> QED
  BY <1>3, <1>4 DEF TInv

LEMMA TInvHandle ==
    ASSUME TInv, NEW c \in Clients, Handle(c)
    PROVE  TInv'
<1>1. CASE Refuse(c) \/ GetFails(c) \/ GetMisses(c) \/ ExportMisses(c)
  BY <1>1, CodesAreAnswers, AnswerKeepsTInv
     DEF Refuse, GetFails, GetMisses, ExportMisses
<1>2. CASE GetFinds(c)
  <2>1. row \in Generations
    BY <1>2 DEF GetFinds, TInv, TypeOK
  <2> QED
    BY <1>2, <2>1
       DEF GetFinds, TInv, TypeOK, FoundTyped, FetchedTyped, Fetched,
           writerVars, Malformed
<1>3. CASE AnswerGet(c)
  <2> DEFINE b == [status |-> loaded[c].status,
                   variations |-> Listed(loaded[c].variations)]
  <2>1. loaded[c] \in Generations
    BY <1>3 DEF AnswerGet, TInv, FoundTyped
  <2>2. Listed(loaded[c].variations) \in SUBSET Strategies
    BY <2>1, ListedType DEF Generations
  <2>3. b \in Bodies /\ b.status \in {"streaming", "completed", "failed"}
    BY <2>1, <2>2 DEF Bodies, Generations
  <2>4. [code |-> 200, body |-> b] \in Answers
    BY <2>3 DEF Answers
  <2>5. Answer(c, [code |-> 200, body |-> b])
    BY <1>3 DEF AnswerGet
  <2>6. [code |-> 200, body |-> b].body.status = b.status
    OBVIOUS
  <2> HIDE DEF b
  <2> QED
    BY <2>3, <2>4, <2>5, <2>6, AnswerKeepsTInv
<1>4. CASE AnswerExport(c)
  <2> DEFINE b == [artifact |-> request[c].variation,
                   format |-> request[c].format]
  <2>1. loaded[c] \in Generations /\ ~Malformed(request[c])
    BY <1>4 DEF AnswerExport, TInv, FoundTyped
  <2>2. Listed(loaded[c].variations) \in SUBSET Strategies
    BY <2>1, ListedType DEF Generations
  <2>3. b \in Bodies
    BY <1>4, <2>1, <2>2 DEF AnswerExport, Malformed, Bodies
  <2>4. [code |-> 200, body |-> b] \in Answers
    BY <2>3 DEF Answers
  <2> QED
    BY <1>4, <2>4, AnswerKeepsTInv DEF AnswerExport
<1> QED
  BY <1>1, <1>2, <1>3, <1>4 DEF Handle

LEMMA TInvStep == TInv /\ [Next]_vars => TInv'
<1> SUFFICES ASSUME TInv, [Next]_vars PROVE TInv'
  OBVIOUS
<1>1. ASSUME NEW c \in Clients, Disconnect(c) PROVE TInv'
  BY <1>1 DEF Disconnect, TInv, TypeOK, FoundTyped, FetchedTyped, Fetched,
              writerVars, handlerVars, Malformed
<1>2. CASE UNCHANGED vars
  BY <1>2 DEF vars, writerVars, handlerVars, TInv, TypeOK, FoundTyped,
              FetchedTyped, Fetched, Malformed
<1> QED
  BY <1>1, <1>2, TInvWriter, TInvAsk, TInvHandle DEF Next, Rest

\* Every variable keeps its type: the row's columns, requests, answers.
THEOREM Typing == Spec => []TypeOK
<1>1. TInv => TypeOK
  BY DEF TInv
<1> QED
  BY <1>1, TInvInit, TInvStep, PTL DEF Spec

----------------------------------------------------------------------------
(* Safety.                                                                 *)

IInv == TInv /\ RowInv /\ \A c \in Clients : ClientInv(c)

LEMMA IInvInit == Init => IInv
BY TInvInit, CodesAreAnswers, Shapes
   DEF Init, IInv, RowInv, ClientInv, LoadedInv, KnowsInv, AnswerInv, Told,
       NoAnswer

\* The writer takes the row from one shape to the next.
LEMMA WriterMoves ==
    ASSUME IInv, Write
    PROVE  /\ RowInv'
           /\ row' = row \/ (row' # NoRow /\ row \in {NoRow, StreamingRow})
<1>1. RowInv /\ TypeOK
  BY DEF IInv, TInv
<1>2. Column({}) = Null
  BY DEF Column
<1>3. CASE SaveNew \/ SaveNewFails
  <2>1. row = NoRow /\ row' \in {NoRow, StreamingRow} /\ told' = told
        /\ run' \in {"started", "returned"}
        /\ (run' = "started" => row' = StreamingRow)
    BY <1>1, <1>2, <1>3
       DEF SaveNew, SaveNewFails, Upsert, StreamingRow, RowInv
  <2>2. told' = "none"
    BY <1>1, <2>1 DEF RowInv
  <2>3. RowInv'
    BY <2>1, <2>2 DEF RowInv
  <2>4. row' = row \/ row' # NoRow
    BY <2>1
  <2> QED
    BY <2>1, <2>3, <2>4
<1>4. CASE Start \/ GiveUp \/ Tell
  <2>1. row' = row
    BY <1>4 DEF Start, GiveUp, Tell
  <2>2. CASE Start
    BY <1>1, <2>1, <2>2, Shapes DEF Start, RowInv
  <2>3. CASE GiveUp
    <3>1. run \in {"started", "report"} /\ run' = "returned" /\ told' = told
      BY <2>3 DEF GiveUp
    <3>2. told \notin {"completed", "failed"}
      BY <1>1, <3>1 DEF RowInv
    <3> QED
      BY <1>1, <2>1, <3>1, <3>2 DEF RowInv
  <2>4. CASE Tell
    <3>1. run = "report" /\ run' = "returned" /\ told' \in {told, report}
          /\ (told' # told => told' = report /\ report # "none")
      BY <2>4 DEF Tell
    <3>2. told \notin {"completed", "failed"}
      BY <1>1, <3>1 DEF RowInv
    <3> QED
      BY <1>1, <2>1, <3>1, <3>2 DEF RowInv
  <2> QED
    BY <1>4, <2>1, <2>2, <2>3, <2>4
<1>5. CASE SaveTerminal
  <2>1. PICK status \in {"completed", "failed"} :
           /\ Upsert(status, IF status = "completed" THEN Strategies ELSE {})
           /\ report' = status
    BY <1>5 DEF SaveTerminal
  <2>2. row' \in {CompletedRow, FailedRow} /\ row'.status = report'
    BY <1>2, <2>1 DEF Upsert, CompletedRow, FailedRow
  <2>3. row = StreamingRow /\ run = "working" /\ run' = "report" /\ told' = told
    BY <1>1, <1>5 DEF SaveTerminal, RowInv
  <2> QED
    BY <1>1, <2>2, <2>3, Shapes DEF RowInv
<1>6. CASE SaveTerminalFails
  <2>1. row' \in {CompletedRow, FailedRow, row} /\ report' = "none"
    BY <1>2, <1>6 DEF SaveTerminalFails, Upsert, CompletedRow, FailedRow
  <2>2. row = StreamingRow /\ run = "working" /\ run' = "report" /\ told' = told
    BY <1>1, <1>6 DEF SaveTerminalFails, RowInv
  <2> QED
    BY <1>1, <2>1, <2>2, Shapes DEF RowInv
<1> QED
  BY <1>3, <1>4, <1>5, <1>6 DEF Write

LEMMA WriterKeepsIInv ==
    ASSUME IInv, Write, NEW c \in Clients
    PROVE  ClientInv(c)'
<1>1. UNCHANGED <<stage, request, loaded, answer, knows>>
  BY DEF Write, SaveNew, SaveNewFails, Start, GiveUp, SaveTerminal,
         SaveTerminalFails, Tell, handlerVars
<1>2. row' = row \/ (row' # NoRow /\ row \in {NoRow, StreamingRow})
  BY WriterMoves
<1>3. ClientInv(c)
  BY DEF IInv
<1>4. LoadedInv(c)'
  BY <1>1, <1>2, <1>3, Shapes DEF ClientInv, LoadedInv, KnowsInv, Proper
<1>5. KnowsInv(c)'
  BY <1>1, <1>2, <1>3, Shapes DEF ClientInv, KnowsInv
<1>6. AnswerInv(c)'
  BY <1>1, <1>2, <1>3, Shapes DEF ClientInv, AnswerInv, Proper
<1>7. Told(c)'
  BY <1>1, <1>3 DEF ClientInv, Told, Proper, Fetched
<1> QED
  BY <1>4, <1>5, <1>6, <1>7 DEF ClientInv

LEMMA AskKeepsIInv ==
    ASSUME IInv, NEW c \in Clients, Ask(c)
    PROVE  ClientInv(c)'
<1>1. ClientInv(c) /\ RowInv /\ TypeOK
  BY DEF IInv, TInv
<1>2. stage'[c] = "received" /\ answer'[c] = NoAnswer /\ row' = row
      /\ knows'[c] = Knowledge(c)
  BY <1>1 DEF Ask, TypeOK, writerVars
<1>3. NoAnswer.code = 0
  BY CodesAreAnswers DEF NoAnswer
<1>4. /\ Knowledge(c) # "none" => row # NoRow
      /\ Knowledge(c) \in {"completed", "failed"} => row.status = Knowledge(c)
  BY <1>1, Shapes
     DEF Knowledge, ClientInv, RowInv, KnowsInv, AnswerInv, TypeOK, Requests,
         Gets, Exports
<1> QED
  BY <1>2, <1>3, <1>4 DEF ClientInv, LoadedInv, KnowsInv, AnswerInv, Told

\* An answer keeps the invariants when it is what they say of answers.
LEMMA AnswerKeepsIInv ==
    ASSUME IInv, NEW c \in Clients, NEW a, Answer(c, a),
           a.code = 200 =>
              /\ Proper(c)
              /\ row # NoRow
              /\ request[c].kind = "get" =>
                    /\ a.body.status \in {row.status, "streaming"}
                    /\ a.body.variations =
                          IF a.body.status = "completed" THEN Strategies
                                                         ELSE {}
              /\ request[c].kind = "export" =>
                    row = CompletedRow /\ a.body.artifact \in Strategies,
           Proper(c) /\ a.code \notin {0, 500} =>
              /\ knows[c] # "none" /\ request[c].kind = "get" => a.code = 200
              /\ knows[c] \in {"completed", "failed"}
                 /\ request[c].kind = "get" => a.body.status = knows[c]
              /\ request[c].kind = "export"
                 /\ request[c].variation \in Strategies =>
                    /\ knows[c] = "completed" => a.code = 200
                    /\ knows[c] = "failed" => a.code = 404
    PROVE  ClientInv(c)'
<1>1. ClientInv(c) /\ TypeOK
  BY DEF IInv, TInv
<1>2. stage'[c] = "idle" /\ answer'[c] = a
      /\ UNCHANGED <<row, request, loaded, knows>>
  BY <1>1 DEF Answer, TypeOK, writerVars
<1>3. LoadedInv(c)' /\ KnowsInv(c)'
  BY <1>1, <1>2 DEF ClientInv, LoadedInv, KnowsInv
<1>4. AnswerInv(c)'
  BY <1>2 DEF AnswerInv, Proper
<1>5. Told(c)'
  BY <1>2 DEF Told, Proper, Fetched
<1> QED
  BY <1>3, <1>4, <1>5 DEF ClientInv

LEMMA HandleKeepsIInv ==
    ASSUME IInv, NEW c \in Clients, Handle(c)
    PROVE  ClientInv(c)'
<1>1. ClientInv(c) /\ RowInv /\ TypeOK
  BY DEF IInv, TInv
<1>2. CASE Refuse(c)
  BY <1>2, CodesAreAnswers, AnswerKeepsIInv DEF Refuse, Proper
<1>3. CASE GetFails(c)
  BY <1>3, CodesAreAnswers, AnswerKeepsIInv DEF GetFails
<1>4. CASE GetMisses(c)
  BY <1>1, <1>4, CodesAreAnswers, AnswerKeepsIInv, Shapes
     DEF GetMisses, Proper, ClientInv, KnowsInv
<1>5. CASE GetFinds(c)
  <2>1. stage'[c] = "found" /\ loaded'[c] = row
        /\ UNCHANGED <<row, request, answer, knows>>
    BY <1>1, <1>5 DEF GetFinds, TypeOK, writerVars
  <2>2. stage[c] = "received" /\ row # NoRow /\ Proper(c)
    BY <1>5 DEF GetFinds, Proper
  <2>3. answer[c] = NoAnswer
    BY <1>1, <2>2 DEF ClientInv, AnswerInv
  <2>4. LoadedInv(c)'
    BY <1>1, <2>1, <2>2 DEF LoadedInv, ClientInv, KnowsInv, Proper
  <2>5. KnowsInv(c)' /\ AnswerInv(c)' /\ Told(c)'
    BY <1>1, <2>1, <2>3, CodesAreAnswers
       DEF ClientInv, KnowsInv, AnswerInv, Told, NoAnswer, Proper, Fetched
  <2> QED
    BY <2>4, <2>5 DEF ClientInv
<1>6. CASE AnswerGet(c)
  <2> DEFINE b == [status |-> loaded[c].status,
                   variations |-> Listed(loaded[c].variations)]
             a == [code |-> 200, body |-> b]
  <2>1. Answer(c, a) /\ a.code = 200 /\ a.body = b
        /\ b.status = loaded[c].status
        /\ b.variations = Listed(loaded[c].variations)
    BY <1>6 DEF AnswerGet
  <2>2. request[c].kind = "get" /\ LoadedInv(c) /\ stage[c] = "found"
    BY <1>1, <1>6 DEF AnswerGet, ClientInv
  <2>3. loaded[c] \in {StreamingRow, CompletedRow, FailedRow}
    BY <1>1, <2>2 DEF LoadedInv, RowInv
  <2>4. /\ b.status \in {row.status, "streaming"}
        /\ b.variations = IF b.status = "completed" THEN Strategies ELSE {}
    BY <2>1, <2>2, <2>3, Shapes DEF LoadedInv
  <2>5. knows[c] \in {"completed", "failed"} => b.status = knows[c]
    BY <2>1, <2>2, Shapes DEF LoadedInv
  <2>6. Proper(c) /\ row # NoRow
    BY <2>2 DEF LoadedInv
  <2> HIDE DEF a, b
  <2> QED
    BY <2>1, <2>2, <2>4, <2>5, <2>6, AnswerKeepsIInv
<1>7. CASE AnswerExport(c)
  <2> DEFINE b == [artifact |-> request[c].variation,
                   format |-> request[c].format]
             a == [code |-> 200, body |-> b]
  <2>1. Answer(c, a) /\ a.code = 200 /\ a.body = b
        /\ b.artifact = request[c].variation
    BY <1>7 DEF AnswerExport
  <2>2. request[c].kind = "export" /\ LoadedInv(c) /\ stage[c] = "found"
        /\ request[c].variation \in Listed(loaded[c].variations)
    BY <1>1, <1>7 DEF AnswerExport, ClientInv
  <2>3. row = CompletedRow /\ request[c].variation \in Strategies
    BY <1>1, <2>2, Shapes DEF LoadedInv, RowInv
  <2>4. Proper(c) /\ row # NoRow
    BY <2>2 DEF LoadedInv
  <2>5. knows[c] # "failed"
    BY <1>1, <2>2, <2>3, Shapes DEF ClientInv, KnowsInv
  <2> HIDE DEF a, b
  <2> QED
    BY <2>1, <2>2, <2>3, <2>4, <2>5, AnswerKeepsIInv
<1>8. CASE ExportMisses(c)
  <2>1. request[c].kind = "export" /\ LoadedInv(c) /\ stage[c] = "found"
        /\ request[c].variation \notin Listed(loaded[c].variations)
        /\ Answer(c, Code(404))
    BY <1>1, <1>8 DEF ExportMisses, ClientInv
  <2>2. knows[c] = "completed" => request[c].variation \notin Strategies
    BY <1>1, <2>1, Shapes DEF LoadedInv, RowInv
  <2> QED
    BY <2>1, <2>2, CodesAreAnswers, AnswerKeepsIInv
<1> QED
  BY <1>2, <1>3, <1>4, <1>5, <1>6, <1>7, <1>8 DEF Handle

\* A client's steps touch what is its own, and never the row.
LEMMA OnlyItsOwn ==
    ASSUME IInv, NEW c \in Clients, Ask(c) \/ Handle(c), NEW d \in Clients, d # c
    PROVE  ClientInv(d)'
<1>1. /\ UNCHANGED row
      /\ stage'[d] = stage[d] /\ request'[d] = request[d]
      /\ loaded'[d] = loaded[d] /\ answer'[d] = answer[d]
      /\ knows'[d] = knows[d]
  BY DEF IInv, TInv, TypeOK, Ask, Handle, Refuse, GetFails, GetMisses, GetFinds,
         AnswerGet, AnswerExport, ExportMisses, Answer, writerVars
<1>2. ClientInv(d)
  BY DEF IInv
<1> QED
  BY <1>1, <1>2
     DEF ClientInv, LoadedInv, KnowsInv, AnswerInv, Told, Proper, Fetched

LEMMA IInvStep == IInv /\ [Next]_vars => IInv'
<1> SUFFICES ASSUME IInv, [Next]_vars PROVE IInv'
  OBVIOUS
<1>1. TInv'
  BY TInvStep DEF IInv
<1>2. CASE Write
  BY <1>1, <1>2, WriterMoves, WriterKeepsIInv DEF IInv
<1>3. ASSUME NEW c \in Clients, Ask(c) \/ Handle(c) PROVE IInv'
  <2>1. RowInv'
    BY <1>3 DEF IInv, RowInv, Ask, Handle, Refuse, GetFails, GetMisses, GetFinds,
                AnswerGet, AnswerExport, ExportMisses, Answer, writerVars
  <2>2. ClientInv(c)'
    BY <1>3, AskKeepsIInv, HandleKeepsIInv
  <2> QED
    BY <1>1, <1>3, <2>1, <2>2, OnlyItsOwn DEF IInv
<1>4. CASE UNCHANGED <<writerVars, stage, request, loaded, answer, knows>>
  BY <1>1, <1>4
     DEF IInv, RowInv, ClientInv, LoadedInv, KnowsInv, AnswerInv, Told, Proper,
         Fetched, writerVars
<1> QED
  BY <1>2, <1>3, <1>4 DEF Next, Rest, Disconnect, vars, writerVars, handlerVars

LEMMA IInvHolds == Spec => []IInv
BY IInvInit, IInvStep, PTL DEF Spec

\* A GET lists all the variations of a completed generation, or none.
THEOREM ReadsAreWhole == Spec => []ReadIsWhole
<1>1. IInv => ReadIsWhole
  BY DEF IInv, ClientInv, AnswerInv, ReadIsWhole, Fetched
<1> QED
  BY <1>1, IInvHolds, PTL

\* An artifact that was handed out is of a generation that stays completed.
THEOREM ExportsAreBacked == Spec => []ExportIsBacked
<1>1. IInv => ExportIsBacked
  BY Shapes DEF IInv, ClientInv, AnswerInv, ExportIsBacked
<1> QED
  BY <1>1, IInvHolds, PTL

\* No answer takes back what the client was told before it asked.
THEOREM WhatWasToldStaysTrue == Spec => []ToldStaysTrue
<1>1. IInv => ToldStaysTrue
  BY DEF IInv, ClientInv, ToldStaysTrue
<1> QED
  BY <1>1, IInvHolds, PTL
=============================================================================
