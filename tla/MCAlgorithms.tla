---------------------------- MODULE MCAlgorithms ----------------------------
(* The parts of the system that are functions of their input or of their own *)
(* state, each run on every case of a small set and held against what it is  *)
(* for.  subject says which part; case is its input so far and result what   *)
(* it answered, or the state it is in.                                       *)
EXTENDS Integers, Sequences

Fit == INSTANCE FitSearch
Reply == INSTANCE StreamSplit
Run == INSTANCE Transcript
Launch == INSTANCE LaunchPolicy
Cal == INSTANCE Calibration
Chat == INSTANCE ChatContext
Round == INSTANCE ChatRounds
Stream == INSTANCE SidecarStream
File == INSTANCE FileTools
Claim == INSTANCE Evidence
List == INSTANCE Catalogue
Advice == INSTANCE Recommend
Change == INSTANCE ChangeView
\* A run in "w" and one in "v"; the tools page calls in "w".
Shell == INSTANCE Terminal
         WITH Runs <- {"r1", "r2"}, Owner <- [r1 |-> "w", r2 |-> "v", page |-> "w"],
              Commands <- {"serve", "watch"}, MaxIds <- 2
Feed == INSTANCE EventFeed WITH Capacity <- 3, MaxEvents <- 5
Doc == INSTANCE Documents WITH Names <- {"report", "notes"}, MaxVersions <- 4
Know == INSTANCE Knowledge WITH MaxClock <- 3
\* Two models have their weights in one folder.
Tool == INSTANCE ToolCheck
        WITH Models <- {"a", "b", "c"}, Folder <- [a |-> "shared", b |-> "shared", c |-> "own"], MaxChanges <- 2
Project == INSTANCE ProjectCheck

VARIABLES subject, case, result
vars == <<subject, case, result>>

MaxPieces == 3
MaxLastPiece == 4               \* the last piece is a short one
MaxSteps == 4
MaxTurns == 3
MaxCalls == 3
MaxChunk == 4
MaxListSteps == 4

Init ==
    \/ subject = "fit" /\ case \in Fit!Cases /\ result = Fit!NoDecision
    \/ subject = "transcript" /\ case \in Run!Runs /\ result = case
    \/ subject = "launch" /\ case \in Launch!Cases /\ result = <<>>
    \/ subject = "calibration" /\ case \in Cal!Cases /\ result = case
    \/ subject = "reply" /\ case = [text |-> <<>>, left |-> <<>>, pieces |-> 0] /\ result = Reply!New
    \/ subject = "chat" /\ result \in Chat!Conversations /\ case = [before |-> result, turns |-> 0]
    \/ subject = "rounds" /\ result \in Round!Replies /\ case = <<>>
    \/ subject = "evidence" /\ result \in Claim!Runs /\ case = 0
    \/ subject = "files" /\ result = <<>> /\ \E ending \in {"lf", "crlf", "mixed"} : case \in File!TextsAt(ending)
    \/ /\ subject = "stream" /\ result = Stream!New
       /\ \E reply \in Stream!Replies, crlf \in BOOLEAN :
              case = [reply |-> reply, left |-> Stream!Bytes(reply, crlf), got |-> <<>>]
    \/ /\ subject = "send"
       /\ case \in [answers : [1..4 -> Stream!Answers], reshapes : BOOLEAN]
       /\ result = Stream!Outcome(case.answers, case.reshapes)
    \/ subject = "catalogue" /\ case = 0 /\ \E disk \in List!Disks : result = List!New(disk)
    \/ subject = "advice" /\ case \in Advice!Cases /\ result = <<>>
    \/ subject = "change" /\ case \in [tool : Change!Tools, before : Change!Files] /\ result = <<>>
    \/ subject = "shell" /\ case = 0 /\ result = Shell!New
    \/ subject = "feed" /\ case = 0 /\ result = Feed!New
    \/ subject = "document" /\ result = <<>>
       /\ \E kind \in Doc!Kinds : \E spec \in Doc!Specs(kind) : case = [kind |-> kind, spec |-> spec]
    \/ subject = "artifacts" /\ case = 0 /\ result = Doc!New
    \/ subject = "chunks" /\ case \in Know!Texts /\ result = <<>>
    \/ subject = "knowledge" /\ case = 0 /\ result = Know!New
    \/ subject = "index" /\ case = 0 /\ result = Know!NewFolder
    \/ subject = "probes" /\ case \in [1..4 -> Tool!Answers] /\ result = <<>>
    \/ subject = "tooling" /\ case = 0 /\ result = Tool!NewLoads
    \/ subject = "project" /\ case = 0 /\ \E folder \in Project!Folders : result = Project!NewCheck(folder)

\* A load after another one (api.rs, fit_context_with_runtime).
LoadModel ==
    /\ subject = "fit" /\ result = Fit!NoDecision
    /\ result' = Fit!Adopted(case)
    /\ UNCHANGED <<subject, case>>

\* The next mark of a reply; the runtime is released at a complete action.
ReceiveMark ==
    /\ subject = "reply" /\ case.left # <<>>
    /\ ~Reply!ActionComplete(case.text)
    /\ case' = [case EXCEPT !.text = Append(@, Head(case.left)), !.left = Tail(@)]
    /\ result' = Reply!PushDelta(result, <<Head(case.left)>>)
    /\ UNCHANGED subject

WritePiece ==
    /\ subject = "reply" /\ case.left = <<>> /\ case.pieces < MaxPieces
    /\ \E piece \in Reply!Segments :
          /\ case.pieces + 1 = MaxPieces => Len(piece) <= MaxLastPiece
          /\ case' = [case EXCEPT !.left = piece, !.pieces = @ + 1]
    /\ UNCHANGED <<subject, result>>

\* One step of an agent run: what it adds to the transcript, then the request.
AddToTranscript ==
    /\ subject = "transcript" /\ result.steps < MaxSteps
    /\ case' \in Run!Additions([result EXCEPT !.steps = @ + 1])
    /\ result' \in {Run!Request(case', block) : block \in Run!Blocks}
    /\ UNCHANGED subject

\* The attempts of a load, the last of which the machine allows.
StartModel ==
    /\ subject = "launch" /\ result = <<>>
    /\ result' = Launch!Attempts(case)
    /\ UNCHANGED <<subject, case>>

\* The next measurements of a calibration.
Measure ==
    /\ subject = "calibration"
    /\ result' \in Cal!Next(result)
    /\ UNCHANGED <<subject, case>>

\* The next message of a conversation, and the request that answers it.
SendMessage ==
    /\ subject = "chat" /\ case.turns < MaxTurns
    /\ result' \in Chat!Turned(result)
    /\ case' = [before |-> result, turns |-> case.turns + 1]
    /\ UNCHANGED subject

\* One round of a chat reply.
RunRound ==
    /\ subject = "rounds" /\ result.end = "no"
    /\ result' \in Round!Round(result)
    /\ UNCHANGED <<subject, case>>

\* One call of an agent run, or its claim to be done.
Act ==
    /\ subject = "evidence" /\ result.end = "no"
    /\ \/ case < MaxCalls /\ case' = case + 1 /\ result' \in Claim!Act(result)
       \/ case' = case /\ result' \in Claim!Next(result)
    /\ UNCHANGED subject

EditFile ==
    /\ subject = "files" /\ result = <<>>
    /\ \E edit \in File!Replacements \union File!LineEdits \union File!Patches :
          result' = [edit |-> edit, text |-> File!Result(case, edit)]
    /\ UNCHANGED <<subject, case>>

\* The next bytes of the connection.
ReceiveChunk ==
    /\ subject = "stream" /\ result.end = "reading"
    /\ \E n \in 1..MaxChunk, cancelled \in BOOLEAN :
          LET chunk == SubSeq(case.left, 1, n) IN
          /\ n <= Len(case.left)
          /\ case' = [case EXCEPT !.left = SubSeq(@, n + 1, Len(@)), !.got = @ \o chunk]
          /\ result' = Stream!Receive(result, chunk, cancelled)
    /\ UNCHANGED subject

\* Somebody changes the models folder, lists, loads or deletes a model.
UseCatalogue ==
    /\ subject = "catalogue" /\ case < MaxListSteps
    /\ case' = case + 1
    /\ result' \in List!Next(result)
    /\ UNCHANGED subject

\* A tool of an agent run has changed a file.
ViewChange ==
    /\ subject = "change" /\ result = <<>>
    /\ \E after \in Change!Files :
          result' = [after |-> after, diff |-> Change!Diff(case.tool, case.before, after)]
    /\ UNCHANGED <<subject, case>>

RunCommands ==
    /\ subject = "shell"
    /\ result' \in Shell!Next(result)
    /\ UNCHANGED <<subject, case>>

FollowRun ==
    /\ subject = "feed"
    /\ result' \in Feed!Next(result)
    /\ UNCHANGED <<subject, case>>

\* A document is made, saved and recorded, and files are ingested.
CreateDocument ==
    /\ subject = "artifacts"
    /\ result' \in Doc!Next(result)
    /\ UNCHANGED <<subject, case>>

IngestKnowledge ==
    /\ subject = "knowledge"
    /\ result' \in Know!Next(result)
    /\ UNCHANGED <<subject, case>>

\* The folder changes, or its index is asked for.
AskIndex ==
    /\ subject = "index"
    /\ result' \in Know!NextFolder(result)
    /\ UNCHANGED <<subject, case>>

\* A model is loaded, or what it was measured for changes.
UseTooling ==
    /\ subject = "tooling"
    /\ result' \in Tool!NextLoad(result)
    /\ UNCHANGED <<subject, case>>

CheckProject ==
    /\ subject = "project"
    /\ result' \in Project!RunStep(result)
    /\ UNCHANGED <<subject, case>>

Next ==
    \/ Measure \/ StartModel \/ LoadModel
    \/ ReceiveMark \/ WritePiece \/ ReceiveChunk
    \/ AddToTranscript \/ SendMessage \/ RunRound
    \/ Act \/ EditFile \/ ViewChange \/ RunCommands \/ FollowRun
    \/ UseCatalogue \/ UseTooling \/ CheckProject
    \/ CreateDocument \/ IngestKnowledge \/ AskIndex

Spec == Init /\ [][Next]_vars

(* A load gets a fit that holds and the largest context there is; it is       *)
(* planned as well as memory allows, told as it is launched, and on the CPU   *)
(* asks no more of RAM than there is; and the measured profiles and           *)
(* micro-batch answer to what the owner is told.  What is offered to load is  *)
(* there and whole, what is advised fits, and what it is told of its tools    *)
(* was measured as it runs.  See the properties of FitSearch, LaunchPolicy,   *)
(* Calibration, Catalogue, Recommend and ToolCheck.                           *)
LoadHolds ==
    /\ subject = "fit" => Fit!FitIsReal(case, result) /\ Fit!LargestContext(case, result)
    /\ subject = "launch" /\ result # <<>> =>
          /\ Launch!PlanIsBest(case)
          /\ Launch!RecordTellsLaunch(result)
          /\ Launch!LaunchIsBounded(case, result)
          /\ Launch!CpuIsSafe(case, result)
    /\ subject = "calibration" =>
          /\ Cal!ProfilesKeepTheirShare(result)
          /\ Cal!RuleIsKept(result)
          /\ Cal!DriftCancels(result)
    /\ subject = "catalogue" => List!CatalogueHolds(result)
    /\ subject = "advice" => Advice!RecommendHolds(case)
    /\ subject = "probes" => Tool!ProfileIsProven(case) /\ Tool!NotFromSilence(case)
    /\ subject = "tooling" => Tool!MeasuredAsItRuns(result)

(* Whenever the stream ends, the reply shown and the call executed agree,     *)
(* however the server and the connection cut it; a reply that counts as       *)
(* complete is whole, and a request is repeated only before anything was      *)
(* generated for it.  Who follows a run is shown all of it and its end.  See  *)
(* the properties of StreamSplit, SidecarStream and EventFeed.                *)
ReplyShown ==
    /\ subject = "reply" =>
          /\ Reply!CutsAreInvisible(case.text, result)
          /\ Reply!HiddenIsExecuted(case.text, result)
          /\ Reply!CopyIsClosed(case.text)
    /\ subject = "stream" =>
          /\ Stream!CutsDoNotMatter(case.got, result)
          /\ Stream!CompleteIsWhole(case.reply, Stream!Close(result))
          /\ Stream!TimesAddUp(Stream!Close(result))
    /\ subject = "send" => Stream!RepeatsAreFree(case.answers, case.reshapes)
    /\ subject = "feed" => Feed!FeedHolds(result)

(* Every request is one the chat template accepts, with the task, the notes,  *)
(* the question and the files it is about, and in the window unless there is  *)
(* nothing left to drop.  See the properties of Transcript, ChatContext and   *)
(* ChatRounds.                                                                *)
RequestsHold ==
    /\ subject = "transcript" =>
          /\ Run!Paired(result)
          /\ Run!TaskStays(result)
          /\ Run!Fits(result)
          /\ Run!ResultIsSeen(case, result)
    /\ subject = "chat" /\ case.turns > 0 => Chat!RequestHolds(case.before, result)
    /\ subject = "rounds" => Round!RoundHolds(result)

(* An edit changes what it names and nothing else, and is shown as what it    *)
(* is; a file can be read whole; a run that ends as done has had what it      *)
(* changed confirmed, which it always can; the commands it left running end   *)
(* with it; a document has content and its row a file; what is retrieved and  *)
(* indexed is of the files; and a check of a project says what its build and  *)
(* tests did.  See the properties of FileTools, ChangeView, Evidence,         *)
(* Terminal, Documents, Knowledge and ProjectCheck.                           *)
ToolsHold ==
    /\ subject = "files" /\ result # <<>> => File!EditHolds(case, result.edit, result.text)
    /\ subject = "files" /\ result = <<>> => File!PagesCover(case)
    /\ subject = "change" /\ result # <<>> =>
          Change!ChangeViewHolds(case.tool, case.before, result.after, result.diff)
    /\ subject = "shell" => Shell!TerminalHolds(result)
    /\ subject = "document" => Doc!NeverBlank(case.kind, case.spec) /\ Doc!AdviceWorks(case.kind, case.spec)
    /\ subject = "artifacts" => Doc!RowsHaveFiles(result)
    /\ subject = "chunks" => Know!ChunksOverlap(case)
    /\ subject = "knowledge" => Know!OneVersionEach(result)
    /\ subject = "index" => Know!TopIsFresh(result)
    /\ subject = "project" => Project!ProjectCheckHolds(result)
    /\ subject = "evidence" => Claim!ClaimIsBacked(result) /\ Claim!EvidenceCanBeGiven(result)
=============================================================================
