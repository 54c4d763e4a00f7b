----------------------------- MODULE ToolCheck ------------------------------
(***************************************************************************)
(* The tool check (tooling.rs): at a model's first load it is asked for a  *)
(* call and for a file, through the runtime and then in the app's text     *)
(* format, and what arrived decides how agents offer it tools.  The answer *)
(* is kept in the folder of the model's weights until the runtime, the     *)
(* chat template or the check changes.                                     *)
(*                                                                         *)
(* A definition named ..._Wrong is the one after it with one mistake; no   *)
(* specification uses it.                                                  *)
(***************************************************************************)
EXTENDS Integers, Sequences, FiniteSets

CONSTANTS
    Models,
    Folder,      \* where a model's weights are
    MaxChanges   \* bound: how often the runtime or a template changes

None == [method |-> "unchecked"]

\* How a request of the check ends: the runtime does not answer, it refuses,
\* no call comes back, the call asked for does, it does with call syntax left
\* in the text as well, another call does, a file's text is not the one sent.
Answers == {"down", "refused", "nothing", "call", "leaked", "other", "cut"}

NativeCall(answer) == answer = "call"
TextCall(answer) == answer \in {"call", "leaked"}
FileText(answer) == answer \in {"call", "leaked"}

-----------------------------------------------------------------------------
(* check.  probes: the answers to the four requests, as far as they are      *)
(* made; asked: how many were.                                               *)

Method(native, file, textCall, textFile) ==
    CASE native /\ file -> [method |-> "native", canWrite |-> TRUE, fileText |-> "arguments"]
      [] ~(native /\ file) /\ textCall /\ textFile -> [method |-> "text", canWrite |-> TRUE, fileText |-> "blocks"]
      [] native /\ ~file /\ ~(textCall /\ textFile) -> [method |-> "native", canWrite |-> FALSE, fileText |-> "none"]
      [] ~native /\ textCall /\ ~textFile -> [method |-> "text", canWrite |-> FALSE, fileText |-> "none"]
      [] OTHER -> [method |-> "none", canWrite |-> FALSE, fileText |-> "none"]

Check_Wrong(probes) ==
    IF probes[1] = "down" THEN None
    ELSE Method(NativeCall(probes[1]), NativeCall(probes[1]), TextCall(probes[3]), FileText(probes[4]))

Check(probes) ==
    IF probes[1] = "down" THEN None
    ELSE Method(NativeCall(probes[1]), FileText(probes[2]), TextCall(probes[3]), FileText(probes[4]))

Asked(probes) ==
    CASE probes[1] = "down" -> 1
      [] NativeCall(probes[1]) /\ FileText(probes[2]) -> 2
      [] OTHER -> 4

(* A profile claims no more than was shown, in one and the same format, and  *)
(* no less: a model is kept from writing files only if it delivered no file  *)
(* through a format whose calls it can make, and from tools only if it could *)
(* make no call in either (ToolingProfile; tooling.rs:7-16).                 *)
ProfileIsProven(probes) ==
    LET profile == Check(probes)
        shown(format) == IF format = "native" THEN NativeCall(probes[1]) ELSE TextCall(probes[3])
        wrote(format) == shown(format) /\ FileText(IF format = "native" THEN probes[2] ELSE probes[4])
    IN profile # None =>
        /\ profile.method # "none" => shown(profile.method)
        /\ profile.canWrite => wrote(profile.method)
        /\ ~profile.canWrite => ~wrote("native") /\ ~wrote("text")
        /\ profile.method = "none" => ~shown("native") /\ ~shown("text")

(* "no profile is written from a failed connection" (tooling.rs:468): one    *)
(* that took from the model what it can do was told so by its answers, or a  *)
(* request after the first was not answered.                                 *)
NotFromSilence(probes) ==
    LET better == [i \in 1..4 |-> IF probes[i] \in {"down", "refused"} THEN "call" ELSE probes[i]]
    IN Check(probes) # None /\ Check(better) # Check(probes) =>
           \/ \E i \in 1..Asked(probes) : i > 1 /\ probes[i] \in {"down", "refused"}
           \/ probes[1] = "refused"

-----------------------------------------------------------------------------
(* What loads use.  Models may have their weights in one folder; all have a  *)
(* chat template, which a rescan may find changed.  A runtime and a template *)
(* are one of two.                                                           *)

Folders == {Folder[m] : m \in Models}
NoFile == [of |-> "none", runtime |-> 0, template |-> 0]

NewLoads == [files |-> [f \in Folders |-> NoFile], runtime |-> 0, template |-> [m \in Models |-> 0],
             loaded |-> "none", used |-> NoFile, changes |-> 0]

\* profile_state and tooling_for_load.
Current_Wrong(d, model) ==
    LET file == d.files[Folder[model]]
    IN file # NoFile /\ file.template = d.template[model]

Current(d, model) ==
    LET file == d.files[Folder[model]]
    IN file # NoFile /\ file.runtime = d.runtime /\ file.template = d.template[model]

\* A check that answers; the file may not be written, and the load still uses it.
RunToolCheck(d, model) ==
    LET profile == [of |-> model, runtime |-> d.runtime, template |-> d.template[model]]
        used == [d EXCEPT !.loaded = model, !.used = profile]
    IN {used, [used EXCEPT !.files[Folder[model]] = profile],
        [d EXCEPT !.loaded = model, !.used = NoFile]}
Load(d, model) ==
    IF Current(d, model) THEN {[d EXCEPT !.loaded = model, !.used = d.files[Folder[model]]]}
    ELSE RunToolCheck(d, model)

\* recheck_model_tooling: nothing changes if the check does not answer.
Recheck(d) ==
    IF d.loaded = "none" THEN {} ELSE {c \in RunToolCheck(d, d.loaded) : c.used # NoFile}

\* The runtime is built again, a template is replaced: the server is started anew.
Changed(d) ==
    IF d.changes = MaxChanges THEN {}
    ELSE LET stopped == [d EXCEPT !.loaded = "none", !.used = NoFile, !.changes = @ + 1]
         IN {[stopped EXCEPT !.runtime = 1 - @]} \union {[stopped EXCEPT !.template[m] = 1 - @] : m \in Models}
NextLoad(d) == (UNION {Load(d, m) : m \in Models}) \union Recheck(d) \union Changed(d)

(* What a loaded model is run with was measured on this runtime and with its *)
(* template, and on itself or on a model in the same folder.                 *)
MeasuredAsItRuns(d) ==
    d.used # NoFile =>
        /\ d.used.runtime = d.runtime
        /\ d.used.template = d.template[d.loaded]
        /\ Folder[d.used.of] = Folder[d.loaded]
=============================================================================
