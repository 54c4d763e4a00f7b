---------------------------- MODULE ProjectCheck ----------------------------
(***************************************************************************)
(* project_check (project_check.rs): finds what a project is, runs its own *)
(* build and tests, and reports what each of them said.                    *)
(*                                                                         *)
(* A folder is the set of the things plan looks for.  A step of a plan has *)
(* a kind and a program; a command that ran has an outcome.                *)
(*                                                                         *)
(* A definition named ..._Wrong is the one after it with one mistake; no   *)
(* specification uses it.                                                  *)
(***************************************************************************)
EXTENDS Integers, Sequences, SequencesExt

Scripts == {"build", "typecheck", "test"}
Marks == {"package.json", "Cargo.toml", "go.mod", "python"} \union Scripts
Folders == {folder \in SUBSET Marks : folder \intersect Scripts # {} => "package.json" \in folder}

Step(kind, program) == [kind |-> kind, program |-> program]

\* plan: the first that the folder has, in this order; none is <<>>.
NpmSteps(folder) ==
    (IF folder \intersect {"build", "typecheck"} # {} THEN <<Step("build", "npm")>> ELSE <<>>)
    \o (IF "test" \in folder THEN <<Step("tests", "npm")>> ELSE <<>>)
Plan(folder) ==
    CASE "package.json" \in folder -> NpmSteps(folder)
      [] "package.json" \notin folder /\ "Cargo.toml" \in folder -> <<Step("build", "cargo"), Step("tests", "cargo")>>
      [] folder \intersect {"package.json", "Cargo.toml"} = {} /\ "go.mod" \in folder ->
            <<Step("build", "go"), Step("tests", "go")>>
      [] folder \intersect {"package.json", "Cargo.toml", "go.mod"} = {} /\ "python" \in folder ->
            <<Step("tests", "python")>>
      [] OTHER -> <<>>

\* How a step ends: the program is not installed, it cannot be started, exit
\* code 0, exit code 0 when the time was up, 5 (pytest found no tests), another
\* one or killed, the tests folder cannot be imported.
Ends == {"missing", "unstartable", "zero", "timeout", "five", "failed", "unimportable"}

\* run: what is reported of a step, and whether the next one is run.
Report(end) ==
    CASE end = "missing" -> "not installed"
      [] end = "unstartable" -> "could not run"
      [] end = "zero" -> "passed"
      [] end = "five" -> "no tests"
      [] end = "unimportable" -> "no package"
      [] OTHER -> "problems"
GoesOn_Wrong(step, end) == end # "unstartable"

GoesOn(step, end) ==
    \/ end \in {"missing", "zero", "five", "unimportable"}
    \/ end \in {"failed", "timeout"} /\ step.kind # "build"

NewCheck(folder) == [folder |-> folder, plan |-> Plan(folder), ran |-> <<>>, over |-> Plan(folder) = <<>>]
RunStep(c) ==
    IF c.over THEN {}
    ELSE LET step == c.plan[Len(c.ran) + 1]
         IN {[c EXCEPT !.ran = Append(@, [step |-> step, end |-> end, said |-> Report(end)]),
                       !.over = ~GoesOn(step, end) \/ Len(c.ran) + 1 = Len(c.plan)] : end \in Ends}

(* "The build runs first: there is nothing to learn from a test run that     *)
(* could not compile" (project_check.rs:190): tests ran after a build that   *)
(* passed, or after one whose program is not there or whose failure reads    *)
(* like a test runner's; and a build that is there is never passed over.     *)
TestsFollowBuild(c) ==
    \A i \in DOMAIN c.ran : c.ran[i].step.kind = "tests" =>
        /\ \A j \in 1..i - 1 : c.ran[j].end \in {"zero", "missing", "five", "unimportable"}
        /\ c.folder \intersect {"build", "typecheck"} # {} => i > 1

(* Only a step that exited with 0 in time is reported as passed, and a check *)
(* that is over has run every step or says which one kept it.                *)
PassIsReal(c) ==
    /\ \A i \in DOMAIN c.ran : c.ran[i].said = "passed" => c.ran[i].end = "zero"
    /\ c.over /\ Len(c.ran) < Len(c.plan) =>
          c.ran # <<>> /\ Last(c.ran).said \in {"problems", "could not run"}

(* "No build or test command was found here: no package.json with a build or *)
(* test script, no Cargo.toml, no go.mod, and no Python tests" is the truth, *)
(* unless a package.json without scripts stands before them.                 *)
NothingFoundIsTrue(c) ==
    c.plan = <<>> => c.folder = {} \/ "package.json" \in c.folder

ProjectCheckHolds(c) == TestsFollowBuild(c) /\ PassIsReal(c) /\ NothingFoundIsTrue(c)
=============================================================================
