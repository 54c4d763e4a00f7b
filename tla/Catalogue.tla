------------------------------ MODULE Catalogue ------------------------------
(***************************************************************************)
(* The list of models (models.rs): what a scan finds in the models folder, *)
(* how the list is reconciled with it, and what loading and deleting do to *)
(* both.                                                                   *)
(*                                                                         *)
(* The models folder holds the file "root" and one folder with the files   *)
(* "a", "b", the two halves "s1" and "s2" of a split set, two projectors   *)
(* and perhaps a metadata.json (meta).  A file is whole, "tail" when it is *)
(* cut inside its last tensor, or "cut" when more is missing.  A catalogue *)
(* c is the disk, the list (models: an entry for every id) and the id of   *)
(* the loaded model, with the scan a request has made and not used yet.    *)
(*                                                                         *)
(* A definition named ..._Wrong is the one after it with one mistake; no   *)
(* specification uses it.                                                  *)
(***************************************************************************)
EXTENDS Functions

Weights == {"a", "b", "s1", "s2"}
Projectors == {"p1", "p2"}
None == "none"
Kinds == {"whole", "tail", "cut"}

\* What metadata.json says: an id and perhaps a file ("" for model.gguf).
Metas == [folder |-> [id |-> "dir", file |-> ""], bound |-> [id |-> "dir", file |-> "a"],
          clash |-> [id |-> "root", file |-> "a"]]

There(disk, f) == f \in DOMAIN disk.files
Single(S) == \E x \in S : S = {x}

-----------------------------------------------------------------------------
(* The scan (scan_models_dir).                                               *)

\* complete_model_file: a set is its first half, if every half is there.
Complete(disk, f) == f # "s2" /\ (f = "s1" => There(disk, "s2"))

\* parse_gguf_header: the last tensor has to begin inside the file.
HasHeader(disk, f) == disk.files[f] # "cut"

\* checked_header
Checked(disk, f) == There(disk, f) /\ Complete(disk, f) /\ HasHeader(disk, f)

\* projector_in: only an unambiguous one.
ProjectorIn(disk) ==
    LET there == {p \in Projectors : There(disk, p)}
    IN IF Single(there) THEN CHOOSE p \in there : TRUE ELSE None

Entry(id, f, projector) == [id |-> id, file |-> f, projector |-> projector]

\* A folder without metadata.json: one model is named after the folder, and
\* each of several after the folder and its file.
NamedAfter == [a |-> "dir-a", b |-> "dir-b", s1 |-> "dir-s1", s2 |-> "dir-s2"]
Candidates(disk) == {f \in Weights : Checked(disk, f)}
Inferred(disk) ==
    LET alone == Single(Candidates(disk))
    IN {Entry(IF alone THEN "dir" ELSE NamedAfter[f], f, ProjectorIn(disk)) : f \in Candidates(disk)}

\* A folder with one: the file it names, or the only set that is complete.
Described(disk) ==
    LET meta == Metas[disk.meta]
        complete == {f \in Weights : There(disk, f) /\ Complete(disk, f)}
        file == IF There(disk, meta.file) THEN meta.file
                ELSE IF meta.file = "" /\ Single(complete) THEN CHOOSE f \in complete : TRUE
                ELSE None
    IN IF file # None /\ Checked(disk, file) THEN {Entry(meta.id, file, ProjectorIn(disk))} ELSE {}

\* Of two models with one id the first stays: the folder's, by its name.
Scan(disk) ==
    LET folder == IF disk.meta = None THEN Inferred(disk) ELSE Described(disk)
        root == IF Checked(disk, "root") THEN {Entry("root", "root", None)} ELSE {}
    IN folder \union {e \in root : \A other \in folder : other.id # e.id}

-----------------------------------------------------------------------------
(* The list (ModelManager).                                                  *)

\* register: the file of a loaded model is not replaced under it.
Refused(c, e) == c.current = e.id /\ e.id \in DOMAIN c.models /\ c.models[e.id].file # e.file

\* register, for every model that was found.
Registered(c, found) ==
    LET accepted == {e \in found : ~Refused(c, e)}
        ids == {e.id : e \in accepted}
    IN [id \in DOMAIN c.models \union ids |->
           IF id \in ids THEN CHOOSE e \in accepted : e.id = id ELSE c.models[id]]

Reconcile_Wrong(c, found) ==
    LET models == Registered(c, found)
    IN [c EXCEPT !.models = Restrict(models, {id \in DOMAIN models :
                    \/ \E e \in found : e.id = id
                    \/ There(c.disk, models[id].file)})]

Reconcile(c, found) ==
    LET models == Registered(c, found)
    IN [c EXCEPT !.models = Restrict(models, {id \in DOMAIN models :
                    \/ \E e \in found : e.id = id
                    \/ id = c.current
                    \/ There(c.disk, models[id].file)})]

-----------------------------------------------------------------------------
(* Steps.                                                                    *)

New(disk) == [disk |-> disk, models |-> <<>>, current |-> None, scan |-> {}, scanned |-> FALSE,
              fresh |-> FALSE, last |-> <<>>]
Moved(c) == [c EXCEPT !.fresh = FALSE]

\* Somebody copies, cuts short or removes a file, or writes a metadata.json.
DiskSteps(c) ==
    {Moved([c EXCEPT !.disk.files = [g \in DOMAIN @ \union {f} |-> IF g = f THEN kind ELSE @[g]]]) :
        f \in Weights \union {"root"} \union Projectors, kind \in Kinds}
    \union {Moved([c EXCEPT !.disk.files = Restrict(@, DOMAIN @ \ {f})]) : f \in DOMAIN c.disk.files}
    \union {Moved([c EXCEPT !.disk.meta = meta]) : meta \in DOMAIN Metas \union {None}}

\* GET /models and POST /models/scan: the scan, and then the list, which
\* another request may have brought up to date in between.
BeginList(c) == [c EXCEPT !.scan = Scan(c.disk), !.scanned = TRUE]
EndList(c) == [Reconcile(c, c.scan) EXCEPT !.fresh = c.scan = Scan(c.disk), !.scanned = FALSE, !.scan = {}]
ListAtOnce(c) == [Reconcile(c, Scan(c.disk)) EXCEPT !.fresh = TRUE]

\* switch_to, after the server has started with the file.
Load(c, id) == Moved([c EXCEPT !.current = id, !.last = c.models[id]])
Unload(c) == Moved([c EXCEPT !.current = None])

\* delete_model: the one file of the entry, unloaded first.
Delete(c, id) ==
    Moved([c EXCEPT !.current = IF @ = id THEN None ELSE @,
                    !.disk.files = Restrict(@, DOMAIN @ \ {c.models[id].file}),
                    !.models = Restrict(@, DOMAIN @ \ {id})])

Next(c) ==
    DiskSteps(c)
    \union (IF c.scanned THEN {EndList(c)} ELSE {BeginList(c)})
    \union {ListAtOnce(c)}
    \union {Load(c, id) : id \in {id \in DOMAIN c.models :
                              There(c.disk, c.models[id].file) /\ c.disk.files[c.models[id].file] = "whole"}}
    \union (IF c.current = None THEN {} ELSE {Unload(c)})
    \union {Delete(c, id) : id \in {id \in DOMAIN c.models : There(c.disk, c.models[id].file)}}

Disks ==
    {[files |-> files, meta |-> meta] : meta \in {None, "folder"},
        files \in {[f \in {"root"} |-> "whole"], [f \in {"a", "p1"} |-> "whole"], [f \in {"s1", "s2"} |-> "whole"]}}
    \union {[files |-> [f \in {"root", "a"} |-> "whole"], meta |-> "clash"]}

-----------------------------------------------------------------------------
(* Once a request has listed the models as they are, every model found is    *)
(* on the list, under an id of its own, and every model on the list but the  *)
(* loaded one has its file (reconcile, scan_models_dir).                     *)
ListIsTrue(c) ==
    c.fresh =>
        /\ \A e \in Scan(c.disk) : e.id \in DOMAIN c.models /\ (c.models[e.id] = e \/ e.id = c.current)
        /\ \A e, f \in Scan(c.disk) : e.id = f.id => e = f
        /\ \A id \in DOMAIN c.models : id # c.current => There(c.disk, c.models[id].file)

(* And no file is on the list twice, unless its model has changed its name:  *)
(* with a second file in the folder, or with a metadata.json, the entry      *)
(* under the old id stays for as long as the file is there.  The loaded      *)
(* model's stays, too, when its id is now that of another file.              *)
Renamed(c, id) == \A e \in Scan(c.disk) : e.id # id
Displaced(c, id) ==
    id = c.current /\ \E e \in Scan(c.disk) : e.id = id /\ e.file # c.models[id].file
FilesAreOnce(c) ==
    c.fresh => \A i, j \in DOMAIN c.models :
                  i # j /\ c.models[i].file = c.models[j].file =>
                      \E id \in {i, j} : Renamed(c, id) \/ Displaced(c, id)

(* A loaded model stays on the list, with the file it was loaded from        *)
(* (ModelManager::register).                                                 *)
LoadedStays(c) ==
    c.current # None => c.current \in DOMAIN c.models /\ c.models[c.current].file = c.last.file

(* What the scan offers can be loaded: all of its bytes are there.  A file   *)
(* cut inside its last tensor is not told from a whole one, nor is a split   *)
(* set whose other halves are cut (parse_gguf_header, complete_model_file).  *)
OffersAreWhole(c) ==
    \A e \in Scan(c.disk) :
        /\ c.disk.files[e.file] \in {"whole", "tail"}
        /\ e.file = "s1" => There(c.disk, "s2")
        /\ e.projector # None => There(c.disk, e.projector) /\ \A p \in Projectors : There(c.disk, p) => p = e.projector

CatalogueHolds(c) ==
    /\ ListIsTrue(c)
    /\ FilesAreOnce(c)
    /\ LoadedStays(c)
    /\ OffersAreWhole(c)
=============================================================================
