----------------------------- MODULE Knowledge ------------------------------
(***************************************************************************)
(* The local knowledge of a workspace (api.rs, ingest_knowledge): files    *)
(* are cut into overlapping chunks that a chat can be given.  And the      *)
(* index of its files, which is built again when the folder's time of      *)
(* change is another (cached_repo_index).                                  *)
(*                                                                         *)
(* A text is a sequence of characters, "x" or a blank "_".                 *)
(*                                                                         *)
(* A definition named ..._Wrong is the one after it with one mistake; no   *)
(* specification uses it.                                                  *)
(***************************************************************************)
EXTENDS Integers, Sequences, FiniteSetsExt, Functions

CONSTANT MaxClock \* bound: seconds, and changes of the folder's top level

Size == 4                      \* 800
Overlap == 1                   \* 100
MaxChunks == 3                 \* 200 of a file
MaxFiles == 2                  \* 50 of an ingest

Least(m, n) == IF m < n THEN m ELSE n
Blank(piece) == \A i \in DOMAIN piece : piece[i] = "_"

\* chunk_text: where the pieces begin, and the pieces that are not blank.
Begins_Wrong(length) == {b \in 1..length : (b - 1) % Size = 0}

Begins(length) ==
    {b \in 1..length : (b - 1) % (Size - Overlap) = 0 /\ (b = 1 \/ b - 1 + Overlap < length)}

ChunkText(text) ==
    LET pieces == [n \in 1..Cardinality(Begins(Len(text))) |->
                      LET b == CHOOSE b \in Begins(Len(text)) :
                                  Cardinality({c \in Begins(Len(text)) : c < b}) = n - 1
                      IN [from |-> b, text |-> SubSeq(text, b, Least(b + Size - 1, Len(text)))]]
    IN SelectSeq(pieces, LAMBDA piece : ~Blank(piece.text))

(* Every run of characters no longer than the overlap and one more is whole  *)
(* in one chunk, so a phrase cut at the end of one begins the next; and no   *)
(* chunk is longer than it may be.                                           *)
ChunksOverlap(text) ==
    LET chunks == ChunkText(text) IN
    /\ \A i \in DOMAIN text : text[i] # "_" =>
          \A width \in 1..Overlap + 1 : i + width - 1 <= Len(text) =>
              \E n \in DOMAIN chunks :
                  chunks[n].from <= i /\ i + width - 1 <= chunks[n].from + Len(chunks[n].text) - 1
    /\ \A n \in DOMAIN chunks : Len(chunks[n].text) <= Size

Texts == UNION {[1..n -> {"x", "_"}] : n \in 0..9}

-----------------------------------------------------------------------------
(* Ingesting.  A file has a version and is "text" with some chunks, "big"    *)
(* (over 2,000,000 bytes) or "binary"; the index maps a path to the version  *)
(* its chunks are of and how many there are.                                 *)

Paths == <<"p1", "p2", "p3">>  \* in the order of the walk
MaxVersions == 3
PathSet == {"p1", "p2", "p3"}

File(version, kind, chunks) == [version |-> version, kind |-> kind, chunks |-> chunks]
New == [disk |-> [p \in {"p1", "p2", "p3"} |-> File(1, "text", 2)], index |-> <<>>, next |-> 2, whole |-> {}]

DiskSteps(k) ==
    IF k.next > MaxVersions THEN {}
    ELSE {[k EXCEPT !.disk[p] = File(k.next, kind, chunks), !.next = @ + 1] :
             p \in DOMAIN k.disk, kind \in {"text", "big", "binary"}, chunks \in {0, 4}}
         \union {[k EXCEPT !.disk = Restrict(@, DOMAIN @ \ {p})] : p \in DOMAIN k.disk}

\* One file: skipped, or its old chunks removed and its first ones added.
Stored_Wrong(index, path, version, chunks) ==
    [p \in DOMAIN index \union {path} |->
        IF p # path THEN index[p]
        ELSE [version |-> version,
              chunks |-> chunks + (IF path \in DOMAIN index THEN index[path].chunks ELSE 0)]]

Stored(index, path, version, chunks) ==
    IF chunks = 0 THEN Restrict(index, DOMAIN index \ {path})
    ELSE [p \in DOMAIN index \union {path} |->
             IF p = path THEN [version |-> version, chunks |-> chunks] ELSE index[p]]

IngestFile(k, path) ==
    LET file == k.disk[path] IN
    IF file.kind # "text" THEN k
    ELSE [k EXCEPT !.index = Stored(@, path, file.version, Least(file.chunks, MaxChunks)),
                   !.whole = @ \union {path}]

\* The first files of the folder, all of them under the storage lock.
Taken(k) == {p \in DOMAIN k.disk :
                Cardinality({i \in DOMAIN Paths : Paths[i] \in DOMAIN k.disk
                                /\ \E j \in DOMAIN Paths : Paths[j] = p /\ i < j}) < MaxFiles}
IngestAll(k, paths) == FoldSet(LAMBDA path, stored : IngestFile(stored, path), k, paths)

\* The app ends while the chunks of a file are being added, one by one.
Crash(k, path) ==
    LET file == k.disk[path] IN
    IF file.kind # "text" THEN {}
    ELSE {[k EXCEPT !.index = Stored(@, path, file.version, n), !.whole = @ \ {path}] :
             n \in 0..Least(file.chunks, MaxChunks)}

Next(k) ==
    DiskSteps(k)
    \union {IngestFile(k, p) : p \in DOMAIN k.disk} \union {IngestAll(k, Taken(k))}
    \union UNION {Crash(k, p) : p \in DOMAIN k.disk}

(* The chunks of a path are the first ones of one version of its file, all   *)
(* that are kept unless the app ended in the middle; those of a file that is *)
(* gone, too big or no longer text stay as they are (ingest_knowledge).      *)
OneVersionEach(k) ==
    \A p \in DOMAIN k.index :
        /\ k.index[p].version < k.next
        /\ p \in k.whole /\ p \in DOMAIN k.disk /\ k.disk[p].version = k.index[p].version =>
              k.index[p].chunks = Least(k.disk[p].chunks, MaxChunks)

-----------------------------------------------------------------------------
(* The cached index.  The folder has a top level (top), and a time of change *)
(* that tells it (mtime); clock counts the seconds.                          *)

Idle == [mtime |-> -1, top |-> -1, clock |-> 0]
NewFolder == [top |-> 0, mtime |-> 0, clock |-> 1, cache |-> [mtime |-> -1, top |-> -1], building |-> Idle, seconds |-> {}]

Tick(f) == IF f.clock = MaxClock THEN {} ELSE {[f EXCEPT !.clock = @ + 1]}
Touch(f) == IF f.top > MaxClock THEN {} ELSE {[f EXCEPT !.top = @ + 1, !.mtime = f.clock]}

\* The time is read first, then the folder is walked, then both are kept.
BeginBuild(f) ==
    IF f.building # Idle \/ f.cache.mtime = f.mtime THEN {}
    ELSE {[f EXCEPT !.building = [mtime |-> f.mtime, top |-> f.top, clock |-> f.clock]]}
EndBuild_Wrong(f) ==
    IF f.building = Idle THEN {}
    ELSE {[f EXCEPT !.cache = [mtime |-> f.mtime, top |-> top], !.building = Idle,
                    !.seconds = {f.clock}] : top \in f.building.top..f.top}

EndBuild(f) ==
    IF f.building = Idle THEN {}
    ELSE {[f EXCEPT !.cache = [mtime |-> f.building.mtime, top |-> top], !.building = Idle,
                    !.seconds = f.building.clock..f.clock] : top \in f.building.top..f.top}

NextFolder(f) == Tick(f) \union Touch(f) \union BeginBuild(f) \union EndBuild(f)

(* An index that is answered with tells the top level as it is, unless the   *)
(* folder changed in a second in which it was being walked                   *)
(* (cached_repo_index reads the time before it walks).                       *)
TopIsFresh(f) ==
    f.cache.mtime = f.mtime => f.cache.top = f.top \/ f.mtime \in f.seconds
=============================================================================
