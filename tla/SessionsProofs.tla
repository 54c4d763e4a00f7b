----------------------------- MODULE SessionsProofs -----------------------------
(***************************************************************************)
(* Proofs about Sessions, for any number of conversations, projects, file  *)
(* names, workers and messages, and any operations to come: a summary is   *)
(* of the messages it stands for, a run works in the project of its        *)
(* session, a task that goes on is over, and an attachment has its bytes.  *)
(*                                                                         *)
(* SInv, the inductive invariant, says beside the types: of the ids, that  *)
(* none is to come; of a compaction, that what it folds is what it         *)
(* replaces; of a run, that its session still has its question; of a       *)
(* saved task, that a status that is not "active" was written by a run     *)
(* that recorded it; of a fork, that the bytes of its rows are still those *)
(* of its source.  And the artifacts of a conversation (Documents) for any *)
(* number of files, and the index of a folder (Knowledge) for any time.    *)
(***************************************************************************)
EXTENDS Sessions, Integers, SequenceTheorems, TLAPS

Ongoing ==
    [pc : {"replying", "done"}, conv : Convs]
    \union [pc : {"summarizing"}, conv : Convs, source : Seq(Messages), of : Seq(Messages)]
    \union [pc : {"copying"}, conv : Convs, source : Convs]
Runs ==
    [pc : {"resolving"}, conv : Convs, project : Projects, saved : Saved \union {None}]
    \union [pc : {"admitted"}, conv : Convs, project : Projects, resumes : Workers \union {None}]
    \union [pc : {"asked"}, conv : Convs, project : Projects, resumes : Workers \union {None},
            code : BOOLEAN]
    \union [pc : {"placed", "registered"}, conv : Convs, project : Projects,
            resumes : Workers \union {None}, code : BOOLEAN, message : Nat]
    \union [pc : {"over"}, conv : Convs, message : Nat, outcome : Outcomes]
    \union [pc : {"recorded"}, conv : Convs, outcome : Outcomes]
States == {Idle} \union Ongoing \union Runs
Rows == [conv : Convs, name : Names, bytes : Nat, spoilt : BOOLEAN]

TypeOK ==
    /\ scene \in [operations : SUBSET Operations, workers : Nat]
    /\ conversations \in [Convs -> Conversations]
    /\ messages \in [Convs -> Seq(Messages)]
    /\ summaries \in [Convs -> Summaries \union {None}]
    /\ task \in [Convs -> Saved \union {None}]
    /\ workspaces \in [Projects -> {"new", "registered", "removed"}]
    /\ attachments \in SUBSET Rows
    /\ files \in [Convs -> [Names -> Nat \union {None}]]
    /\ worker \in [Workers -> States]
    /\ fresh \in Nat
    /\ edits \in Nat

(* An id is used once.                                                       *)
Numbered == \A c \in Convs : \A i \in 1..Len(messages[c]) : messages[c][i].id < fresh

(* What a summary covers is what it was made of, and no message to come can   *)
(* make it cover more than that.                                             *)
StandsFor(s, m) ==
    /\ Len(s.ids) > 0
    /\ \A i \in 1..Len(s.ids) : s.ids[i] < fresh
    /\ IsPrefix(s.ids, Ids(m)) => s.of = SubSeq(m, 1, Len(s.ids))

Standing ==
    \A c \in Convs : summaries[c] # None =>
        conversations[c].status # "new" /\ StandsFor(summaries[c], messages[c])
Folding ==
    \A w \in Workers : worker[w].pc = "summarizing" =>
        /\ conversations[worker[w].conv].status # "new"
        /\ Len(worker[w].source) > 0
        /\ worker[w].of = worker[w].source
Summarized == Standing /\ Folding

(* A run of a code session, from the user's message on: its session is in its *)
(* project and has the message, unless one of the two is gone.               *)
Fits(c, p) ==
    /\ workspaces[p] # "new"
    /\ conversations[c].status # "new"
    /\ conversations[c].workspace = p \/ ~Live(c) \/ p \notin Registered
    /\ ~Live(c) \/ messages[c] # <<>>
Asking(w) == worker[w].pc \in {"asked", "placed", "registered"}

Placed == \A w \in Workers : Asking(w) /\ worker[w].code => Fits(worker[w].conv, worker[w].project)

(* A task whose status is known was recorded by its run.                     *)
Recorded(saved) == saved # None /\ saved.status # "active" => worker[saved.run].pc = "recorded"

Resumed ==
    /\ \A c \in Convs : Recorded(task[c])
    /\ \A w \in Workers : worker[w].pc = "resolving" => Recorded(worker[w].saved)
    /\ ContinuesWhatIsOver

(* A name used twice is spoilt, a fork is copied by one worker, from files    *)
(* that are the ones its rows are about.                                     *)
Copying(w) == worker[w].pc = "copying"
Onto(c) == \E v \in Workers : Copying(v) /\ worker[v].conv = c

Apart ==
    /\ \A a, b \in attachments : a.conv = b.conv /\ a.name = b.name => a = b \/ a.spoilt
    /\ \A a \in attachments : conversations[a.conv].status # "new"
Forking ==
    /\ \A w \in Workers : Copying(w) =>
          /\ conversations[worker[w].conv].status # "new"
          /\ conversations[worker[w].source].status # "new"
          /\ worker[w].conv # worker[w].source
    /\ \A v, w \in Workers : Copying(v) /\ Copying(w) /\ worker[v].conv = worker[w].conv => v = w
Sourced ==
    \A w \in Workers : Copying(w) => \A a \in attachments :
        a.conv = worker[w].conv /\ ~a.spoilt =>
           files[worker[w].source][a.name] = a.bytes /\ ~Onto(worker[w].source)

Attached == Apart /\ Forking /\ Sourced /\ AttachmentsHaveTheirBytes

SInv == TypeOK /\ Numbered /\ Summarized /\ Placed /\ Resumed /\ Attached

(* What a step does to the messages of a conversation: it adds some, it takes *)
(* them all with the conversation, or it drops the summary.                   *)
Lengthened(c) ==
    /\ Len(messages[c]) <= Len(messages'[c])
    /\ \A i \in 1..Len(messages[c]) : messages'[c][i] = messages[c][i]
    /\ \A i \in 1..Len(messages'[c]) : i > Len(messages[c]) => fresh <= messages'[c][i].id

Grown ==
    /\ messages' \in [Convs -> Seq(Messages)] /\ fresh' \in Nat /\ fresh <= fresh'
    /\ Numbered'
    /\ \A c \in Convs : Lengthened(c)

History ==
    /\ messages' \in [Convs -> Seq(Messages)] /\ fresh' \in Nat /\ fresh <= fresh'
    /\ Numbered'
    /\ \A c \in Convs :
          \/ Lengthened(c)
          \/ messages'[c] = <<>> /\ ~Live(c)'
          \/ summaries'[c] = None /\ (messages'[c] # <<>> \/ messages[c] = <<>>)
          \/ summaries'[c] = summaries[c] /\ conversations[c].status = "new"

(* What a step does to the conversations: none is new again, none comes back. *)
Aged ==
    /\ conversations' \in [Convs -> Conversations]
    /\ \A c \in Convs : conversations[c].status # "new" =>
          conversations'[c].status # "new" /\ (Live(c)' => Live(c))

-----------------------------------------------------------------------------
(* The messages.                                                             *)

LEMMA Sequence ==
    ASSUME NEW S, NEW n \in Nat, NEW f \in [1..n -> S]
    PROVE  f \in Seq(S) /\ Len(f) = n
<1>1. f \in Seq(S)
  BY SeqDef
<1>2. Len(f) \in Nat /\ DOMAIN f = 1..Len(f)
  BY <1>1, LenProperties
<1>3. DOMAIN f = 1..n
  OBVIOUS
<1> QED
  BY <1>1, <1>2, <1>3

LEMMA IdsType ==
    \A s \in Seq(Messages) :
        /\ Ids(s) \in Seq(Nat) /\ Len(Ids(s)) = Len(s)
        /\ \A i \in 1..Len(s) : Ids(s)[i] = s[i].id
<1> SUFFICES ASSUME NEW s \in Seq(Messages)
             PROVE  /\ Ids(s) \in Seq(Nat) /\ Len(Ids(s)) = Len(s)
                    /\ \A i \in 1..Len(s) : Ids(s)[i] = s[i].id
  OBVIOUS
<1>1. Ids(s) \in [1..Len(s) -> Nat]
  <2>1. \A i \in 1..Len(s) : s[i].id \in Nat
    <3>1. \A i \in 1..Len(s) : s[i] \in Messages
      BY ElementOfSeq
    <3> QED
      BY <3>1 DEF Messages
  <2> QED
    BY <2>1 DEF Ids
<1>2. Len(s) \in Nat
  OBVIOUS
<1>3. \A i \in 1..Len(s) : Ids(s)[i] = s[i].id
  BY DEF Ids
<1> QED
  BY <1>1, <1>2, <1>3, Sequence

LEMMA PrefixIs ==
    \A S : \A s, t \in Seq(S) :
        IsPrefix(s, t) <=> Len(s) <= Len(t) /\ \A i \in 1..Len(s) : s[i] = t[i]
<1> SUFFICES ASSUME NEW S, NEW s \in Seq(S), NEW t \in Seq(S)
             PROVE  IsPrefix(s, t) <=> Len(s) <= Len(t) /\ \A i \in 1..Len(s) : s[i] = t[i]
  OBVIOUS
<1>1. SubSeq(s, 1, Len(s)) = s
  OBVIOUS
<1>2. ASSUME Len(s) <= Len(t)
      PROVE  /\ SubSeq(t, 1, Len(s)) \in Seq(S) /\ Len(SubSeq(t, 1, Len(s))) = Len(s)
             /\ \A i \in 1..Len(s) : SubSeq(t, 1, Len(s))[i] = t[i]
  BY <1>2
<1>3. ASSUME Len(s) <= Len(t), \A i \in 1..Len(s) : s[i] = t[i]
      PROVE  s = SubSeq(t, 1, Len(s))
  BY <1>2, <1>3, SeqEqual
<1> QED
  BY <1>1, <1>2, <1>3 DEF IsPrefix

LEMMA UpdatedIs ==
    ASSUME TypeOK
    PROVE  \A c \in Convs, id \in Nat :
               /\ Updated(c, id) \in Seq(Messages) /\ Len(Updated(c, id)) = Len(messages[c])
               /\ \A i \in 1..Len(messages[c]) : Updated(c, id)[i].id = messages[c][i].id
<1> SUFFICES ASSUME NEW c \in Convs, NEW id \in Nat
             PROVE  /\ Updated(c, id) \in Seq(Messages)
                    /\ Len(Updated(c, id)) = Len(messages[c])
                    /\ \A i \in 1..Len(messages[c]) : Updated(c, id)[i].id = messages[c][i].id
  OBVIOUS
<1>1. messages[c] \in Seq(Messages) /\ Len(messages[c]) \in Nat
  BY DEF TypeOK
<1>2. ASSUME NEW m \in Messages
      PROVE  LET n == [m EXCEPT !.ver = @ + 1] IN n \in Messages /\ n.id = m.id
  BY DEF Messages
<1>3. \A i \in 1..Len(messages[c]) :
          /\ Updated(c, id)[i] \in Messages
          /\ Updated(c, id)[i].id = messages[c][i].id
  BY <1>1, <1>2 DEF Updated
<1>4. Updated(c, id) \in [1..Len(messages[c]) -> Messages]
  BY <1>3 DEF Updated
<1> QED
  BY <1>1, <1>3, <1>4, Sequence

LEMMA CopiesIs ==
    ASSUME TypeOK
    PROVE  \A c \in Convs :
               /\ Copies(c) \in Seq(Messages) /\ Len(Copies(c)) = Len(messages[c])
               /\ \A i \in 1..Len(messages[c]) : Copies(c)[i].id = fresh + i
<1> SUFFICES ASSUME NEW c \in Convs
             PROVE  /\ Copies(c) \in Seq(Messages) /\ Len(Copies(c)) = Len(messages[c])
                    /\ \A i \in 1..Len(messages[c]) : Copies(c)[i].id = fresh + i
  OBVIOUS
<1>1. messages[c] \in Seq(Messages) /\ Len(messages[c]) \in Nat
  BY DEF TypeOK
<1>2. Copies(c) \in [1..Len(messages[c]) -> Messages]
  <2>1. \A i \in 1..Len(messages[c]) : messages[c][i].ver \in Nat /\ fresh + i \in Nat
    <3>1. \A i \in 1..Len(messages[c]) : messages[c][i] \in Messages
      BY <1>1, ElementOfSeq
    <3>2. \A i \in 1..Len(messages[c]) : i \in Nat /\ fresh \in Nat
      BY <1>1 DEF TypeOK
    <3> QED
      BY <3>1, <3>2 DEF Messages
  <2> QED
    BY <2>1 DEF Copies, Messages
<1>3. \A i \in 1..Len(messages[c]) : Copies(c)[i].id = fresh + i
  BY DEF Copies
<1> QED
  BY <1>1, <1>2, <1>3, Sequence

LEMMA AddedIs ==
    ASSUME TypeOK
    PROVE  \A c \in Convs : Added(c) \in [Convs -> Seq(Messages)]
BY DEF TypeOK, Added, Message, Messages

-----------------------------------------------------------------------------
(* The types.                                                                *)

LEMMA Kinds ==
    ASSUME TypeOK
    PROVE  \A w \in Workers :
        /\ worker[w].pc = "replying" => worker[w] \in [pc : {"replying"}, conv : Convs]
        /\ worker[w].pc = "summarizing" =>
              worker[w] \in [pc : {"summarizing"}, conv : Convs, source : Seq(Messages),
                            of : Seq(Messages)]
        /\ worker[w].pc = "copying" =>
              worker[w] \in [pc : {"copying"}, conv : Convs, source : Convs]
        /\ worker[w].pc = "resolving" =>
              worker[w] \in [pc : {"resolving"}, conv : Convs, project : Projects,
                            saved : Saved \union {None}]
        /\ worker[w].pc = "admitted" =>
              worker[w] \in [pc : {"admitted"}, conv : Convs, project : Projects,
                            resumes : Workers \union {None}]
        /\ worker[w].pc = "asked" =>
              worker[w] \in [pc : {"asked"}, conv : Convs, project : Projects,
                            resumes : Workers \union {None}, code : BOOLEAN]
        /\ worker[w].pc \in {"placed", "registered"} =>
              worker[w] \in [pc : {"placed", "registered"}, conv : Convs, project : Projects,
                            resumes : Workers \union {None}, code : BOOLEAN, message : Nat]
        /\ worker[w].pc = "over" =>
              worker[w] \in [pc : {"over"}, conv : Convs, message : Nat, outcome : Outcomes]
        /\ worker[w].pc = "recorded" =>
              worker[w] \in [pc : {"recorded"}, conv : Convs, outcome : Outcomes]
BY DEF TypeOK, States, Ongoing, Runs, Idle

-----------------------------------------------------------------------------
(* What is added to a conversation is new to it.                             *)

LEMMA Messaged ==
    SInv => \A c \in Convs :
        /\ messages[c] \in Seq(Messages) /\ Len(messages[c]) \in Nat /\ fresh \in Nat
        /\ \A i \in 1..Len(messages[c]) :
              messages[c][i] \in Messages /\ messages[c][i].id \in Nat /\ messages[c][i].id < fresh
<1> SUFFICES ASSUME SInv, NEW c \in Convs
             PROVE  /\ messages[c] \in Seq(Messages) /\ Len(messages[c]) \in Nat /\ fresh \in Nat
                    /\ \A i \in 1..Len(messages[c]) :
                          /\ messages[c][i] \in Messages /\ messages[c][i].id \in Nat
                          /\ messages[c][i].id < fresh
  OBVIOUS
<1>1. messages[c] \in Seq(Messages) /\ Len(messages[c]) \in Nat /\ fresh \in Nat
  BY DEF SInv, TypeOK
<1>2. \A i \in 1..Len(messages[c]) : messages[c][i] \in Messages
  BY <1>1, ElementOfSeq
<1> QED
  BY <1>1, <1>2 DEF SInv, Numbered, Messages

\* One conversation has more messages, numbered from fresh on.
LEMMA Lengthen ==
    SInv => \A c \in Convs :
        /\ messages' \in [Convs -> Seq(Messages)] /\ fresh' \in {fresh + 1, fresh + 2}
        /\ \A d \in Convs : d # c => messages'[d] = messages[d]
        /\ Len(messages[c]) <= Len(messages'[c])
        /\ \A i \in 1..Len(messages[c]) : messages'[c][i] = messages[c][i]
        /\ \A i \in 1..Len(messages'[c]) :
              i > Len(messages[c]) => fresh <= messages'[c][i].id /\ messages'[c][i].id < fresh'
        => Grown
<1> SUFFICES ASSUME SInv, NEW c \in Convs,
                    messages' \in [Convs -> Seq(Messages)], fresh' \in {fresh + 1, fresh + 2},
                    \A d \in Convs : d # c => messages'[d] = messages[d],
                    Len(messages[c]) <= Len(messages'[c]),
                    \A i \in 1..Len(messages[c]) : messages'[c][i] = messages[c][i],
                    \A i \in 1..Len(messages'[c]) :
                       i > Len(messages[c]) => fresh <= messages'[c][i].id /\ messages'[c][i].id < fresh'
             PROVE  Grown
  OBVIOUS
<1>1. fresh \in Nat /\ fresh' \in Nat /\ fresh < fresh'
  BY Messaged
<1>2. ASSUME NEW d \in Convs PROVE Lengthened(d)
  <2>1. CASE d = c
    BY <2>1 DEF Lengthened
  <2>2. CASE d # c
    BY <2>2, Messaged DEF Lengthened
  <2> QED
    BY <2>1, <2>2
<1>3. ASSUME NEW d \in Convs, NEW i \in 1..Len(messages'[d]) PROVE messages'[d][i].id < fresh'
  <2>1. CASE d = c /\ i > Len(messages[c])
    BY <2>1
  <2>2. CASE i \in 1..Len(messages[d])
    <3>1. messages'[d][i] = messages[d][i]
      BY <1>2, <2>2 DEF Lengthened
    <3>2. messages[d][i].id \in Nat /\ messages[d][i].id < fresh
      BY <2>2, Messaged
    <3> QED
      BY <1>1, <3>1, <3>2
  <2>3. i \in Nat /\ i >= 1 /\ Len(messages[d]) \in Nat
    BY Messaged
  <2>4. d # c => i \in 1..Len(messages[d])
    BY <2>3
  <2> QED
    BY <2>1, <2>2, <2>3, <2>4
<1> QED
  BY <1>1, <1>2, <1>3 DEF Grown, Numbered

LEMMA AddedGrows ==
    SInv => \A c \in Convs : messages' = Added(c) /\ fresh' = fresh + 1 => Grown
<1> SUFFICES ASSUME SInv, NEW c \in Convs, messages' = Added(c), fresh' = fresh + 1
             PROVE  Grown
  OBVIOUS
<1>1. messages \in [Convs -> Seq(Messages)] /\ fresh \in Nat /\ Numbered
  BY DEF SInv, TypeOK
<1>2. Message(fresh) \in Messages /\ Message(fresh).id = fresh
  BY <1>1 DEF Message, Messages
<1>3. messages' \in [Convs -> Seq(Messages)]
  BY <1>1, <1>2 DEF Added
<1>4. \A d \in Convs : d # c => messages'[d] = messages[d]
  BY <1>1 DEF Added
<1>5. /\ Len(messages'[c]) = Len(messages[c]) + 1
      /\ messages'[c][Len(messages[c]) + 1] = Message(fresh)
      /\ \A i \in 1..Len(messages[c]) : messages'[c][i] = messages[c][i]
  BY <1>1, <1>2 DEF Added
<1>6. \A i \in 1..Len(messages'[c]) : i > Len(messages[c]) => fresh <= messages'[c][i].id /\ messages'[c][i].id < fresh'
  BY <1>1, <1>2, <1>5, Messaged
<1> QED
  BY <1>1, <1>3, <1>4, <1>5, <1>6, Lengthen

LEMMA TwoAddedGrow ==
    SInv => \A c \in Convs :
        /\ messages' = [messages EXCEPT ![c] = @ \o <<Message(fresh), Message(fresh + 1)>>]
        /\ fresh' = fresh + 2
        => Grown
<1> DEFINE both == <<Message(fresh), Message(fresh + 1)>>
<1> SUFFICES ASSUME SInv, NEW c \in Convs, fresh' = fresh + 2,
                    messages' = [messages EXCEPT ![c] = @ \o both]
             PROVE  Grown
  OBVIOUS
<1>1. messages \in [Convs -> Seq(Messages)] /\ fresh \in Nat /\ Numbered
  BY DEF SInv, TypeOK
<1>2. /\ both \in Seq(Messages) /\ Len(both) = 2
      /\ both[1].id = fresh /\ both[2].id = fresh + 1
  BY <1>1 DEF Message, Messages
<1> HIDE DEF both
<1>3. messages' \in [Convs -> Seq(Messages)]
  BY <1>1, <1>2
<1>4. \A d \in Convs : d # c => messages'[d] = messages[d]
  BY <1>1
<1>5. /\ Len(messages'[c]) = Len(messages[c]) + 2
      /\ messages'[c][Len(messages[c]) + 1] = both[1]
      /\ messages'[c][Len(messages[c]) + 2] = both[2]
      /\ \A i \in 1..Len(messages[c]) : messages'[c][i] = messages[c][i]
  <2>1. messages'[c] = messages[c] \o both /\ messages[c] \in Seq(Messages)
    BY <1>1
  <2>2. /\ Len(messages[c] \o both) = Len(messages[c]) + Len(both)
        /\ \A i \in 1..Len(messages[c]) + Len(both) : (messages[c] \o both)[i] =
              IF i <= Len(messages[c]) THEN messages[c][i] ELSE both[i - Len(messages[c])]
    BY <1>2, <2>1, ConcatProperties
  <2>3. Len(messages[c]) \in Nat
    BY <2>1
  <2>4. /\ Len(messages[c]) + 1 \in 1..Len(messages[c]) + Len(both)
        /\ Len(messages[c]) + 2 \in 1..Len(messages[c]) + Len(both)
        /\ Len(messages[c]) + 1 - Len(messages[c]) = 1
        /\ Len(messages[c]) + 2 - Len(messages[c]) = 2
    BY <1>2, <2>3
  <2>5. \A i \in 1..Len(messages[c]) : i \in 1..Len(messages[c]) + Len(both) /\ i <= Len(messages[c])
    BY <1>2, <2>3
  <2>6. ~(Len(messages[c]) + 1 <= Len(messages[c])) /\ ~(Len(messages[c]) + 2 <= Len(messages[c]))
    BY <2>3
  <2> QED
    BY <1>2, <2>1, <2>2, <2>4, <2>5, <2>6
<1>6. \A i \in 1..Len(messages'[c]) :
          i > Len(messages[c]) => fresh <= messages'[c][i].id /\ messages'[c][i].id < fresh'
  BY <1>1, <1>2, <1>5, Messaged
<1> QED
  BY <1>1, <1>3, <1>4, <1>5, <1>6, Lengthen, SMTT(40)

LEMMA NothingAdded ==
    SInv /\ UNCHANGED messages /\ fresh' \in {fresh, fresh + 1} => Grown
<1> SUFFICES ASSUME SInv, UNCHANGED messages, fresh' \in {fresh, fresh + 1} PROVE Grown
  OBVIOUS
<1>1. messages \in [Convs -> Seq(Messages)] /\ fresh \in Nat /\ Numbered
  BY DEF SInv, TypeOK
<1> QED
  BY <1>1, Messaged DEF Grown, Lengthened, Numbered

\* The conversations that are taken lose their messages.
LEMMA WithoutMessages ==
    SInv => \A cs \in SUBSET Convs : Without(cs) /\ UNCHANGED fresh => History
<1> SUFFICES ASSUME SInv, NEW cs \in SUBSET Convs, Without(cs), UNCHANGED fresh PROVE History
  OBVIOUS
<1>1. /\ messages \in [Convs -> Seq(Messages)] /\ fresh \in Nat /\ Numbered
      /\ conversations \in [Convs -> Conversations]
  BY DEF SInv, TypeOK
<1>2. \A c \in Convs : messages'[c] = IF c \in cs THEN <<>> ELSE messages[c]
  BY DEF Without
<1>3. messages' \in [Convs -> Seq(Messages)]
  BY <1>1 DEF Without
<1>4. \A c \in cs : ~Live(c)'
  BY <1>1 DEF Without, Live, Conversations
<1>5. Len(<<>>) = 0
  OBVIOUS
<1> QED
  BY <1>1, <1>2, <1>3, <1>4, <1>5 DEF History, Lengthened, Numbered

LEMMA GrownHistory == Grown => History
BY DEF Grown, History

\* One conversation has other messages, and no summary of the old ones.
LEMMA OneChanged ==
    SInv => \A c \in Convs :
        /\ messages' \in [Convs -> Seq(Messages)] /\ fresh' \in Nat /\ fresh <= fresh'
        /\ \A d \in Convs : d # c => messages'[d] = messages[d]
        /\ \A i \in 1..Len(messages'[c]) : messages'[c][i].id < fresh'
        /\ \/ summaries'[c] = None /\ (messages'[c] # <<>> \/ messages[c] = <<>>)
           \/ summaries'[c] = summaries[c] /\ conversations[c].status = "new"
        => History
<1> SUFFICES ASSUME SInv, NEW c \in Convs,
                    messages' \in [Convs -> Seq(Messages)], fresh' \in Nat, fresh <= fresh',
                    \A d \in Convs : d # c => messages'[d] = messages[d],
                    \A i \in 1..Len(messages'[c]) : messages'[c][i].id < fresh',
                    \/ summaries'[c] = None /\ (messages'[c] # <<>> \/ messages[c] = <<>>)
                    \/ summaries'[c] = summaries[c] /\ conversations[c].status = "new"
             PROVE  History
  OBVIOUS
<1>1. ASSUME NEW d \in Convs, d # c PROVE Lengthened(d)
  BY <1>1, Messaged DEF Lengthened
<1>2. ASSUME NEW d \in Convs, NEW i \in 1..Len(messages'[d]) PROVE messages'[d][i].id < fresh'
  <2>1. CASE d # c
    <3>1. messages[d][i].id \in Nat /\ messages[d][i].id < fresh /\ fresh \in Nat
      BY <2>1, Messaged
    <3>2. messages'[d][i] = messages[d][i]
      BY <2>1
    <3> QED
      BY <3>1, <3>2
  <2> QED
    BY <2>1
<1> QED
  BY <1>1, <1>2 DEF History, Numbered

LEMMA StepHistory == SInv /\ [Next]_vars => History
<1> SUFFICES ASSUME SInv, [Next]_vars PROVE History
  OBVIOUS
<1>1. ASSUME PostMessage
      PROVE  Grown
  BY <1>1, AddedGrows DEF PostMessage
<1>2. ASSUME ShareConversation
      PROVE  Grown
  BY <1>2, AddedGrows DEF ShareConversation
<1>3. ASSUME ConversationalReply
      PROVE  Grown
  BY <1>3, TwoAddedGrow DEF ConversationalReply
<1>4. ASSUME NEW w \in Workers, StartTurn(w)
      PROVE  Grown
  BY <1>4, AddedGrows DEF StartTurn
<1>5. ASSUME NEW w \in Workers, Reply(w)
      PROVE  Grown
  <2>1. worker[w].conv \in Convs
    BY <1>5, Kinds DEF Reply, Is, SInv
  <2> QED
    BY <1>5, <2>1, AddedGrows, NothingAdded DEF Reply
<1>6. ASSUME NEW w \in Workers, Admit(w)
      PROVE  Grown
  <2>1. worker[w].conv \in Convs
    BY <1>6, Kinds DEF Admit, Is, SInv
  <2> QED
    BY <1>6, <2>1, AddedGrows, NothingAdded DEF Admit
<1>7. ASSUME NEW w \in Workers, Spawn(w)
      PROVE  Grown
  <2>1. worker[w].conv \in Convs
    BY <1>7, Kinds DEF Spawn, Is, SInv
  <2> QED
    BY <1>7, <2>1, AddedGrows, NothingAdded DEF Spawn
<1>8. ASSUME \/ CreateConversation \/ PatchConversation \/ CreateWorkspace \/ DeleteAttachment
             \/ AddAttachment
      PROVE  Grown
  BY <1>8, NothingAdded DEF CreateConversation, PatchConversation, CreateWorkspace, DeleteAttachment, AddAttachment, rows
<1>9. ASSUME NEW w \in Workers,
             \/ StartCompaction(w) \/ FinishCompaction(w) \/ ReadTask(w) \/ ResolveContinuation(w)
             \/ Ask(w) \/ Register(w) \/ End(w) \/ CopyFiles(w)
      PROVE  Grown
  BY <1>9, NothingAdded DEF StartCompaction, FinishCompaction, ReadTask, ResolveContinuation, Ask,
     Register, End, CopyFiles, rows
<1>10. ASSUME DeleteConversation
      PROVE  History
  <2>1. PICK c \in Convs : Without({c})
    BY <1>10 DEF DeleteConversation
  <2>2. UNCHANGED fresh
    BY <1>10 DEF DeleteConversation
  <2> QED
    BY <2>1, <2>2, WithoutMessages
<1>11. ASSUME DeleteWorkspace
      PROVE  History
  <2>1. UNCHANGED fresh
    BY <1>11 DEF DeleteWorkspace
  <2>2. CASE UNCHANGED messages
    BY <2>1, <2>2, NothingAdded, GrownHistory
  <2>3. CASE \E cs \in SUBSET Convs : Without(cs)
    BY <2>1, <2>3, WithoutMessages
  <2>4. UNCHANGED messages \/ \E cs \in SUBSET Convs : Without(cs)
    BY <1>11 DEF DeleteWorkspace
  <2> QED
    BY <2>2, <2>3, <2>4
<1>12. ASSUME EditMessage
      PROVE  History
  <2>0. PICK c \in Convs : \E i \in 1..Len(messages[c]) :
            /\ summaries' = [summaries EXCEPT ![c] = None]
            /\ messages' = [messages EXCEPT ![c] = SubSeq(Updated(c, messages[c][i].id), 1, i)]
    BY <1>12 DEF EditMessage
  <2>1. PICK i \in 1..Len(messages[c]) :
            /\ summaries' = [summaries EXCEPT ![c] = None]
            /\ messages' = [messages EXCEPT ![c] = SubSeq(Updated(c, messages[c][i].id), 1, i)]
    BY <2>0
  <2> DEFINE u == Updated(c, messages[c][i].id)
  <2>2. /\ u \in Seq(Messages) /\ Len(u) = Len(messages[c])
        /\ \A j \in 1..Len(messages[c]) : u[j] \in Messages /\ u[j].id = messages[c][j].id
    <3>1. messages[c][i].id \in Nat
      BY Messaged
    <3>2. /\ u \in Seq(Messages) /\ Len(u) = Len(messages[c])
          /\ \A j \in 1..Len(messages[c]) : u[j].id = messages[c][j].id
      BY <3>1, UpdatedIs DEF SInv
    <3> QED
      BY <3>2, ElementOfSeq
  <2> HIDE DEF u
  <2>3. i \in Nat /\ 1 <= i /\ i <= Len(messages[c]) /\ Len(messages[c]) \in Nat
    BY Messaged
  <2>4. /\ SubSeq(u, 1, i) \in Seq(Messages) /\ Len(SubSeq(u, 1, i)) = i
        /\ \A j \in 1..i : SubSeq(u, 1, i)[j] = u[j]
    BY <2>2, <2>3, SubSeqProperties
  <2>5. messages'[c] = SubSeq(u, 1, i) /\ \A d \in Convs : d # c => messages'[d] = messages[d]
    BY <2>1 DEF SInv, TypeOK, u
  <2>6. messages' \in [Convs -> Seq(Messages)]
    <3> HIDE DEF SInv
    <3>1. messages \in [Convs -> Seq(Messages)]
      BY DEF SInv, TypeOK
    <3> QED
      BY <2>1, <2>4, <3>1 DEF u
  <2>7. messages'[c] # <<>> /\ summaries'[c] = None
    <3>1. summaries'[c] = None
      BY <2>1 DEF SInv, TypeOK
    <3>2. Len(messages'[c]) # 0 /\ Len(<<>>) = 0
      BY <2>3, <2>4, <2>5
    <3> QED
      BY <3>1, <3>2
  <2>8. \A j \in 1..Len(messages'[c]) : messages'[c][j].id < fresh
    <3>1. \A j \in 1..i : j \in 1..Len(messages[c])
      BY <2>3
    <3> QED
      BY <2>2, <2>4, <2>5, <3>1, Messaged
  <2>9. UNCHANGED fresh
    BY <1>12 DEF EditMessage
  <2>10. fresh' \in Nat /\ fresh <= fresh'
    BY <2>9, Messaged
  <2> QED
    BY <2>10, <2>5, <2>6, <2>7, <2>8, <2>9, OneChanged
<1>13. ASSUME NEW w \in Workers, Journal(w)
      PROVE  History
  <2> DEFINE c == worker[w].conv
             m == worker[w].message
  <2>1. c \in Convs /\ m \in Nat
    BY <1>13, Kinds DEF Journal, Is, SInv
  <2>2. /\ summaries' = [summaries EXCEPT ![c] = None]
        /\ messages' = [messages EXCEPT ![c] = Updated(c, m)]
        /\ UNCHANGED fresh
    BY <1>13 DEF Journal
  <2> HIDE DEF c, m
  <2>3. /\ messages' \in [Convs -> Seq(Messages)]
        /\ messages'[c] = Updated(c, m) /\ \A d \in Convs : d # c => messages'[d] = messages[d]
        /\ summaries'[c] = None
    BY <2>1, <2>2, UpdatedIs DEF SInv, TypeOK
  <2>4. /\ Len(messages'[c]) = Len(messages[c])
        /\ \A j \in 1..Len(messages[c]) : messages'[c][j].id = messages[c][j].id
    BY <2>1, <2>3, UpdatedIs DEF SInv
  <2>5. messages'[c] # <<>> \/ messages[c] = <<>>
    BY <2>1, <2>4, Messaged
  <2>6. \A j \in 1..Len(messages'[c]) : messages'[c][j].id < fresh
    BY <2>1, <2>4, Messaged
  <2>7. fresh' \in Nat /\ fresh <= fresh'
    BY <2>1, <2>2, Messaged
  <2> QED
    BY <2>1, <2>2, <2>3, <2>5, <2>6, <2>7, OneChanged
<1>14. ASSUME NEW w \in Workers, Fork(w)
      PROVE  History
  <2>1. PICK c \in Convs, d \in Convs :
            /\ conversations[d].status = "new"
            /\ messages' = [messages EXCEPT ![d] = Copies(c)]
            /\ fresh' = fresh + Len(messages[c]) + 1
            /\ UNCHANGED summaries
    BY <1>14 DEF Fork
  <2>2. /\ messages' \in [Convs -> Seq(Messages)]
        /\ messages'[d] = Copies(c) /\ \A e \in Convs : e # d => messages'[e] = messages[e]
        /\ summaries'[d] = summaries[d]
    BY <2>1, CopiesIs DEF SInv, TypeOK
  <2>3. /\ Len(messages'[d]) = Len(messages[c])
        /\ \A j \in 1..Len(messages[c]) : messages'[d][j].id = fresh + j
    BY <2>2, CopiesIs DEF SInv
  <2>4. fresh \in Nat /\ Len(messages[c]) \in Nat
    BY Messaged
  <2>5. \A j \in 1..Len(messages'[d]) : messages'[d][j].id < fresh'
    BY <2>1, <2>3, <2>4
  <2>6. fresh' \in Nat /\ fresh <= fresh'
    BY <2>1, <2>4
  <2> QED
    BY <2>1, <2>2, <2>5, <2>6, OneChanged
<1>15. ASSUME UNCHANGED vars PROVE Grown
  BY <1>15, NothingAdded DEF vars
<1> HIDE DEF SInv
<1> HIDE DEF History, Grown
<1> QED BY <1>1, <1>2, <1>3, <1>4, <1>5, <1>6, <1>7, <1>8, <1>9, <1>10, <1>11, <1>12, <1>13,
            <1>14, <1>15, GrownHistory DEF Next

-----------------------------------------------------------------------------
(* The summaries.                                                            *)

\* What a summary covers is a prefix of the messages.
LEMMA CoveredIs ==
    SInv => \A c \in Convs :
        /\ Covered(c) \in 0..Len(messages[c])
        /\ Covered(c) # 0 =>
              /\ summaries[c] \in Summaries /\ summaries[c] # None
              /\ summaries[c].of = SubSeq(messages[c], 1, Covered(c))
<1> SUFFICES ASSUME SInv, NEW c \in Convs, Covered(c) # 0
             PROVE  /\ Covered(c) \in 0..Len(messages[c])
                    /\ summaries[c] \in Summaries /\ summaries[c] # None
                    /\ summaries[c].of = SubSeq(messages[c], 1, Covered(c))
  BY Messaged
<1>1. /\ summaries[c] # None /\ IsPrefix(summaries[c].ids, Ids(messages[c]))
      /\ Covered(c) = Len(summaries[c].ids)
  BY DEF Covered
<1>2. summaries[c] \in Summaries
  BY <1>1 DEF SInv, TypeOK
<1>3. StandsFor(summaries[c], messages[c])
  BY <1>1 DEF SInv, Summarized, Standing
<1>4. summaries[c].ids \in Seq(Nat) /\ Ids(messages[c]) \in Seq(Nat)
      /\ Len(Ids(messages[c])) = Len(messages[c])
  BY <1>2, IdsType, Messaged DEF Summaries
<1>5. Len(summaries[c].ids) <= Len(messages[c]) /\ Len(summaries[c].ids) \in Nat
  BY <1>1, <1>4, PrefixIs
<1> QED
  BY <1>1, <1>2, <1>3, <1>5, Messaged DEF StandsFor

\* What is folded into the old summary is what the new one is to replace.
LEMMA FoldedIs ==
    SInv => \A c \in Convs, n \in Nat :
        n <= Len(messages[c]) =>
           /\ SubSeq(messages[c], 1, n) \in Seq(Messages) /\ Len(SubSeq(messages[c], 1, n)) = n
           /\ Folded(c, n) \in Seq(Messages)
           /\ n > Covered(c) => Folded(c, n) = SubSeq(messages[c], 1, n)
<1> SUFFICES ASSUME SInv, NEW c \in Convs, NEW n \in Nat, n <= Len(messages[c])
             PROVE  /\ SubSeq(messages[c], 1, n) \in Seq(Messages)
                    /\ Len(SubSeq(messages[c], 1, n)) = n
                    /\ Folded(c, n) \in Seq(Messages)
                    /\ n > Covered(c) => Folded(c, n) = SubSeq(messages[c], 1, n)
  OBVIOUS
<1> DEFINE m == messages[c]
           k == Covered(c)
<1>1. m \in Seq(Messages) /\ Len(m) \in Nat /\ k \in Nat /\ k <= Len(m)
  BY Messaged, CoveredIs
<1>2. \A i \in 1..Len(m) : m[i] \in Messages
  BY Messaged
<1>3. k # 0 => summaries[c].of = SubSeq(m, 1, k)
  BY CoveredIs
<1>4. Folded(c, n) = (IF k = 0 THEN <<>> ELSE SubSeq(m, 1, k)) \o SubSeq(m, k + 1, n)
  BY <1>3 DEF Folded
<1> HIDE DEF m, k
<1>5. ASSUME NEW a \in Nat, a <= Len(m)
      PROVE  /\ SubSeq(m, 1, a) \in Seq(Messages) /\ Len(SubSeq(m, 1, a)) = a
             /\ \A i \in 1..a : SubSeq(m, 1, a)[i] = m[i]
  <2>1. \A i \in 1..a : m[i] \in Messages
    BY <1>1, <1>2, <1>5
  <2> QED
    BY <1>5, <2>1, SubSeqProperties
<1>6. /\ SubSeq(m, k + 1, n) \in Seq(Messages)
      /\ Len(SubSeq(m, k + 1, n)) = IF k < n THEN n - k ELSE 0
      /\ \A i \in 1..n - k : SubSeq(m, k + 1, n)[i] = m[k + i]
  <2>1. \A i \in (k + 1)..n : m[i] \in Messages
    BY <1>1, <1>2 DEF m
  <2>2. /\ SubSeq(m, k + 1, n) \in Seq(Messages)
        /\ Len(SubSeq(m, k + 1, n)) = IF k + 1 <= n THEN n - (k + 1) + 1 ELSE 0
        /\ \A i \in 1..n - (k + 1) + 1 : SubSeq(m, k + 1, n)[i] = m[(k + 1) + i - 1]
    BY <1>1, <2>1, SubSeqProperties
  <2> QED
    BY <1>1, <2>2
<1>7. ASSUME k = 0
      PROVE  Folded(c, n) = SubSeq(m, 1, n)
  <2>1. SubSeq(m, k + 1, n) = SubSeq(m, 1, n)
    BY <1>7
  <2> QED
    BY <1>4, <1>6, <1>7, <2>1, ConcatEmptySeq
<1>8. ASSUME k # 0
      PROVE  /\ Folded(c, n) \in Seq(Messages)
             /\ n > k => Folded(c, n) = SubSeq(m, 1, n)
  <2> DEFINE x == SubSeq(m, 1, k)
             y == SubSeq(m, k + 1, n)
  <2>1. Folded(c, n) = x \o y
    BY <1>4, <1>8
  <2>2. x \in Seq(Messages) /\ Len(x) = k /\ \A i \in 1..k : x[i] = m[i]
    BY <1>1, <1>5
  <2>3. /\ y \in Seq(Messages) /\ Len(y) = IF k < n THEN n - k ELSE 0
        /\ \A i \in 1..n - k : y[i] = m[k + i]
    BY <1>6
  <2> HIDE DEF x, y
  <2>4. /\ x \o y \in Seq(Messages) /\ Len(x \o y) = Len(x) + Len(y)
        /\ \A i \in 1..Len(x) + Len(y) : (x \o y)[i] = IF i <= Len(x) THEN x[i] ELSE y[i - Len(x)]
    BY <2>2, <2>3, ConcatProperties
  <2>5. ASSUME n > k
        PROVE  x \o y = SubSeq(m, 1, n)
    <3>1. Len(x \o y) = n
      BY <1>1, <2>2, <2>3, <2>4, <2>5
    <3>2. ASSUME NEW i \in 1..n PROVE (x \o y)[i] = m[i]
      <4>1. CASE i <= k
        BY <1>1, <2>2, <2>3, <2>4, <2>5, <4>1
      <4>2. CASE i > k
        <5>1. i - k \in 1..n - k /\ k + (i - k) = i
          BY <1>1, <4>2
        <5>2. (x \o y)[i] = y[i - k]
          BY <1>1, <2>2, <2>3, <2>4, <2>5, <4>2, SMTT(40)
        <5> QED
          BY <2>3, <5>1, <5>2
      <4>3. i <= k \/ i > k
        BY <1>1
      <4> QED
        BY <4>1, <4>2, <4>3
    <3>3. /\ SubSeq(m, 1, n) \in Seq(Messages) /\ Len(SubSeq(m, 1, n)) = n
          /\ \A i \in 1..n : SubSeq(m, 1, n)[i] = m[i]
      BY <1>5 DEF m
    <3> QED
      BY <2>4, <3>1, <3>2, <3>3, SeqEqual
  <2> QED
    BY <2>1, <2>4, <2>5
<1> QED
  BY <1>5, <1>7, <1>8 DEF m, k

\* How many messages a compaction leaves out.
LEMMA Ended ==
    SInv => \A c \in Convs, keep \in Recent :
        LET end == IF Len(messages[c]) > keep THEN Len(messages[c]) - keep ELSE 0
        IN end \in Nat /\ end <= Len(messages[c])
<1> SUFFICES ASSUME SInv, NEW c \in Convs, NEW keep \in Recent
             PROVE  LET end == IF Len(messages[c]) > keep THEN Len(messages[c]) - keep ELSE 0
                    IN end \in Nat /\ end <= Len(messages[c])
  OBVIOUS
<1>1. Len(messages[c]) \in Nat
  BY Messaged
<1>2. keep \in Nat
  BY SessionsAssumption DEF Recent
<1> QED
  BY <1>1, <1>2

LEMMA StepAged == SInv /\ [Next]_vars => Aged
<1> SUFFICES ASSUME SInv, [Next]_vars PROVE Aged
  OBVIOUS
<1>0. conversations \in [Convs -> Conversations]
  BY DEF SInv, TypeOK
<1>1. ASSUME CreateConversation
      PROVE  Aged
  BY <1>1, <1>0 DEF CreateConversation, Registered, pictures, Aged, Conversations, Live, Modes
<1>2. ASSUME DeleteConversation
      PROVE  Aged
  BY <1>2, <1>0, SMTT(40) DEF DeleteConversation, Without, Live, Idle, Aged, Conversations, Modes
<1>3. ASSUME PatchConversation
      PROVE  Aged
  BY <1>3, <1>0, ZenonT(60) DEF PatchConversation, Live, Idle, Registered, pictures, Aged, Conversations,
     Modes
<1>4. ASSUME DeleteWorkspace
      PROVE  Aged
  BY <1>4, <1>0 DEF DeleteWorkspace, Without, Live, Idle, Registered, Aged, Conversations, Modes
<1>5. ASSUME NEW w \in Workers, Fork(w)
      PROVE  Aged
  BY <1>5, <1>0 DEF Fork, Live, Idle, Aged, Conversations, Modes
<1>6. ASSUME \/ EditMessage \/ PostMessage \/ ConversationalReply \/ ShareConversation
             \/ CreateWorkspace \/ AddAttachment \/ DeleteAttachment
      PROVE  UNCHANGED conversations
  BY <1>6 DEF EditMessage, PostMessage, ConversationalReply, ShareConversation, CreateWorkspace,
     AddAttachment, DeleteAttachment, rows, pictures
<1>7. ASSUME NEW w \in Workers,
             \/ StartTurn(w) \/ Reply(w) \/ StartCompaction(w) \/ FinishCompaction(w)
             \/ ReadTask(w) \/ ResolveContinuation(w) \/ Ask(w) \/ Admit(w)
             \/ Spawn(w) \/ Register(w) \/ End(w) \/ Journal(w)
             \/ CopyFiles(w)
      PROVE  UNCHANGED conversations
  BY <1>7 DEF StartTurn, Reply, StartCompaction, FinishCompaction, ReadTask, ResolveContinuation,
     Ask, Admit, Spawn, Register, End, Journal, CopyFiles, rows, pictures
<1>8. ASSUME UNCHANGED vars PROVE UNCHANGED conversations
  BY <1>8 DEF vars
<1>9. ASSUME UNCHANGED conversations PROVE Aged
  BY <1>0, <1>9 DEF Aged, Live
<1> QED BY <1>1, <1>2, <1>3, <1>4, <1>5, <1>6, <1>7, <1>8, <1>9 DEF Next

LEMMA StepSummaries == SInv /\ [Next]_vars => summaries' \in [Convs -> Summaries \union {None}]
<1> SUFFICES ASSUME SInv, [Next]_vars PROVE summaries' \in [Convs -> Summaries \union {None}]
  OBVIOUS
<1>0. summaries \in [Convs -> Summaries \union {None}]
  BY DEF SInv, TypeOK
<1>1. ASSUME EditMessage
      PROVE  summaries' \in [Convs -> Summaries \union {None}]
  BY <1>1, <1>0 DEF EditMessage, pictures
<1>2. ASSUME NEW w \in Workers, Journal(w)
      PROVE  summaries' \in [Convs -> Summaries \union {None}]
  BY <1>2, <1>0 DEF Journal, pictures
<1>3. ASSUME NEW w \in Workers, FinishCompaction(w)
      PROVE  summaries' \in [Convs -> Summaries \union {None}]
  <2>1. worker[w].source \in Seq(Messages) /\ worker[w].of \in Seq(Messages)
    BY <1>3, Kinds DEF FinishCompaction, Is, SInv
  <2>2. [ids |-> Ids(worker[w].source), of |-> worker[w].of] \in Summaries
    BY <2>1, IdsType DEF Summaries
  <2> QED
    BY <1>3, <1>0, <2>2 DEF FinishCompaction
<1>4. ASSUME \/ CreateConversation \/ DeleteConversation \/ PostMessage \/ ConversationalReply
             \/ ShareConversation \/ PatchConversation \/ CreateWorkspace \/ DeleteWorkspace
             \/ AddAttachment \/ DeleteAttachment
      PROVE  UNCHANGED summaries
  BY <1>4 DEF CreateConversation, DeleteConversation, PostMessage, ConversationalReply,
     ShareConversation, PatchConversation, CreateWorkspace, DeleteWorkspace, AddAttachment,
     DeleteAttachment, rows, pictures
<1>5. ASSUME NEW w \in Workers,
             \/ StartTurn(w) \/ Reply(w) \/ StartCompaction(w) \/ ReadTask(w)
             \/ ResolveContinuation(w) \/ Ask(w) \/ Admit(w) \/ Spawn(w)
             \/ Register(w) \/ End(w) \/ Fork(w) \/ CopyFiles(w)
      PROVE  UNCHANGED summaries
  BY <1>5 DEF StartTurn, Reply, StartCompaction, ReadTask, ResolveContinuation, Ask, Admit, Spawn,
     Register, End, Fork, CopyFiles, rows, pictures
<1>6. ASSUME UNCHANGED vars PROVE UNCHANGED summaries
  BY <1>6 DEF vars
<1>7. ASSUME UNCHANGED summaries PROVE summaries' \in [Convs -> Summaries \union {None}]
  BY <1>0, <1>7
<1> QED BY <1>1, <1>2, <1>3, <1>4, <1>5, <1>6, <1>7 DEF Next

LEMMA StepTask == SInv /\ [Next]_vars => task' \in [Convs -> Saved \union {None}]
<1> SUFFICES ASSUME SInv, [Next]_vars PROVE task' \in [Convs -> Saved \union {None}]
  OBVIOUS
<1>0. task \in [Convs -> Saved \union {None}]
  BY DEF SInv, TypeOK
<1>1. ASSUME DeleteConversation
      PROVE  task' \in [Convs -> Saved \union {None}]
  BY <1>1, <1>0 DEF DeleteConversation, Without
<1>2. ASSUME DeleteWorkspace
      PROVE  task' \in [Convs -> Saved \union {None}]
  BY <1>2, <1>0 DEF DeleteWorkspace, Without
<1>3. ASSUME EditMessage
      PROVE  task' \in [Convs -> Saved \union {None}]
  BY <1>3, <1>0 DEF EditMessage, pictures
<1>4. ASSUME NEW w \in Workers, StartTurn(w)
      PROVE  task' \in [Convs -> Saved \union {None}]
  BY <1>4, <1>0 DEF StartTurn, pictures
<1>5. ASSUME NEW w \in Workers, Spawn(w)
      PROVE  task' \in [Convs -> Saved \union {None}]
  <2>1. worker[w].project \in Projects
    BY <1>5, Kinds DEF Spawn, Is, SInv
  <2> QED
    BY <1>5, <1>0, <2>1 DEF Spawn, Saved
<1>6. ASSUME NEW w \in Workers, Journal(w)
      PROVE  task' \in [Convs -> Saved \union {None}]
  <2>1. worker[w].outcome \in Outcomes
    BY <1>6, Kinds DEF Journal, Is, SInv
  <2>2. \A t \in Saved : [t EXCEPT !.status = worker[w].outcome] \in Saved
    BY <2>1 DEF Saved
  <2> QED
    BY <1>6, <1>0, <2>2 DEF Journal
<1>7. ASSUME \/ CreateConversation \/ PostMessage \/ ConversationalReply \/ ShareConversation
             \/ PatchConversation \/ CreateWorkspace \/ AddAttachment \/ DeleteAttachment
      PROVE  UNCHANGED task
  BY <1>7 DEF CreateConversation, PostMessage, ConversationalReply, ShareConversation,
     PatchConversation, CreateWorkspace, AddAttachment, DeleteAttachment, rows, pictures
<1>8. ASSUME NEW w \in Workers,
             \/ Reply(w) \/ StartCompaction(w) \/ FinishCompaction(w) \/ ReadTask(w)
             \/ ResolveContinuation(w) \/ Ask(w) \/ Admit(w) \/ Register(w)
             \/ End(w) \/ Fork(w) \/ CopyFiles(w)
      PROVE  UNCHANGED task
  BY <1>8 DEF Reply, StartCompaction, FinishCompaction, ReadTask, ResolveContinuation, Ask, Admit,
     Register, End, Fork, CopyFiles, rows, pictures
<1>9. ASSUME UNCHANGED vars PROVE UNCHANGED task
  BY <1>9 DEF vars
<1>10. ASSUME UNCHANGED task PROVE task' \in [Convs -> Saved \union {None}]
  BY <1>0, <1>10
<1> QED BY <1>1, <1>2, <1>3, <1>4, <1>5, <1>6, <1>7, <1>8, <1>9, <1>10 DEF Next

LEMMA StepWorkspaces == SInv /\ [Next]_vars => workspaces' \in [Projects -> {"new", "registered", "removed"}]
<1> SUFFICES ASSUME SInv, [Next]_vars PROVE workspaces' \in [Projects -> {"new", "registered", "removed"}]
  OBVIOUS
<1>0. workspaces \in [Projects -> {"new", "registered", "removed"}]
  BY DEF SInv, TypeOK
<1>1. ASSUME CreateWorkspace
      PROVE  workspaces' \in [Projects -> {"new", "registered", "removed"}]
  BY <1>1, <1>0 DEF CreateWorkspace, pictures
<1>2. ASSUME DeleteWorkspace
      PROVE  workspaces' \in [Projects -> {"new", "registered", "removed"}]
  BY <1>2, <1>0 DEF DeleteWorkspace, Without
<1>3. ASSUME \/ CreateConversation \/ DeleteConversation \/ EditMessage \/ PostMessage
             \/ ConversationalReply \/ ShareConversation \/ PatchConversation \/ AddAttachment
             \/ DeleteAttachment
      PROVE  UNCHANGED workspaces
  BY <1>3 DEF CreateConversation, DeleteConversation, EditMessage, PostMessage,
     ConversationalReply, ShareConversation, PatchConversation, AddAttachment, DeleteAttachment,
     rows, pictures
<1>4. ASSUME NEW w \in Workers,
             \/ StartTurn(w) \/ Reply(w) \/ StartCompaction(w) \/ FinishCompaction(w)
             \/ ReadTask(w) \/ ResolveContinuation(w) \/ Ask(w) \/ Admit(w)
             \/ Spawn(w) \/ Register(w) \/ End(w) \/ Journal(w)
             \/ Fork(w) \/ CopyFiles(w)
      PROVE  UNCHANGED workspaces
  BY <1>4 DEF StartTurn, Reply, StartCompaction, FinishCompaction, ReadTask, ResolveContinuation,
     Ask, Admit, Spawn, Register, End, Journal, Fork, CopyFiles, rows, pictures
<1>5. ASSUME UNCHANGED vars PROVE UNCHANGED workspaces
  BY <1>5 DEF vars
<1>6. ASSUME UNCHANGED workspaces PROVE workspaces' \in [Projects -> {"new", "registered", "removed"}]
  BY <1>0, <1>6
<1> QED BY <1>1, <1>2, <1>3, <1>4, <1>5, <1>6 DEF Next

LEMMA SpoiltRow == \A a \in Rows : [a EXCEPT !.spoilt = TRUE] \in Rows
BY DEF Rows

LEMMA SpoiltRows ==
    \A c \in Convs, R \in SUBSET Rows : Spoilt(c, R) \in SUBSET Rows
BY SpoiltRow DEF Spoilt

LEMMA ForkedRows ==
    attachments \in SUBSET Rows => \A c, d \in Convs : Forked(c, d) \in SUBSET Rows
<1> SUFFICES ASSUME attachments \in SUBSET Rows, NEW c \in Convs, NEW d \in Convs
             PROVE  Forked(c, d) \in SUBSET Rows
  OBVIOUS
<1>1. \A a \in Rows : [a EXCEPT !.conv = d] \in Rows
  BY DEF Rows
<1> QED
  BY <1>1, SpoiltRow DEF Forked

LEMMA StepAttachments == SInv /\ [Next]_vars => attachments' \in SUBSET Rows
<1> SUFFICES ASSUME SInv, [Next]_vars PROVE attachments' \in SUBSET Rows
  OBVIOUS
<1>0. attachments \in SUBSET Rows /\ fresh \in Nat
  BY DEF SInv, TypeOK
<1>1. ASSUME DeleteConversation
      PROVE  attachments' \in SUBSET Rows
  BY <1>1, <1>0 DEF DeleteConversation, Without
<1>2. ASSUME DeleteWorkspace
      PROVE  attachments' \in SUBSET Rows
  BY <1>2, <1>0 DEF DeleteWorkspace, Without
<1>3. ASSUME AddAttachment
      PROVE  attachments' \in SUBSET Rows
  <2>1. PICK c \in Convs : \E n \in Names :
            \E R \in {{IF a.conv = c /\ a.name = n THEN [a EXCEPT !.spoilt = TRUE] ELSE a :
                          a \in attachments}}, t \in BOOLEAN :
               attachments' = Spoilt(c, R \union {[conv |-> c, name |-> n, bytes |-> fresh,
                                                   spoilt |-> t]})
    BY <1>3, Zenon DEF AddAttachment
  <2>2. PICK n \in Names, t \in BOOLEAN : attachments' = Spoilt(c,
            {IF a.conv = c /\ a.name = n THEN [a EXCEPT !.spoilt = TRUE] ELSE a : a \in attachments}
            \union {[conv |-> c, name |-> n, bytes |-> fresh, spoilt |-> t]})
    BY <2>1
  <2>3. {IF a.conv = c /\ a.name = n THEN [a EXCEPT !.spoilt = TRUE] ELSE a : a \in attachments}
            \in SUBSET Rows
    BY <1>0, SpoiltRow
  <2>4. [conv |-> c, name |-> n, bytes |-> fresh, spoilt |-> t] \in Rows
    BY <1>0 DEF Rows
  <2> QED
    BY <2>2, <2>3, <2>4, SpoiltRows
<1>4. ASSUME DeleteAttachment
      PROVE  attachments' \in SUBSET Rows
  <2>1. PICK a \in attachments : attachments' = Spoilt(a.conv, attachments \ {a})
    BY <1>4 DEF DeleteAttachment
  <2>2. a.conv \in Convs /\ attachments \ {a} \in SUBSET Rows
    BY <1>0 DEF Rows
  <2> QED
    BY <2>1, <2>2, SpoiltRows
<1>5. ASSUME NEW w \in Workers, Fork(w)
      PROVE  attachments' \in SUBSET Rows
  BY <1>5, <1>0, ForkedRows DEF Fork
<1>6. ASSUME \/ CreateConversation \/ EditMessage \/ PostMessage \/ ConversationalReply
             \/ ShareConversation \/ PatchConversation \/ CreateWorkspace
      PROVE  UNCHANGED attachments
  BY <1>6 DEF CreateConversation, EditMessage, PostMessage, ConversationalReply,
     ShareConversation, PatchConversation, CreateWorkspace, rows, pictures
<1>7. ASSUME NEW w \in Workers,
             \/ StartTurn(w) \/ Reply(w) \/ StartCompaction(w) \/ FinishCompaction(w)
             \/ ReadTask(w) \/ ResolveContinuation(w) \/ Ask(w) \/ Admit(w)
             \/ Spawn(w) \/ Register(w) \/ End(w) \/ Journal(w)
             \/ CopyFiles(w)
      PROVE  UNCHANGED attachments
  BY <1>7 DEF StartTurn, Reply, StartCompaction, FinishCompaction, ReadTask, ResolveContinuation,
     Ask, Admit, Spawn, Register, End, Journal, CopyFiles, rows, pictures
<1>8. ASSUME UNCHANGED vars PROVE UNCHANGED attachments
  BY <1>8 DEF vars
<1>9. ASSUME UNCHANGED attachments PROVE attachments' \in SUBSET Rows
  BY <1>0, <1>9
<1> QED BY <1>1, <1>2, <1>3, <1>4, <1>5, <1>6, <1>7, <1>8, <1>9 DEF Next

LEMMA StepFiles == SInv /\ [Next]_vars => files' \in [Convs -> [Names -> Nat \union {None}]]
<1> SUFFICES ASSUME SInv, [Next]_vars PROVE files' \in [Convs -> [Names -> Nat \union {None}]]
  OBVIOUS
<1>0.
      files \in [Convs -> [Names -> Nat \union {None}]] /\ fresh \in Nat /\ attachments \in SUBSET Rows
  BY DEF SInv, TypeOK
<1>1. ASSUME AddAttachment
      PROVE  files' \in [Convs -> [Names -> Nat \union {None}]]
  BY <1>1, <1>0 DEF AddAttachment, rows, pictures
<1>2. ASSUME DeleteAttachment
      PROVE  files' \in [Convs -> [Names -> Nat \union {None}]]
  BY <1>2, <1>0 DEF DeleteAttachment, rows, pictures, Rows
<1>3. ASSUME NEW w \in Workers, CopyFiles(w)
      PROVE  files' \in [Convs -> [Names -> Nat \union {None}]]
  <2>1. worker[w].conv \in Convs /\ worker[w].source \in Convs
    BY <1>3, Kinds DEF CopyFiles, Is, SInv
  <2>2. Copied(w) \in [Names -> Nat \union {None}]
    BY <1>0, <2>1 DEF Copied
  <2> QED
    BY <1>3, <1>0, <2>1, <2>2 DEF CopyFiles
<1>4. ASSUME \/ CreateConversation \/ DeleteConversation \/ EditMessage \/ PostMessage
             \/ ConversationalReply \/ ShareConversation \/ PatchConversation \/ CreateWorkspace
             \/ DeleteWorkspace
      PROVE  UNCHANGED files
  BY <1>4 DEF CreateConversation, DeleteConversation, EditMessage, PostMessage,
     ConversationalReply, ShareConversation, PatchConversation, CreateWorkspace,
     DeleteWorkspace, rows, pictures
<1>5. ASSUME NEW w \in Workers,
             \/ StartTurn(w) \/ Reply(w) \/ StartCompaction(w) \/ FinishCompaction(w)
             \/ ReadTask(w) \/ ResolveContinuation(w) \/ Ask(w) \/ Admit(w)
             \/ Spawn(w) \/ Register(w) \/ End(w) \/ Journal(w)
             \/ Fork(w)
      PROVE  UNCHANGED files
  BY <1>5 DEF StartTurn, Reply, StartCompaction, FinishCompaction, ReadTask, ResolveContinuation,
     Ask, Admit, Spawn, Register, End, Journal, Fork, rows, pictures
<1>6. ASSUME UNCHANGED vars PROVE UNCHANGED files
  BY <1>6 DEF vars
<1>7. ASSUME UNCHANGED files PROVE files' \in [Convs -> [Names -> Nat \union {None}]]
  BY <1>0, <1>7
<1> QED BY <1>1, <1>2, <1>3, <1>4, <1>5, <1>6, <1>7 DEF Next

LEMMA StepWorker == SInv /\ [Next]_vars => worker' \in [Workers -> States]
<1> SUFFICES ASSUME SInv, [Next]_vars PROVE worker' \in [Workers -> States]
  OBVIOUS
<1>0.
      TypeOK /\ worker \in [Workers -> States] /\ fresh \in Nat /\ task \in [Convs -> Saved \union {None}]
  BY DEF SInv, TypeOK
<1>1. ASSUME NEW w \in Workers, StartTurn(w)
      PROVE  worker' \in [Workers -> States]
  BY <1>1, <1>0, Kinds DEF StartTurn, pictures, Is, Idle, States, Ongoing, Runs
<1>2. ASSUME NEW w \in Workers, Reply(w)
      PROVE  worker' \in [Workers -> States]
  BY <1>2, <1>0, Kinds DEF Reply, Is, pictures, Idle, States, Ongoing, Runs
<1>3. ASSUME NEW w \in Workers, StartCompaction(w)
      PROVE  worker' \in [Workers -> States]
  <2>1. PICK c \in Convs, n \in Nat :
            /\ n <= Len(messages[c])
            /\ worker' = [worker EXCEPT ![w] = [pc |-> "summarizing", conv |-> c,
                             source |-> SubSeq(messages[c], 1, n), of |-> Folded(c, n)]]
    BY <1>3, Ended DEF StartCompaction
  <2>2. SubSeq(messages[c], 1, n) \in Seq(Messages) /\ Folded(c, n) \in Seq(Messages)
    BY <2>1, FoldedIs
  <2>3. [pc |-> "summarizing", conv |-> c, source |-> SubSeq(messages[c], 1, n), of |-> Folded(c, n)]
            \in States
    BY <2>2 DEF States, Ongoing
  <2> QED
    BY <1>0, <2>1, <2>3
<1>4. ASSUME NEW w \in Workers, FinishCompaction(w)
      PROVE  worker' \in [Workers -> States]
  BY <1>4, <1>0, Kinds DEF FinishCompaction, Is, Unchanged, pictures, Idle, States, Ongoing,
     Runs
<1>5. ASSUME NEW w \in Workers, ReadTask(w)
      PROVE  worker' \in [Workers -> States]
  <2>1. PICK c \in Convs, p \in Projects :
            worker' = [worker EXCEPT ![w] = [pc |-> "resolving", conv |-> c, project |-> p, saved |-> task[c]]]
    BY <1>5 DEF ReadTask
  <2>2. [pc |-> "resolving", conv |-> c, project |-> p, saved |-> task[c]] \in States
    BY <1>0 DEF States, Runs
  <2> QED
    BY <1>0, <2>1, <2>2
<1>6. ASSUME NEW w \in Workers, ResolveContinuation(w)
      PROVE  worker' \in [Workers -> States]
  <2>1. worker[w] \in [pc : {"resolving"}, conv : Convs, project : Projects, saved : Saved \union {None}]
    BY <1>6, <1>0, Kinds DEF ResolveContinuation, Is
  <2>2. [pc |-> "done", conv |-> worker[w].conv] \in States
    BY <2>1 DEF States, Ongoing
  <2>3. ASSUME worker[w].saved # None
        PROVE  [pc |-> "admitted", conv |-> worker[w].conv, project |-> worker[w].project,
                resumes |-> worker[w].saved.run] \in States
    <3>1. worker[w].saved.run \in Workers
      BY <2>1, <2>3 DEF Saved
    <3> QED
      BY <2>1, <3>1 DEF States, Runs
  <2> QED
    BY <1>6, <1>0, <2>2, <2>3 DEF ResolveContinuation
<1>7. ASSUME NEW w \in Workers, Ask(w)
      PROVE  worker' \in [Workers -> States]
  BY <1>7, <1>0, Kinds DEF Ask, rows, pictures, Is, Idle, States, Ongoing, Runs
<1>8. ASSUME NEW w \in Workers, Admit(w)
      PROVE  worker' \in [Workers -> States]
  <2>1. worker[w] \in [pc : {"admitted"}, conv : Convs, project : Projects,
                       resumes : Workers \union {None}]
    BY <1>8, <1>0, Kinds DEF Admit, Is
  <2> DEFINE asked(b) == [pc |-> "asked", conv |-> worker[w].conv, project |-> worker[w].project,
                          resumes |-> worker[w].resumes, code |-> b]
  <2>2. [pc |-> "done", conv |-> worker[w].conv] \in States
    BY <2>1 DEF States, Ongoing
  <2>3. \A b \in BOOLEAN : asked(b) \in States
    BY <2>1 DEF States, Runs
  <2>4. \/ worker' = [worker EXCEPT ![w] = [pc |-> "done", conv |-> worker[w].conv]]
        \/ worker' = [worker EXCEPT ![w] = asked(conversations[worker[w].conv].mode = "code")]
    BY <1>8 DEF Admit
  <2> HIDE DEF asked
  <2>5. asked(conversations[worker[w].conv].mode = "code") \in States
    BY <2>3
  <2> QED
    BY <1>0, <2>2, <2>4, <2>5
<1>9. ASSUME NEW w \in Workers, Spawn(w)
      PROVE  worker' \in [Workers -> States]
  <2>1. worker[w] \in [pc : {"asked"}, conv : Convs, project : Projects,
                       resumes : Workers \union {None}, code : BOOLEAN]
    BY <1>9, <1>0, Kinds DEF Spawn, Is
  <2> DEFINE done == [pc |-> "done", conv |-> worker[w].conv]
             placed == [pc |-> "placed", conv |-> worker[w].conv, project |-> worker[w].project,
                        resumes |-> worker[w].resumes, code |-> worker[w].code, message |-> fresh]
  <2>2. done \in States
    BY <2>1 DEF States, Ongoing
  <2>3. placed \in States
    BY <1>0, <2>1 DEF States, Runs
  <2>4. worker' = [worker EXCEPT ![w] = done] \/ worker' = [worker EXCEPT ![w] = placed]
    BY <1>9 DEF Spawn
  <2> QED
    BY <1>0, <2>2, <2>3, <2>4
<1>10. ASSUME NEW w \in Workers, Register(w)
      PROVE  worker' \in [Workers -> States]
  BY <1>10, <1>0, Kinds DEF Register, Is, rows, pictures, Idle, States, Ongoing, Runs
<1>11. ASSUME NEW w \in Workers, End(w)
      PROVE  worker' \in [Workers -> States]
  BY <1>11, <1>0, Kinds DEF End, Is, rows, pictures, Idle, States, Ongoing, Runs
<1>12. ASSUME NEW w \in Workers, Journal(w)
      PROVE  worker' \in [Workers -> States]
  BY <1>12, <1>0, Kinds DEF Journal, Is, pictures, Idle, States, Ongoing, Runs
<1>13. ASSUME NEW w \in Workers, Fork(w)
      PROVE  worker' \in [Workers -> States]
  BY <1>13, <1>0, Kinds DEF Fork, Is, Idle, States, Ongoing, Runs
<1>14. ASSUME NEW w \in Workers, CopyFiles(w)
      PROVE  worker' \in [Workers -> States]
  BY <1>14, <1>0, Kinds, SMTT(40) DEF CopyFiles, Is, rows, pictures, Idle, States, Ongoing, Runs
<1>15. ASSUME \/ CreateConversation \/ DeleteConversation \/ EditMessage \/ PostMessage
             \/ ConversationalReply \/ ShareConversation \/ PatchConversation \/ CreateWorkspace
             \/ DeleteWorkspace \/ AddAttachment \/ DeleteAttachment
      PROVE  UNCHANGED worker
  BY <1>15 DEF CreateConversation, DeleteConversation, EditMessage, PostMessage,
     ConversationalReply, ShareConversation, PatchConversation, CreateWorkspace,
     DeleteWorkspace, AddAttachment, DeleteAttachment, rows, pictures
<1>16. ASSUME UNCHANGED vars PROVE UNCHANGED worker
  BY <1>16 DEF vars
<1>17. ASSUME UNCHANGED worker PROVE worker' \in [Workers -> States]
  BY <1>0, <1>17
<1> QED BY <1>1, <1>2, <1>3, <1>4, <1>5, <1>6, <1>7, <1>8, <1>9, <1>10, <1>11, <1>12, <1>13,
            <1>14, <1>15, <1>16, <1>17 DEF Next

LEMMA SamePrefix ==
    ASSUME NEW S, NEW s \in Seq(S), NEW t \in Seq(S), NEW k \in Nat,
           \A i \in 1..k : i \in 1..Len(s) /\ i \in 1..Len(t) /\ s[i] = t[i]
    PROVE  SubSeq(s, 1, k) = SubSeq(t, 1, k)
<1>1. \A i \in 1..k : s[i] \in S /\ t[i] \in S
  BY ElementOfSeq
<1>2. /\ SubSeq(s, 1, k) \in Seq(S) /\ Len(SubSeq(s, 1, k)) = k
      /\ \A i \in 1..k : SubSeq(s, 1, k)[i] = s[i]
  BY <1>1, SubSeqProperties
<1>3. /\ SubSeq(t, 1, k) \in Seq(S) /\ Len(SubSeq(t, 1, k)) = k
      /\ \A i \in 1..k : SubSeq(t, 1, k)[i] = t[i]
  BY <1>1, SubSeqProperties
<1> QED
  BY <1>2, <1>3, SeqEqual

LEMMA StepRest == SInv /\ [Next]_vars => scene' \in [operations : SUBSET Operations, workers : Nat] /\ edits' \in Nat
<1> SUFFICES ASSUME SInv, [Next]_vars PROVE scene' \in [operations : SUBSET Operations, workers : Nat] /\ edits' \in Nat
  OBVIOUS
<1>0. scene \in [operations : SUBSET Operations, workers : Nat] /\ edits \in Nat
  BY SMTT(40) DEF SInv, TypeOK
<1>1. ASSUME \/ CreateConversation \/ DeleteConversation \/ EditMessage \/ PostMessage
             \/ ConversationalReply \/ ShareConversation \/ PatchConversation \/ CreateWorkspace
             \/ DeleteWorkspace \/ AddAttachment \/ DeleteAttachment
      PROVE  scene' = scene /\ edits' \in {edits, edits + 1}
  BY <1>1 DEF Allowed, CreateConversation, DeleteConversation, EditMessage, PostMessage,
     ConversationalReply, ShareConversation, PatchConversation, CreateWorkspace,
     DeleteWorkspace, AddAttachment, DeleteAttachment
<1>2. ASSUME NEW w \in Workers,
             \/ StartTurn(w) \/ Reply(w) \/ StartCompaction(w) \/ FinishCompaction(w)
             \/ ReadTask(w) \/ ResolveContinuation(w) \/ Ask(w) \/ Admit(w)
             \/ Spawn(w) \/ Register(w) \/ End(w) \/ Journal(w)
             \/ Fork(w) \/ CopyFiles(w)
      PROVE  scene' = scene /\ edits' \in {edits, edits + 1}
  BY <1>2 DEF Allowed, Is, StartTurn, Reply, StartCompaction, FinishCompaction, ReadTask,
     ResolveContinuation, Ask, Admit, Spawn, Register, End, Journal, Fork, CopyFiles
<1>3. ASSUME UNCHANGED vars PROVE scene' = scene /\ edits' \in {edits, edits + 1}
  BY <1>3 DEF vars
<1>4. scene' = scene /\ edits' \in {edits, edits + 1}
  BY <1>1, <1>2, <1>3 DEF Next
<1> QED
  BY <1>0, <1>4

LEMMA StepTypeOK == SInv /\ [Next]_vars => TypeOK'
<1> SUFFICES ASSUME SInv, [Next]_vars PROVE TypeOK'
  OBVIOUS
<1>1. fresh' \in Nat /\ messages' \in [Convs -> Seq(Messages)]
  BY StepHistory DEF History
<1>2. conversations' \in [Convs -> Conversations]
  BY StepAged DEF Aged
<1> QED
  BY <1>1, <1>2, StepRest, StepSummaries, StepTask, StepWorkspaces, StepAttachments, StepFiles,
     StepWorker DEF TypeOK

\* A summary still stands for its messages, or covers none, after any step.
LEMMA StillStands ==
    SInv /\ [Next]_vars => \A c \in Convs :
        summaries[c] # None /\ summaries'[c] = summaries[c] =>
           conversations'[c].status # "new" /\ StandsFor(summaries[c], messages[c])'
<1> SUFFICES ASSUME SInv, [Next]_vars, NEW c \in Convs,
                    summaries[c] # None, summaries'[c] = summaries[c]
             PROVE  conversations'[c].status # "new" /\ StandsFor(summaries[c], messages[c])'
  OBVIOUS
<1> DEFINE s == summaries[c]
           m == messages[c]
           k == Len(s.ids)
<1>1. conversations[c].status # "new" /\ StandsFor(s, m)
  BY DEF SInv, Summarized, Standing
<1>2. conversations'[c].status # "new"
  BY <1>1, StepAged DEF Aged
<1>3. s \in Summaries /\ s.ids \in Seq(Nat) /\ k \in Nat
  BY DEF SInv, TypeOK, Summaries
<1>4. fresh \in Nat /\ fresh' \in Nat /\ fresh <= fresh' /\ m' \in Seq(Messages) /\ Len(m') \in Nat
  BY StepHistory, Messaged DEF History
<1>5. k > 0 /\ \A i \in 1..k : s.ids[i] < fresh'
  <2>1. k > 0 /\ \A i \in 1..k : s.ids[i] < fresh
    BY <1>1 DEF StandsFor
  <2>2. \A i \in 1..k : s.ids[i] \in Nat
    BY <1>3, ElementOfSeq
  <2> QED
    BY <1>4, <2>1, <2>2
<1>6. Lengthened(c) \/ m' = <<>>
  BY <1>1, StepHistory DEF History
<1>7. IsPrefix(s.ids, Ids(m')) <=> k <= Len(m') /\ \A i \in 1..k : s.ids[i] = m'[i].id
  <2>1. Ids(m') \in Seq(Nat) /\ Len(Ids(m')) = Len(m') /\ \A i \in 1..Len(m') : Ids(m')[i] = m'[i].id
    BY <1>4, IdsType
  <2>2. IsPrefix(s.ids, Ids(m')) <=> k <= Len(m') /\ \A i \in 1..k : s.ids[i] = Ids(m')[i]
    <3> DEFINE t == Ids(m')
               q == s.ids
    <3>1. t \in Seq(Nat) /\ q \in Seq(Nat) /\ Len(t) = Len(m')
      BY <1>3, <2>1
    <3> HIDE DEF t, q
    <3>2. IsPrefix(q, t) <=> Len(q) <= Len(t) /\ \A i \in 1..Len(q) : q[i] = t[i]
      BY <3>1, PrefixIs
    <3> QED
      BY <3>1, <3>2 DEF t, q
  <2>3. k <= Len(m') => \A i \in 1..k : i \in 1..Len(m')
    BY <1>3, <1>4
  <2> QED
    BY <2>1, <2>2, <2>3
<1>8. ASSUME IsPrefix(s.ids, Ids(m')) PROVE s.of = SubSeq(m', 1, k)
  <2>1. m' # <<>>
    <3>1. Len(<<>>) = 0
      OBVIOUS
    <3> QED
      BY <1>3, <1>5, <1>7, <1>8, <3>1
  <2>2. Lengthened(c)
    BY <1>6, <2>1
  <2>3. k <= Len(m)
    <3> SUFFICES ASSUME k > Len(m) PROVE FALSE
      BY <1>3, Messaged
    <3>1. Len(m) + 1 \in 1..k /\ Len(m) + 1 \in 1..Len(m') /\ Len(m) + 1 > Len(m)
      BY <1>3, <1>4, <1>7, <1>8, Messaged, SMTT(40)
    <3>2. fresh <= m'[Len(m) + 1].id
      BY <2>2, <3>1 DEF Lengthened
    <3>3. s.ids[Len(m) + 1] < fresh /\ s.ids[Len(m) + 1] = m'[Len(m) + 1].id
      BY <1>1, <1>7, <1>8, <3>1 DEF StandsFor
    <3>4. s.ids[Len(m) + 1] \in Nat
      BY <1>3, <3>1, ElementOfSeq
    <3> QED
      BY <1>4, <3>2, <3>3, <3>4
  <2>4. \A i \in 1..k : m'[i] = m[i] /\ i \in 1..Len(m)
    BY <1>3, <2>2, <2>3, Messaged DEF Lengthened
  <2>5. m \in Seq(Messages) /\ Ids(m) \in Seq(Nat) /\ Len(Ids(m)) = Len(m)
        /\ \A i \in 1..Len(m) : Ids(m)[i] = m[i].id
    BY IdsType, Messaged
  <2>6. IsPrefix(s.ids, Ids(m))
    <3>1. \A i \in 1..k : s.ids[i] = Ids(m)[i]
      BY <1>7, <1>8, <2>4, <2>5
    <3> QED
      BY <1>3, <2>3, <2>5, <3>1, PrefixIs
  <2>7. s.of = SubSeq(m, 1, k)
    BY <1>1, <2>6 DEF StandsFor
  <2>8. SubSeq(m', 1, k) = SubSeq(m, 1, k)
    BY <1>4, <1>3, <2>4, <2>5, SamePrefix
  <2> QED
    BY <2>7, <2>8
<1> QED
  BY <1>2, <1>5, <1>8 DEF StandsFor

LEMMA StepStanding == SInv /\ [Next]_vars => Standing'
<1> SUFFICES ASSUME SInv, [Next]_vars PROVE Standing'
  OBVIOUS
<1>0. summaries \in [Convs -> Summaries \union {None}]
  BY DEF SInv, TypeOK
<1>1. ASSUME \A c \in Convs : summaries'[c] \in {summaries[c], None} PROVE Standing'
  BY <1>1, StillStands DEF Standing
<1>2. ASSUME NEW w \in Workers, FinishCompaction(w) PROVE Standing'
  <2> DEFINE c == worker[w].conv
             source == worker[w].source
             new == [ids |-> Ids(source), of |-> worker[w].of]
  <2>1. c \in Convs /\ source \in Seq(Messages)
    BY <1>2, Kinds DEF FinishCompaction, Is, SInv
  <2>2. UNCHANGED <<messages, conversations, fresh>>
    BY <1>2 DEF FinishCompaction
  <2>3. CASE UNCHANGED summaries
    BY <1>1, <2>3
  <2>4. CASE /\ IsPrefix(source, messages[c])
             /\ summaries' = [summaries EXCEPT ![c] = new]
    <3>1. /\ conversations[c].status # "new" /\ Len(source) > 0 /\ worker[w].of = source
      BY <1>2 DEF FinishCompaction, Is, SInv, Summarized, Folding
    <3>2. /\ Len(source) <= Len(messages[c])
          /\ \A i \in 1..Len(source) : source[i] = messages[c][i]
      <4> DEFINE m == messages[c]
      <4>1. m \in Seq(Messages)
        BY <2>1, Messaged
      <4> HIDE DEF m, source
      <4>2. IsPrefix(source, m)
        BY <2>4 DEF m
      <4>3. Len(source) <= Len(m) /\ \A i \in 1..Len(source) : source[i] = m[i]
        BY <2>1, <4>1, <4>2, PrefixIs
      <4> QED
        BY <4>3 DEF m
    <3>3. /\ Len(Ids(source)) = Len(source)
          /\ \A i \in 1..Len(source) : Ids(source)[i] = source[i].id
      BY <2>1, IdsType
    <3>4. Len(source) \in Nat /\ Len(messages[c]) \in Nat /\ messages[c] \in Seq(Messages)
      BY <2>1, Messaged
    <3>5. \A i \in 1..Len(source) : Ids(source)[i] < fresh
      <4>1. \A i \in 1..Len(source) : i \in 1..Len(messages[c])
        BY <3>2, <3>4
      <4> QED
        BY <2>1, <3>2, <3>3, <4>1, Messaged
    <3>6. source = SubSeq(messages[c], 1, Len(source))
      BY <2>1, <2>4, <3>4 DEF IsPrefix
    <3>7. StandsFor(new, messages[c])
      BY <3>1, <3>3, <3>5, <3>6 DEF StandsFor
    <3>8. summaries'[c] = new /\ \A d \in Convs : d # c => summaries'[d] = summaries[d]
      BY <1>0, <2>1, <2>4
    <3>9. ASSUME NEW d \in Convs, summaries'[d] # None
          PROVE  conversations'[d].status # "new" /\ StandsFor(summaries[d], messages[d])'
      <4>1. CASE d = c
        <5> HIDE DEF new
        <5>1. StandsFor(summaries[d], messages[d])' <=> StandsFor(summaries'[d], messages'[d])
          BY <2>2 DEF StandsFor
        <5> QED
          BY <2>2, <3>1, <3>7, <3>8, <4>1, <5>1
      <4>2. CASE d # c
        <5>1. summaries'[d] = summaries[d]
          BY <3>8, <4>2
        <5> QED
          BY <3>9, <5>1, StillStands
      <4> QED
        BY <4>1, <4>2
    <3> QED
      BY <3>9 DEF Standing
  <2> QED
    BY <1>2, <2>3, <2>4 DEF FinishCompaction, Unchanged
<1>3. ASSUME EditMessage PROVE \A c \in Convs : summaries'[c] \in {summaries[c], None}
  BY <1>0, <1>3 DEF EditMessage
<1>4. ASSUME NEW w \in Workers, Journal(w) PROVE \A c \in Convs : summaries'[c] \in {summaries[c], None}
  BY <1>0, <1>4 DEF Journal
<1>5. ASSUME \/ CreateConversation \/ DeleteConversation \/ PostMessage \/ ConversationalReply
             \/ ShareConversation \/ PatchConversation \/ CreateWorkspace \/ DeleteWorkspace
             \/ AddAttachment \/ DeleteAttachment
      PROVE  UNCHANGED summaries
  BY <1>5 DEF CreateConversation, DeleteConversation, PostMessage, ConversationalReply,
     ShareConversation, PatchConversation, CreateWorkspace, DeleteWorkspace, AddAttachment,
     DeleteAttachment, rows
<1>6. ASSUME NEW w \in Workers,
             \/ StartTurn(w) \/ Reply(w) \/ StartCompaction(w) \/ ReadTask(w)
             \/ ResolveContinuation(w) \/ Ask(w) \/ Admit(w) \/ Spawn(w)
             \/ Register(w) \/ End(w) \/ Fork(w) \/ CopyFiles(w)
      PROVE  UNCHANGED summaries
  BY <1>6 DEF StartTurn, Reply, StartCompaction, ReadTask, ResolveContinuation, Ask, Admit, Spawn,
     Register, End, Fork, CopyFiles, rows
<1>7. ASSUME UNCHANGED vars PROVE UNCHANGED summaries
  BY <1>7 DEF vars
<1> QED
  BY <1>1, <1>2, <1>3, <1>4, <1>5, <1>6, <1>7 DEF Next

LEMMA StepFolding == SInv /\ [Next]_vars => Folding'
<1> SUFFICES ASSUME SInv, [Next]_vars PROVE Folding'
  OBVIOUS
<1>0. worker \in [Workers -> States] /\ TypeOK
  BY DEF SInv, TypeOK
<1>1. ASSUME \A v \in Workers : worker'[v] = worker[v] \/ worker'[v].pc # "summarizing"
      PROVE  Folding'
  <2>1. \A v \in Workers : worker[v].pc = "summarizing" => worker[v].conv \in Convs
    BY <1>0, Kinds
  <2> QED
    BY <1>1, <2>1, StepAged DEF Aged, Folding, SInv, Summarized
<1>2. ASSUME NEW w \in Workers, StartCompaction(w) PROVE Folding'
  <2>1. PICK c \in Convs, n \in Nat :
            /\ n <= Len(messages[c]) /\ n > Covered(c) /\ Live(c)
            /\ worker' = [worker EXCEPT ![w] = [pc |-> "summarizing", conv |-> c,
                             source |-> SubSeq(messages[c], 1, n), of |-> Folded(c, n)]]
    BY <1>2, Ended DEF StartCompaction
  <2>2. /\ Folded(c, n) = SubSeq(messages[c], 1, n) /\ Len(SubSeq(messages[c], 1, n)) = n
        /\ Covered(c) \in Nat
    BY <2>1, FoldedIs, CoveredIs, Messaged
  <2>3. n > 0
    BY <2>1, <2>2
  <2>4. conversations'[c].status # "new"
    BY <1>2, <2>1 DEF StartCompaction, Live, rows
  <2>5. ASSUME NEW v \in Workers, worker'[v].pc = "summarizing"
        PROVE  /\ conversations'[worker'[v].conv].status # "new"
               /\ Len(worker'[v].source) > 0
               /\ worker'[v].of = worker'[v].source
    <3>1. CASE v = w
      BY <1>0, <2>1, <2>2, <2>3, <2>4, <3>1
    <3>2. CASE v # w
      <4>1. worker'[v] = worker[v]
        BY <1>0, <2>1, <3>2
      <4>2. worker[v].conv \in Convs
        BY <1>0, <2>5, <4>1, Kinds, SMTT(40)
      <4> QED
        BY <2>5, <4>1, <4>2, StepAged DEF Aged, Folding, SInv, Summarized
    <3> QED
      BY <3>1, <3>2
  <2> QED
    BY <2>5 DEF Folding
<1>3. ASSUME \/ CreateConversation \/ DeleteConversation \/ EditMessage \/ PostMessage
             \/ ConversationalReply \/ ShareConversation \/ PatchConversation \/ CreateWorkspace
             \/ DeleteWorkspace \/ AddAttachment \/ DeleteAttachment
      PROVE  UNCHANGED worker
  BY <1>3 DEF CreateConversation, DeleteConversation, EditMessage, PostMessage,
     ConversationalReply, ShareConversation, PatchConversation, CreateWorkspace,
     DeleteWorkspace, AddAttachment, DeleteAttachment, rows, pictures
<1>4. ASSUME NEW w \in Workers, StartTurn(w)
      PROVE  \A v \in Workers : worker'[v] = worker[v] \/ worker'[v].pc # "summarizing"
  BY <1>4, <1>0, Kinds DEF StartTurn, Is
<1>5. ASSUME NEW w \in Workers, Reply(w)
      PROVE  \A v \in Workers : worker'[v] = worker[v] \/ worker'[v].pc # "summarizing"
  BY <1>5, <1>0, Kinds DEF Reply, Is
<1>6. ASSUME NEW w \in Workers, FinishCompaction(w)
      PROVE  \A v \in Workers : worker'[v] = worker[v] \/ worker'[v].pc # "summarizing"
  BY <1>6, <1>0, Kinds DEF FinishCompaction, Is
<1>7. ASSUME NEW w \in Workers, ReadTask(w)
      PROVE  \A v \in Workers : worker'[v] = worker[v] \/ worker'[v].pc # "summarizing"
  BY <1>7, <1>0, Kinds DEF ReadTask, Is
<1>8. ASSUME NEW w \in Workers, ResolveContinuation(w)
      PROVE  \A v \in Workers : worker'[v] = worker[v] \/ worker'[v].pc # "summarizing"
  BY <1>8, <1>0, Kinds DEF ResolveContinuation, Is
<1>9. ASSUME NEW w \in Workers, Ask(w)
      PROVE  \A v \in Workers : worker'[v] = worker[v] \/ worker'[v].pc # "summarizing"
  BY <1>9, <1>0, Kinds DEF Ask, Is
<1>10. ASSUME NEW w \in Workers, Admit(w)
      PROVE  \A v \in Workers : worker'[v] = worker[v] \/ worker'[v].pc # "summarizing"
  BY <1>10, <1>0, Kinds DEF Admit, Is
<1>11. ASSUME NEW w \in Workers, Spawn(w)
      PROVE  \A v \in Workers : worker'[v] = worker[v] \/ worker'[v].pc # "summarizing"
  BY <1>11, <1>0, Kinds DEF Spawn, Is
<1>12. ASSUME NEW w \in Workers, Register(w)
      PROVE  \A v \in Workers : worker'[v] = worker[v] \/ worker'[v].pc # "summarizing"
  BY <1>12, <1>0, Kinds DEF Register, Is
<1>13. ASSUME NEW w \in Workers, End(w)
      PROVE  \A v \in Workers : worker'[v] = worker[v] \/ worker'[v].pc # "summarizing"
  BY <1>13, <1>0, Kinds DEF End, Is
<1>14. ASSUME NEW w \in Workers, Journal(w)
      PROVE  \A v \in Workers : worker'[v] = worker[v] \/ worker'[v].pc # "summarizing"
  BY <1>14, <1>0, Kinds DEF Journal, Is
<1>15. ASSUME NEW w \in Workers, Fork(w)
      PROVE  \A v \in Workers : worker'[v] = worker[v] \/ worker'[v].pc # "summarizing"
  BY <1>15, <1>0, Kinds DEF Fork, Is
<1>16. ASSUME NEW w \in Workers, CopyFiles(w)
      PROVE  \A v \in Workers : worker'[v] = worker[v] \/ worker'[v].pc # "summarizing"
  BY <1>16, <1>0, Kinds DEF CopyFiles, Is
<1>17. ASSUME UNCHANGED vars PROVE UNCHANGED worker
  BY <1>17 DEF vars
<1> QED BY <1>1, <1>2, <1>3, <1>4, <1>5, <1>6, <1>7, <1>8, <1>9, <1>10, <1>11, <1>12, <1>13,
            <1>14, <1>15, <1>16, <1>17 DEF Next

-----------------------------------------------------------------------------
(* The runs and their projects.                                              *)

LEMMA StepProjects ==
    SInv /\ [Next]_vars => \A p \in Projects : workspaces[p] # "new" =>
        workspaces'[p] # "new" /\ (p \in Registered' => p \in Registered)
<1> SUFFICES ASSUME SInv, [Next]_vars, NEW p \in Projects, workspaces[p] # "new"
             PROVE  workspaces'[p] # "new" /\ (p \in Registered' => p \in Registered)
  OBVIOUS
<1>0. workspaces \in [Projects -> {"new", "registered", "removed"}]
  BY DEF SInv, TypeOK
<1>1. ASSUME UNCHANGED workspaces
      PROVE  workspaces'[p] # "new" /\ (p \in Registered' => p \in Registered)
  BY <1>1 DEF Registered
<1>2. ASSUME CreateWorkspace
      PROVE  workspaces'[p] # "new" /\ (p \in Registered' => p \in Registered)
  BY <1>0, <1>2 DEF CreateWorkspace, Registered
<1>3. ASSUME DeleteWorkspace
      PROVE  workspaces'[p] # "new" /\ (p \in Registered' => p \in Registered)
  BY <1>0, <1>3 DEF DeleteWorkspace, Registered
<1>4. ASSUME \/ CreateConversation \/ DeleteConversation \/ EditMessage \/ PostMessage
             \/ ConversationalReply \/ ShareConversation \/ PatchConversation \/ AddAttachment
             \/ DeleteAttachment
      PROVE  UNCHANGED workspaces
  BY <1>4 DEF CreateConversation, DeleteConversation, EditMessage, PostMessage,
     ConversationalReply, ShareConversation, PatchConversation, AddAttachment, DeleteAttachment,
     rows, pictures
<1>5. ASSUME NEW w \in Workers,
             \/ StartTurn(w) \/ Reply(w) \/ StartCompaction(w) \/ FinishCompaction(w)
             \/ ReadTask(w) \/ ResolveContinuation(w) \/ Ask(w) \/ Admit(w)
             \/ Spawn(w) \/ Register(w) \/ End(w) \/ Journal(w)
             \/ Fork(w) \/ CopyFiles(w)
      PROVE  UNCHANGED workspaces
  BY <1>5 DEF StartTurn, Reply, StartCompaction, FinishCompaction, ReadTask,
     ResolveContinuation, Ask, Admit, Spawn, Register, End, Journal, Fork, CopyFiles, rows,
     pictures
<1>6. ASSUME UNCHANGED vars PROVE UNCHANGED workspaces
  BY <1>6 DEF vars
<1> QED BY <1>1, <1>2, <1>3, <1>4, <1>5, <1>6 DEF Next

\* A session changes its project only while it has none or no messages.
LEMMA StepLinked ==
    SInv /\ [Next]_vars => \A c \in Convs : conversations[c].status # "new" =>
        conversations'[c].workspace = conversations[c].workspace \/ ~Kept(c)
<1> SUFFICES ASSUME SInv, [Next]_vars, NEW c \in Convs, conversations[c].status # "new"
             PROVE  conversations'[c].workspace = conversations[c].workspace \/ ~Kept(c)
  OBVIOUS
<1>0. conversations \in [Convs -> Conversations]
  BY DEF SInv, TypeOK
<1>1. ASSUME UNCHANGED conversations
      PROVE  conversations'[c].workspace = conversations[c].workspace \/ ~Kept(c)
  BY <1>1
<1>2. ASSUME \/ EditMessage \/ PostMessage \/ ConversationalReply \/ ShareConversation
             \/ CreateWorkspace \/ AddAttachment \/ DeleteAttachment
      PROVE  UNCHANGED conversations
  BY <1>2 DEF EditMessage, PostMessage, ConversationalReply, ShareConversation, CreateWorkspace,
     AddAttachment, DeleteAttachment, rows, pictures
<1>3. ASSUME NEW w \in Workers,
             \/ StartTurn(w) \/ Reply(w) \/ StartCompaction(w) \/ FinishCompaction(w)
             \/ ReadTask(w) \/ ResolveContinuation(w) \/ Ask(w) \/ Admit(w)
             \/ Spawn(w) \/ Register(w) \/ End(w) \/ Journal(w)
             \/ CopyFiles(w)
      PROVE  UNCHANGED conversations
  BY <1>3 DEF StartTurn, Reply, StartCompaction, FinishCompaction, ReadTask,
     ResolveContinuation, Ask, Admit, Spawn, Register, End, Journal, CopyFiles, rows, pictures
<1>4. ASSUME CreateConversation
      PROVE  conversations'[c].workspace = conversations[c].workspace \/ ~Kept(c)
  BY <1>4, <1>0 DEF CreateConversation
<1>5. ASSUME DeleteConversation
      PROVE  conversations'[c].workspace = conversations[c].workspace \/ ~Kept(c)
  BY <1>5, <1>0 DEF Conversations, DeleteConversation, Without
<1>6. ASSUME PatchConversation
      PROVE  conversations'[c].workspace = conversations[c].workspace \/ ~Kept(c)
  BY <1>6, <1>0 DEF Conversations, PatchConversation
<1>7. ASSUME DeleteWorkspace
      PROVE  conversations'[c].workspace = conversations[c].workspace \/ ~Kept(c)
  BY <1>7, <1>0 DEF Conversations, DeleteWorkspace, Without
<1>8. ASSUME NEW w \in Workers, Fork(w)
      PROVE  conversations'[c].workspace = conversations[c].workspace \/ ~Kept(c)
  BY <1>8, <1>0 DEF Fork, Is
<1>9. ASSUME UNCHANGED vars PROVE UNCHANGED conversations
  BY <1>9 DEF vars
<1> QED BY <1>1, <1>2, <1>3, <1>4, <1>5, <1>6, <1>7, <1>8, <1>9 DEF Next

LEMMA StillFits ==
    SInv /\ [Next]_vars => \A c \in Convs, p \in Projects : Fits(c, p) => Fits(c, p)'
<1> SUFFICES ASSUME SInv, [Next]_vars, NEW c \in Convs, NEW p \in Projects, Fits(c, p)
             PROVE  Fits(c, p)'
  OBVIOUS
<1>1. workspaces'[p] # "new" /\ (p \in Registered' => p \in Registered)
  BY StepProjects DEF Fits
<1>2. conversations'[c].status # "new" /\ (Live(c)' => Live(c))
  BY StepAged DEF Fits, Aged
<1>3. ~Live(c)' \/ messages'[c] # <<>>
  <2>1. CASE Lengthened(c) /\ messages[c] # <<>>
    <3>1. Len(messages[c]) > 0 /\ Len(messages'[c]) > 0
      <4>1. Len(messages[c]) \in Nat /\ Len(messages[c]) # 0
        BY <2>1, Messaged, EmptySeq
      <4>2. Len(messages'[c]) \in Nat
        BY StepHistory DEF History
      <4> QED
        BY <2>1, <4>1, <4>2 DEF Lengthened
    <3>2. Len(<<>>) = 0
      OBVIOUS
    <3> QED
      BY <3>1, <3>2
  <2> QED
    BY <1>2, <2>1, StepHistory DEF History, Fits
<1>4. conversations'[c].workspace = p \/ ~Live(c)' \/ p \notin Registered'
  <2>1. CASE ~Live(c) \/ p \notin Registered
    BY <1>1, <1>2, <2>1
  <2>2. CASE Live(c) /\ p \in Registered
    <3>1. conversations[c].workspace = p /\ Kept(c)
      BY <2>2 DEF Fits, Kept
    <3> QED
      BY <3>1, StepLinked DEF Fits
  <2> QED
    BY <2>1, <2>2
<1> QED
  BY <1>1, <1>2, <1>3, <1>4 DEF Fits

\* From the user's message on a run keeps its session, its project and the task
\* it goes on with.
LEMMA StepPlaced == SInv /\ [Next]_vars => Placed'
<1> SUFFICES ASSUME SInv, [Next]_vars PROVE Placed'
  OBVIOUS
<1>0. worker \in [Workers -> States] /\ TypeOK
  BY DEF SInv, TypeOK
<1> DEFINE Same == \A v \in Workers : Asking(v)' =>
               /\ Asking(v) /\ worker'[v].conv = worker[v].conv
               /\ worker'[v].project = worker[v].project /\ worker'[v].code = worker[v].code
<1>1. ASSUME Same PROVE Placed'
  <2>1. \A v \in Workers : Asking(v) => worker[v].conv \in Convs /\ worker[v].project \in Projects
    BY <1>0, Kinds DEF Asking
  <2> QED
    BY <1>1, <2>1, StillFits DEF Placed, SInv
<1>2. ASSUME UNCHANGED worker PROVE Same
  BY <1>2 DEF Asking
<1>3. ASSUME NEW w \in Workers, Admit(w) PROVE Placed'
  <2> DEFINE c == worker[w].conv
  <2>1. /\ worker[w] \in [pc : {"admitted"}, conv : Convs, project : Projects,
                          resumes : Workers \union {None}]
        /\ c \in Convs
    BY <1>0, <1>3, Kinds DEF Admit, Is
  <2>2. \A v \in Workers : v # w => worker'[v] = worker[v]
    BY <1>0, <1>3 DEF Admit
  <2>3. ASSUME Asking(w)', worker'[w].code
        PROVE  worker'[w].conv = c /\ worker'[w].project = worker[w].project /\ Fits(c, worker[w].project)'
    <3>1. /\ Ready(c) /\ messages' = Added(c) /\ UNCHANGED <<conversations, workspaces>>
          /\ conversations[c].mode = "code" => conversations[c].workspace = worker[w].project
          /\ worker' = [worker EXCEPT ![w] = [pc |-> "asked", conv |-> c,
                           project |-> worker[w].project, resumes |-> worker[w].resumes,
                           code |-> conversations[c].mode = "code"]]
      BY <1>0, <1>3, <2>3 DEF Admit, Asking
    <3>2. /\ worker'[w].code = (conversations[c].mode = "code")
          /\ worker'[w].conv = c /\ worker'[w].project = worker[w].project
      BY <1>0, <3>1
    <3>3. conversations[c].mode = "code"
      BY <2>3, <3>2
    <3>4. /\ Live(c) /\ conversations[c].workspace = worker[w].project
          /\ worker[w].project \in Registered
      BY <3>1, <3>3 DEF Ready, Linked
    <3>5. messages'[c] # <<>>
      <4>1. messages'[c] = Append(messages[c], Message(fresh)) /\ messages[c] \in Seq(Messages)
        BY <2>1, <3>1, Messaged DEF Added, SInv, TypeOK
      <4>2. Len(messages'[c]) = Len(messages[c]) + 1 /\ Len(messages[c]) \in Nat /\ Len(<<>>) = 0
        BY <4>1
      <4> QED
        BY <4>2
    <3> QED
      BY <3>1, <3>2, <3>4, <3>5 DEF Fits, Live, Registered
  <2>4. ASSUME NEW v \in Workers, Asking(v)', worker'[v].code
        PROVE  Fits(worker[v].conv, worker[v].project)'
    <3>1. CASE v = w
      <4>1. worker'[w].conv = c /\ worker'[w].project = worker[w].project /\ Fits(c, worker[w].project)'
        BY <2>3, <2>4, <3>1
      <4> QED
        BY <3>1, <4>1 DEF Fits
    <3>2. CASE v # w
      <4>1. worker'[v] = worker[v]
        BY <2>2, <3>2
      <4>2. Fits(worker[v].conv, worker[v].project)
        BY <2>4, <4>1 DEF Placed, SInv, Asking
      <4>3. worker[v].conv \in Convs /\ worker[v].project \in Projects
        BY <1>0, <2>4, <4>1, Kinds DEF Asking
      <4> QED
        BY <4>1, <4>2, <4>3, StillFits DEF Fits
    <3> QED
      BY <3>1, <3>2
  <2> QED
    BY <2>4 DEF Placed
<1>4. ASSUME \/ CreateConversation \/ DeleteConversation \/ EditMessage \/ PostMessage
             \/ ConversationalReply \/ ShareConversation \/ PatchConversation \/ CreateWorkspace
             \/ DeleteWorkspace \/ AddAttachment \/ DeleteAttachment
      PROVE  UNCHANGED worker
  BY <1>4 DEF CreateConversation, DeleteConversation, EditMessage, PostMessage,
     ConversationalReply, ShareConversation, PatchConversation, CreateWorkspace,
     DeleteWorkspace, AddAttachment, DeleteAttachment, rows, pictures
<1>5. ASSUME NEW w \in Workers, StartTurn(w)
      PROVE  Same
  BY <1>5, <1>0, Kinds DEF Asking, StartTurn, Is
<1>6. ASSUME NEW w \in Workers, Reply(w)
      PROVE  Same
  BY <1>6, <1>0, Kinds DEF Asking, Reply, Is
<1>7. ASSUME NEW w \in Workers, StartCompaction(w)
      PROVE  Same
  BY <1>7, <1>0, Kinds DEF Asking, StartCompaction, Is
<1>8. ASSUME NEW w \in Workers, FinishCompaction(w)
      PROVE  Same
  BY <1>8, <1>0, Kinds DEF Asking, FinishCompaction, Is
<1>9. ASSUME NEW w \in Workers, ReadTask(w)
      PROVE  Same
  BY <1>9, <1>0, Kinds DEF Asking, ReadTask, Is
<1>10. ASSUME NEW w \in Workers, ResolveContinuation(w)
      PROVE  Same
  BY <1>10, <1>0, Kinds DEF Asking, ResolveContinuation, Is
<1>11. ASSUME NEW w \in Workers, Ask(w)
      PROVE  Same
  BY <1>11, <1>0, Kinds DEF Asking, Ask, Is
<1>12. ASSUME NEW w \in Workers, Spawn(w)
      PROVE  Same
  BY <1>12, <1>0, Kinds DEF Asking, Spawn, Is
<1>13. ASSUME NEW w \in Workers, Register(w)
      PROVE  Same
  BY <1>13, <1>0, Kinds DEF Asking, Register, Is
<1>14. ASSUME NEW w \in Workers, End(w)
      PROVE  Same
  BY <1>14, <1>0, Kinds DEF Asking, End, Is
<1>15. ASSUME NEW w \in Workers, Journal(w)
      PROVE  Same
  BY <1>15, <1>0, Kinds DEF Asking, Journal, Is
<1>16. ASSUME NEW w \in Workers, Fork(w)
      PROVE  Same
  BY <1>16, <1>0, Kinds DEF Asking, Fork, Is
<1>17. ASSUME NEW w \in Workers, CopyFiles(w)
      PROVE  Same
  BY <1>17, <1>0, Kinds DEF Asking, CopyFiles, Is
<1>18. ASSUME UNCHANGED vars PROVE UNCHANGED worker
  BY <1>18 DEF vars
<1> HIDE DEF Same
<1> QED BY <1>1, <1>2, <1>3, <1>4, <1>5, <1>6, <1>7, <1>8, <1>9, <1>10, <1>11, <1>12, <1>13,
            <1>14, <1>15, <1>16, <1>17, <1>18 DEF Next

-----------------------------------------------------------------------------
(* The tasks that go on.                                                     *)

LEMMA StepOver ==
    SInv /\ [Next]_vars => \A v \in Workers : worker[v].pc \in {"over", "recorded"} =>
        worker'[v] = worker[v] \/ worker'[v].pc = "recorded"
<1> DEFINE Ends == \A v \in Workers : worker[v].pc \in {"over", "recorded"} =>
               worker'[v] = worker[v] \/ worker'[v].pc = "recorded"
<1> SUFFICES ASSUME SInv, [Next]_vars PROVE Ends
  OBVIOUS
<1>0. worker \in [Workers -> States]
  BY DEF SInv, TypeOK
<1>1. ASSUME UNCHANGED worker PROVE Ends
  BY <1>1
<1>2. ASSUME \/ CreateConversation \/ DeleteConversation \/ EditMessage \/ PostMessage
             \/ ConversationalReply \/ ShareConversation \/ PatchConversation \/ CreateWorkspace
             \/ DeleteWorkspace \/ AddAttachment \/ DeleteAttachment
      PROVE  UNCHANGED worker
  BY <1>2 DEF CreateConversation, DeleteConversation, EditMessage, PostMessage,
     ConversationalReply, ShareConversation, PatchConversation, CreateWorkspace,
     DeleteWorkspace, AddAttachment, DeleteAttachment, rows, pictures
<1>3. ASSUME NEW w \in Workers, StartTurn(w)
      PROVE  Ends
  BY <1>3, <1>0 DEF Free, Idle, StartTurn, Is
<1>4. ASSUME NEW w \in Workers, Reply(w)
      PROVE  Ends
  BY <1>4, <1>0 DEF Reply, Is
<1>5. ASSUME NEW w \in Workers, StartCompaction(w)
      PROVE  Ends
  BY <1>5, <1>0 DEF Free, Idle, StartCompaction, Is
<1>6. ASSUME NEW w \in Workers, FinishCompaction(w)
      PROVE  Ends
  BY <1>6, <1>0 DEF FinishCompaction, Is
<1>7. ASSUME NEW w \in Workers, ReadTask(w)
      PROVE  Ends
  BY <1>7, <1>0 DEF Free, Idle, ReadTask, Is
<1>8. ASSUME NEW w \in Workers, ResolveContinuation(w)
      PROVE  Ends
  BY <1>8, <1>0 DEF ResolveContinuation, Is
<1>9. ASSUME NEW w \in Workers, Ask(w)
      PROVE  Ends
  BY <1>9, <1>0 DEF Free, Idle, Ask, Is
<1>10. ASSUME NEW w \in Workers, Admit(w)
      PROVE  Ends
  BY <1>10, <1>0 DEF Admit, Is
<1>11. ASSUME NEW w \in Workers, Spawn(w)
      PROVE  Ends
  BY <1>11, <1>0 DEF Spawn, Is
<1>12. ASSUME NEW w \in Workers, Register(w)
      PROVE  Ends
  BY <1>12, <1>0 DEF Register, Is
<1>13. ASSUME NEW w \in Workers, End(w)
      PROVE  Ends
  BY <1>13, <1>0 DEF End, Is
<1>14. ASSUME NEW w \in Workers, Journal(w)
      PROVE  Ends
  BY <1>14, <1>0 DEF Journal, Is
<1>15. ASSUME NEW w \in Workers, Fork(w)
      PROVE  Ends
  BY <1>15, <1>0 DEF Free, Idle, Fork, Is
<1>16. ASSUME NEW w \in Workers, CopyFiles(w)
      PROVE  Ends
  BY <1>16, <1>0 DEF CopyFiles, Is
<1>17. ASSUME UNCHANGED vars PROVE UNCHANGED worker
  BY <1>17 DEF vars
<1> HIDE DEF Ends
<1> QED BY <1>1, <1>2, <1>3, <1>4, <1>5, <1>6, <1>7, <1>8, <1>9, <1>10, <1>11, <1>12, <1>13,
            <1>14, <1>15, <1>16, <1>17 DEF Next

LEMMA StillRecorded ==
    SInv /\ [Next]_vars => \A saved \in Saved \union {None} : Recorded(saved) => Recorded(saved)'
<1> SUFFICES ASSUME SInv, [Next]_vars, NEW saved \in Saved, Recorded(saved)
             PROVE  Recorded(saved)'
  BY DEF Recorded
<1>1. saved.run \in Workers
  BY DEF Saved
<1> QED
  BY <1>1, StepOver DEF Recorded

LEMMA StepRecorded == SInv /\ [Next]_vars => \A c \in Convs : Recorded(task[c])'
<1> SUFFICES ASSUME SInv, [Next]_vars PROVE \A c \in Convs : Recorded(task[c])'
  OBVIOUS
<1>0. task \in [Convs -> Saved \union {None}] /\ worker \in [Workers -> States] /\ TypeOK
  BY DEF SInv, TypeOK
<1> DEFINE Only == \A c \in Convs : task'[c] \in {task[c], None}
<1>1. ASSUME Only PROVE \A c \in Convs : Recorded(task[c])'
  <2> SUFFICES ASSUME NEW c \in Convs PROVE Recorded(task[c])'
    OBVIOUS
  <2>1. CASE task'[c] = None
    BY <2>1 DEF Recorded
  <2>2. CASE task'[c] = task[c]
    <3>1. Recorded(task[c]) /\ task[c] \in Saved \union {None}
      BY <1>0 DEF SInv, Resumed
    <3>2. \A saved \in Saved \union {None} : Recorded(saved) =>
              (saved # None /\ saved.status # "active" => worker'[saved.run].pc = "recorded")
      BY StillRecorded DEF Recorded
    <3> QED
      BY <2>2, <3>1, <3>2 DEF Recorded
  <2> QED
    BY <1>1, <2>1, <2>2
<1>2. ASSUME UNCHANGED task PROVE Only
  BY <1>2
<1>3. ASSUME NEW w \in Workers, Spawn(w) PROVE \A c \in Convs : Recorded(task[c])'
  <2> DEFINE c == worker[w].conv
             saved == [run |-> w, project |-> worker[w].project, status |-> "active"]
  <2>1. c \in Convs
    BY <1>0, <1>3, Kinds DEF Spawn, Is
  <2>2. CASE UNCHANGED task
    BY <1>1, <1>2, <2>2
  <2>3. CASE task' = [task EXCEPT ![c] = saved]
    <3>1. ASSUME NEW d \in Convs PROVE Recorded(task[d])'
      <4>1. CASE d = c
        <5>1. task'[d] = saved
          BY <1>0, <2>3, <4>1
        <5> QED
          BY <5>1 DEF Recorded
      <4>2. CASE d # c
        <5>1. task'[d] = task[d]
          BY <1>0, <2>3, <4>2
        <5>2. Recorded(task[d]) /\ task[d] \in Saved \union {None}
          BY <1>0 DEF SInv, Resumed
        <5>3. \A s \in Saved \union {None} : Recorded(s) =>
                  (s # None /\ s.status # "active" => worker'[s.run].pc = "recorded")
          BY StillRecorded DEF Recorded
        <5> QED
          BY <5>1, <5>2, <5>3 DEF Recorded
      <4> QED
        BY <4>1, <4>2
    <3> QED
      BY <3>1
  <2> QED
    BY <1>3, <2>2, <2>3 DEF Spawn
<1>4. ASSUME NEW w \in Workers, Journal(w) PROVE \A c \in Convs : Recorded(task[c])'
  <2> DEFINE c == worker[w].conv
  <2>1. c \in Convs /\ worker[w].outcome \in Outcomes
    BY <1>0, <1>4, Kinds DEF Journal, Is
  <2>2. worker'[w].pc = "recorded"
    BY <1>0, <1>4 DEF Journal
  <2>3. ASSUME NEW d \in Convs PROVE Recorded(task[d])'
    <3>1. CASE task'[d] = task[d]
      <4>1. Recorded(task[d]) /\ task[d] \in Saved \union {None}
        BY <1>0 DEF SInv, Resumed
      <4>2. \A s \in Saved \union {None} : Recorded(s) =>
                (s # None /\ s.status # "active" => worker'[s.run].pc = "recorded")
        BY StillRecorded DEF Recorded
      <4> QED
        BY <3>1, <4>1, <4>2 DEF Recorded
    <3>2. CASE d = c /\ task[c] # None /\ task[c].run = w
      <4>1. task[c] \in Saved /\ task'[d] = [task[c] EXCEPT !.status = worker[w].outcome]
        BY <1>0, <1>4, <2>1, <3>2 DEF Journal
      <4>2. task'[d].run = w
        BY <3>2, <4>1 DEF Saved
      <4> QED
        BY <2>2, <4>2 DEF Recorded
    <3> QED
      BY <1>0, <1>4, <2>1, <3>1, <3>2 DEF Journal
  <2> QED
    BY <2>3
<1>5. ASSUME \/ CreateConversation \/ PostMessage \/ ConversationalReply \/ ShareConversation
             \/ PatchConversation \/ CreateWorkspace \/ AddAttachment \/ DeleteAttachment
      PROVE  UNCHANGED task
  BY <1>5 DEF CreateConversation, PostMessage, ConversationalReply, ShareConversation,
     PatchConversation, CreateWorkspace, AddAttachment, DeleteAttachment, rows, pictures
<1>6. ASSUME NEW w \in Workers,
             \/ Reply(w) \/ StartCompaction(w) \/ FinishCompaction(w) \/ ReadTask(w)
             \/ ResolveContinuation(w) \/ Ask(w) \/ Admit(w) \/ Register(w)
             \/ End(w) \/ Fork(w) \/ CopyFiles(w)
      PROVE  UNCHANGED task
  BY <1>6 DEF Reply, StartCompaction, FinishCompaction, ReadTask, ResolveContinuation, Ask,
     Admit, Register, End, Fork, CopyFiles, rows, pictures
<1>7. ASSUME DeleteConversation
      PROVE  Only
  BY <1>7, <1>0 DEF DeleteConversation, Without
<1>8. ASSUME DeleteWorkspace
      PROVE  Only
  BY <1>8, <1>0 DEF DeleteWorkspace, Without
<1>9. ASSUME EditMessage
      PROVE  Only
  BY <1>9, <1>0 DEF EditMessage
<1>10. ASSUME NEW w \in Workers, StartTurn(w)
      PROVE  Only
  BY <1>10, <1>0 DEF StartTurn, Is
<1>11. ASSUME UNCHANGED vars PROVE UNCHANGED task
  BY <1>11 DEF vars
<1> HIDE DEF Only
<1> QED BY <1>1, <1>2, <1>3, <1>4, <1>5, <1>6, <1>7, <1>8, <1>9, <1>10, <1>11 DEF Next

LEMMA StepResolving ==
    SInv /\ [Next]_vars =>
        \A w \in Workers : worker'[w].pc = "resolving" => Recorded(worker[w].saved)'
<1> DEFINE Saves == \A v \in Workers : worker'[v].pc = "resolving" =>
               worker'[v] = worker[v] \/ \E c \in Convs : worker'[v].saved = task[c]
<1> SUFFICES ASSUME SInv, [Next]_vars
             PROVE  \A w \in Workers : worker'[w].pc = "resolving" => Recorded(worker[w].saved)'
  OBVIOUS
<1>0. task \in [Convs -> Saved \union {None}] /\ worker \in [Workers -> States] /\ TypeOK
  BY DEF SInv, TypeOK
<1>1. ASSUME UNCHANGED worker PROVE Saves
  BY <1>1
<1>2. ASSUME \/ CreateConversation \/ DeleteConversation \/ EditMessage \/ PostMessage
             \/ ConversationalReply \/ ShareConversation \/ PatchConversation \/ CreateWorkspace
             \/ DeleteWorkspace \/ AddAttachment \/ DeleteAttachment
      PROVE  UNCHANGED worker
  BY <1>2 DEF CreateConversation, DeleteConversation, EditMessage, PostMessage,
     ConversationalReply, ShareConversation, PatchConversation, CreateWorkspace,
     DeleteWorkspace, AddAttachment, DeleteAttachment, rows, pictures
<1>3. ASSUME NEW w \in Workers, StartTurn(w)
      PROVE  Saves
  BY <1>3, <1>0, Kinds DEF StartTurn, Is
<1>4. ASSUME NEW w \in Workers, Reply(w)
      PROVE  Saves
  BY <1>4, <1>0, Kinds DEF Reply, Is
<1>5. ASSUME NEW w \in Workers, StartCompaction(w)
      PROVE  Saves
  BY <1>5, <1>0, Kinds DEF StartCompaction, Is
<1>6. ASSUME NEW w \in Workers, FinishCompaction(w)
      PROVE  Saves
  BY <1>6, <1>0, Kinds DEF FinishCompaction, Is
<1>7. ASSUME NEW w \in Workers, ReadTask(w)
      PROVE  Saves
  BY <1>7, <1>0, Kinds DEF ReadTask, Is
<1>8. ASSUME NEW w \in Workers, ResolveContinuation(w)
      PROVE  Saves
  BY <1>8, <1>0, Kinds DEF ResolveContinuation, Is
<1>9. ASSUME NEW w \in Workers, Ask(w)
      PROVE  Saves
  BY <1>9, <1>0, Kinds DEF Ask, Is
<1>10. ASSUME NEW w \in Workers, Admit(w)
      PROVE  Saves
  BY <1>10, <1>0, Kinds DEF Admit, Is
<1>11. ASSUME NEW w \in Workers, Spawn(w)
      PROVE  Saves
  BY <1>11, <1>0, Kinds DEF Spawn, Is
<1>12. ASSUME NEW w \in Workers, Register(w)
      PROVE  Saves
  BY <1>12, <1>0, Kinds DEF Register, Is
<1>13. ASSUME NEW w \in Workers, End(w)
      PROVE  Saves
  BY <1>13, <1>0, Kinds DEF End, Is
<1>14. ASSUME NEW w \in Workers, Journal(w)
      PROVE  Saves
  BY <1>14, <1>0, Kinds DEF Journal, Is
<1>15. ASSUME NEW w \in Workers, Fork(w)
      PROVE  Saves
  BY <1>15, <1>0, Kinds DEF Fork, Is
<1>16. ASSUME NEW w \in Workers, CopyFiles(w)
      PROVE  Saves
  BY <1>16, <1>0, Kinds DEF CopyFiles, Is
<1>17. ASSUME UNCHANGED vars PROVE UNCHANGED worker
  BY <1>17 DEF vars
<1>18. Saves
  <2> HIDE DEF Saves
  <2> QED
    BY <1>1, <1>2, <1>3, <1>4, <1>5, <1>6, <1>7, <1>8, <1>9, <1>10, <1>11, <1>12,
        <1>13, <1>14, <1>15, <1>16, <1>17 DEF Next
<1> SUFFICES ASSUME NEW w \in Workers, worker'[w].pc = "resolving"
             PROVE  Recorded(worker[w].saved)'
  OBVIOUS
<1>19. PICK saved \in Saved \union {None} : worker'[w].saved = saved /\ Recorded(saved)
  <2>1. CASE worker'[w] = worker[w]
    <3>1. worker[w].pc = "resolving" /\ worker[w].saved \in Saved \union {None}
      BY <1>0, <2>1, Kinds
    <3> QED
      BY <2>1, <3>1 DEF SInv, Resumed
  <2>2. CASE \E c \in Convs : worker'[w].saved = task[c]
    BY <1>0, <2>2 DEF SInv, Resumed
  <2> QED
    BY <2>1, <2>2, <1>18
<1>20. saved # None /\ saved.status # "active" => worker'[saved.run].pc = "recorded"
  BY <1>19, StillRecorded DEF Recorded
<1> QED
  BY <1>19, <1>20 DEF Recorded

LEMMA StepContinues == SInv /\ [Next]_vars => ContinuesWhatIsOver'
<1> DEFINE Goes(v) == worker[v].pc \in {"admitted", "asked", "placed", "registered"} /\ worker[v].resumes # None
           Same == \A v \in Workers : Goes(v)' => Goes(v) /\ worker'[v].resumes = worker[v].resumes
<1> SUFFICES ASSUME SInv, [Next]_vars PROVE ContinuesWhatIsOver'
  OBVIOUS
<1>0. worker \in [Workers -> States] /\ TypeOK
  BY DEF SInv, TypeOK
<1>1. ASSUME NEW r \in Workers, worker[r].pc \in {"over", "recorded"}
      PROVE  worker'[r].pc \in {"over", "recorded"}
  BY <1>1, StepOver
<1>2. \A v \in Workers : Goes(v) =>
          worker[v].resumes \in Workers /\ worker[worker[v].resumes].pc \in {"over", "recorded"}
  <2>1. \A v \in Workers : Goes(v) => worker[v].resumes \in Workers
    BY <1>0, Kinds
  <2> QED
    BY <2>1 DEF SInv, Resumed, ContinuesWhatIsOver
<1>3. ASSUME Same PROVE ContinuesWhatIsOver'
  BY <1>1, <1>2, <1>3 DEF ContinuesWhatIsOver
<1>4. ASSUME UNCHANGED worker PROVE Same
  BY <1>4
<1>5. ASSUME NEW w \in Workers, ResolveContinuation(w) PROVE ContinuesWhatIsOver'
  <2> DEFINE saved == worker[w].saved
  <2>1. worker[w].pc = "resolving" /\ saved \in Saved \union {None} /\ Recorded(saved)
    BY <1>0, <1>5, Kinds DEF ResolveContinuation, Is, SInv, Resumed
  <2>2. \A v \in Workers : v # w => worker'[v] = worker[v]
    BY <1>0, <1>5 DEF ResolveContinuation
  <2>3. ASSUME Goes(w)'
        PROVE  worker'[w].resumes \in Workers /\ worker[worker'[w].resumes].pc \in {"over", "recorded"}
    <3>1. saved # None /\ Resumable(saved) /\ worker'[w].resumes = saved.run
      BY <1>0, <1>5, <2>3 DEF ResolveContinuation
    <3>2. saved \in Saved /\ saved.run \in Workers
      BY <2>1, <3>1 DEF Saved
    <3>3. worker[saved.run].pc \in {"over", "recorded"} \/ saved.status \in {"planned", "interrupted"}
      BY <3>1 DEF Resumable
    <3>4. saved.status \in {"planned", "interrupted"} => worker[saved.run].pc = "recorded"
      BY <2>1, <3>1 DEF Recorded
    <3> QED
      BY <3>1, <3>2, <3>3, <3>4
  <2>4. \A v \in Workers : Goes(v)' =>
            worker'[v].resumes \in Workers /\ worker[worker'[v].resumes].pc \in {"over", "recorded"}
    <3> SUFFICES ASSUME NEW v \in Workers, Goes(v)'
                 PROVE  /\ worker'[v].resumes \in Workers
                        /\ worker[worker'[v].resumes].pc \in {"over", "recorded"}
      OBVIOUS
    <3>1. CASE v = w
      BY <2>3, <3>1
    <3>2. CASE v # w
      BY <1>2, <2>2, <3>2
    <3> QED
      BY <3>1, <3>2
  <2> QED
    BY <1>1, <2>4 DEF ContinuesWhatIsOver
<1>6. ASSUME \/ CreateConversation \/ DeleteConversation \/ EditMessage \/ PostMessage
             \/ ConversationalReply \/ ShareConversation \/ PatchConversation \/ CreateWorkspace
             \/ DeleteWorkspace \/ AddAttachment \/ DeleteAttachment
      PROVE  UNCHANGED worker
  BY <1>6 DEF CreateConversation, DeleteConversation, EditMessage, PostMessage,
     ConversationalReply, ShareConversation, PatchConversation, CreateWorkspace,
     DeleteWorkspace, AddAttachment, DeleteAttachment, rows, pictures
<1>7. ASSUME NEW w \in Workers, StartTurn(w)
      PROVE  Same
  BY <1>7, <1>0, Kinds DEF StartTurn, Is
<1>8. ASSUME NEW w \in Workers, Reply(w)
      PROVE  Same
  BY <1>8, <1>0, Kinds DEF Reply, Is
<1>9. ASSUME NEW w \in Workers, StartCompaction(w)
      PROVE  Same
  BY <1>9, <1>0, Kinds DEF StartCompaction, Is
<1>10. ASSUME NEW w \in Workers, FinishCompaction(w)
      PROVE  Same
  BY <1>10, <1>0, Kinds DEF FinishCompaction, Is
<1>11. ASSUME NEW w \in Workers, ReadTask(w)
      PROVE  Same
  BY <1>11, <1>0, Kinds DEF ReadTask, Is
<1>12. ASSUME NEW w \in Workers, Ask(w)
      PROVE  Same
  BY <1>12, <1>0, Kinds DEF Ask, Is
<1>13. ASSUME NEW w \in Workers, Admit(w)
      PROVE  Same
  BY <1>13, <1>0, Kinds DEF Admit, Is
<1>14. ASSUME NEW w \in Workers, Spawn(w)
      PROVE  Same
  BY <1>14, <1>0, Kinds DEF Spawn, Is
<1>15. ASSUME NEW w \in Workers, Register(w)
      PROVE  Same
  BY <1>15, <1>0, Kinds DEF Register, Is
<1>16. ASSUME NEW w \in Workers, End(w)
      PROVE  Same
  BY <1>16, <1>0, Kinds DEF End, Is
<1>17. ASSUME NEW w \in Workers, Journal(w)
      PROVE  Same
  BY <1>17, <1>0, Kinds DEF Journal, Is
<1>18. ASSUME NEW w \in Workers, Fork(w)
      PROVE  Same
  BY <1>18, <1>0, Kinds DEF Fork, Is
<1>19. ASSUME NEW w \in Workers, CopyFiles(w)
      PROVE  Same
  BY <1>19, <1>0, Kinds DEF CopyFiles, Is
<1>20. ASSUME UNCHANGED vars PROVE UNCHANGED worker
  BY <1>20 DEF vars
<1> HIDE DEF Same
<1> QED BY <1>3, <1>4, <1>5, <1>6, <1>7, <1>8, <1>9, <1>10, <1>11, <1>12, <1>13, <1>14, <1>15,
            <1>16, <1>17, <1>18, <1>19, <1>20 DEF Next

-----------------------------------------------------------------------------
(* The attachments.                                                          *)

\* What is spoilt by a change in c: the rows of the forks to it and from it.
Changes(c, e) ==
    \E w \in Workers : Copying(w) /\ worker[w].conv = e /\ c \in {worker[w].conv, worker[w].source}

LEMMA SpoiltIs ==
    \A c \in Convs, R \in SUBSET Rows : \A b \in Spoilt(c, R) :
        /\ \E a \in R : b.conv = a.conv
        /\ ~b.spoilt => ~Changes(c, b.conv)
        /\ ~Changes(c, b.conv) => b \in R
<1> SUFFICES ASSUME NEW c \in Convs, NEW R \in SUBSET Rows, NEW b \in Spoilt(c, R)
             PROVE  /\ \E a \in R : b.conv = a.conv
                    /\ ~b.spoilt => ~Changes(c, b.conv)
                    /\ ~Changes(c, b.conv) => b \in R
  OBVIOUS
<1>1. PICK a \in R : b = IF Changes(c, a.conv) THEN [a EXCEPT !.spoilt = TRUE] ELSE a
  BY DEF Spoilt, Changes, Copying
<1>2. a \in Rows
  OBVIOUS
<1>3. [a EXCEPT !.spoilt = TRUE].conv = a.conv /\ [a EXCEPT !.spoilt = TRUE].spoilt
  BY <1>2 DEF Rows
<1> QED
  BY <1>1, <1>3

LEMMA ForkedIs ==
    TypeOK => \A c, d \in Convs : \A b \in Forked(c, d) :
        /\ b.conv = d
        /\ ~b.spoilt => ~Onto(c)
        /\ ~Onto(c) => \E a \in attachments : a.conv = c /\ b = [a EXCEPT !.conv = d]
<1> SUFFICES ASSUME TypeOK, NEW c \in Convs, NEW d \in Convs, NEW b \in Forked(c, d)
             PROVE  /\ b.conv = d
                    /\ ~b.spoilt => ~Onto(c)
                    /\ ~Onto(c) => \E a \in attachments : a.conv = c /\ b = [a EXCEPT !.conv = d]
  OBVIOUS
<1>1. PICK a \in attachments : /\ a.conv = c
                               /\ b = IF Onto(c) THEN [[a EXCEPT !.conv = d] EXCEPT !.spoilt = TRUE]
                                      ELSE [a EXCEPT !.conv = d]
  BY DEF Forked, Onto, Copying
<1>2. a \in Rows
  BY DEF TypeOK
<1>3. /\ [a EXCEPT !.conv = d].conv = d
      /\ [[a EXCEPT !.conv = d] EXCEPT !.spoilt = TRUE].conv = d
      /\ [[a EXCEPT !.conv = d] EXCEPT !.spoilt = TRUE].spoilt
  BY <1>2 DEF Rows
<1> QED
  BY <1>1, <1>3

\* Nothing but rows that go, and no copying that starts or ends.
Quiet ==
    /\ attachments' \subseteq attachments /\ UNCHANGED files
    /\ \A v \in Workers : Copying(v) \/ Copying(v)' => worker'[v] = worker[v]

LEMMA StillForking ==
    ASSUME SInv, [Next]_vars,
           \A v \in Workers : Copying(v)' => worker'[v] = worker[v]
    PROVE  Forking'
<1>1. \A v \in Workers : Copying(v) => worker[v].conv \in Convs /\ worker[v].source \in Convs
  BY Kinds DEF SInv, Copying
<1>2. Forking
  BY DEF SInv, Attached
<1>3. \A v \in Workers : Copying(v)' => Copying(v) /\ worker'[v] = worker[v]
  BY DEF Copying
<1> QED
  BY <1>1, <1>2, <1>3, StepAged DEF Forking, Aged

LEMMA QuietIs == SInv /\ [Next]_vars /\ Quiet => Attached'
<1> SUFFICES ASSUME SInv, [Next]_vars, Quiet PROVE Attached'
  OBVIOUS
<1>1. Apart /\ Sourced /\ AttachmentsHaveTheirBytes /\ attachments \in SUBSET Rows
  BY DEF SInv, Attached, TypeOK
<1>2. Apart'
  <2>1. \A a \in attachments' : a \in attachments /\ a.conv \in Convs
    BY <1>1 DEF Quiet, Rows
  <2> QED
    BY <1>1, <2>1, StepAged DEF Apart, Aged
<1>3. Forking'
  BY StillForking DEF Quiet
<1>4. \A v \in Workers : Copying(v)' <=> Copying(v)
  BY DEF Quiet, Copying
<1>5. \A c : Onto(c)' <=> Onto(c)
  BY <1>4 DEF Quiet, Onto
<1>6. Sourced'
  BY <1>1, <1>4, <1>5 DEF Quiet, Sourced
<1>7. AttachmentsHaveTheirBytes'
  BY <1>1, <1>4 DEF Quiet, AttachmentsHaveTheirBytes, Copying
<1> QED
  BY <1>2, <1>3, <1>6, <1>7 DEF Attached

\* A change in c, which leaves the files of the others alone: what is not spoilt
\* afterwards was a row before, of another name, or is the new one.
LEMMA ChangedIs ==
    ASSUME SInv, [Next]_vars, UNCHANGED worker, NEW c \in Convs, NEW n \in Names,
           NEW R \in SUBSET Rows, attachments' = Spoilt(c, R),
           conversations'[c].status # "new",
           \A a \in R : a.conv = c \/ \E b \in attachments : b.conv = a.conv,
           \A a, b \in R : a.conv = b.conv /\ a.name = b.name => a = b \/ a.spoilt,
           \A a \in R : ~a.spoilt =>
              \/ a \in attachments /\ ~(a.conv = c /\ a.name = n)
              \/ a.conv = c /\ a.name = n /\ files'[c][n] = a.bytes,
           \A d \in Convs, m \in Names : ~(d = c /\ m = n) => files'[d][m] = files[d][m]
    PROVE  Attached'
<1>1. Apart /\ Sourced /\ AttachmentsHaveTheirBytes /\ attachments \in SUBSET Rows
  BY DEF SInv, Attached, TypeOK
<1>2. \A b \in attachments' :
          /\ \E a \in R : b.conv = a.conv
          /\ ~b.spoilt => ~Changes(c, b.conv)
          /\ ~Changes(c, b.conv) => b \in R
  BY SpoiltIs
<1>3. Apart'
  <2>1. ASSUME NEW a \in attachments', NEW b \in attachments', a.conv = b.conv, a.name = b.name, ~a.spoilt
        PROVE  a = b
    <3>1. a \in R /\ b \in R
      BY <1>2, <2>1
    <3> QED
      BY <2>1, <3>1
  <2>2. ASSUME NEW b \in attachments' PROVE conversations'[b.conv].status # "new"
    <3>1. PICK a \in R : b.conv = a.conv
      BY <1>2
    <3>2. CASE a.conv = c
      BY <3>1, <3>2
    <3>3. CASE \E e \in attachments : e.conv = a.conv
      <4>1. a.conv \in Convs /\ conversations[a.conv].status # "new"
        BY <1>1, <3>3 DEF Apart, Rows
      <4> QED
        BY <3>1, <4>1, StepAged DEF Aged
    <3> QED
      BY <3>2, <3>3
  <2> QED
    BY <2>1, <2>2 DEF Apart
<1>4. Forking'
  BY StillForking
<1>5. \A v \in Workers : Copying(v)' <=> Copying(v)
  BY DEF Copying
<1>6. \A e : Onto(e)' <=> Onto(e)
  BY <1>5 DEF Onto
<1>7. ASSUME NEW w \in Workers, Copying(w), NEW b \in attachments', b.conv = worker[w].conv, ~b.spoilt
      PROVE  files'[worker[w].source][b.name] = b.bytes /\ ~Onto(worker[w].source)
  <2>1. b \in R /\ worker[w].conv # c /\ worker[w].source # c
    BY <1>2, <1>7 DEF Changes
  <2>2. b \in attachments /\ b.name \in Names /\ worker[w].source \in Convs
    BY <1>1, <1>7, <2>1, Kinds DEF Rows, Copying, SInv
  <2>3. files[worker[w].source][b.name] = b.bytes /\ ~Onto(worker[w].source)
    BY <1>1, <1>7, <2>2 DEF Sourced
  <2> QED
    BY <2>1, <2>2, <2>3
<1>8. Sourced'
  BY <1>5, <1>6, <1>7 DEF Sourced
<1>9. ASSUME NEW b \in attachments', ~b.spoilt
      PROVE  files'[b.conv][b.name] = b.bytes \/ \E w \in Workers : Copying(w) /\ worker[w].conv = b.conv
  <2>1. b \in R
    BY <1>2, <1>9
  <2>2. CASE b \in attachments /\ ~(b.conv = c /\ b.name = n)
    <3>1. b.conv \in Convs /\ b.name \in Names
      BY <1>1, <2>2 DEF Rows
    <3> QED
      BY <1>1, <1>9, <2>2, <3>1 DEF AttachmentsHaveTheirBytes, Copying
  <2> QED
    BY <1>9, <2>1, <2>2
<1>10. AttachmentsHaveTheirBytes'
  BY <1>5, <1>9 DEF AttachmentsHaveTheirBytes, Copying
<1> QED
  BY <1>3, <1>4, <1>8, <1>10 DEF Attached

LEMMA StepAttached == SInv /\ [Next]_vars => Attached'
<1> SUFFICES ASSUME SInv, [Next]_vars PROVE Attached'
  OBVIOUS
<1>0. /\ worker \in [Workers -> States] /\ TypeOK /\ attachments \in SUBSET Rows /\ fresh \in Nat
      /\ files \in [Convs -> [Names -> Nat \union {None}]]
      /\ conversations \in [Convs -> Conversations]
      /\ Apart /\ Forking /\ Sourced /\ AttachmentsHaveTheirBytes
  BY DEF SInv, TypeOK, Attached
<1>1. ASSUME UNCHANGED <<attachments, files, worker>> PROVE Quiet
  BY <1>1 DEF Quiet
<1>2. ASSUME DeleteAttachment PROVE Attached'
  <2>1. PICK a \in attachments :
            /\ attachments' = Spoilt(a.conv, attachments \ {a})
            /\ files' = [files EXCEPT ![a.conv][a.name] = None]
            /\ UNCHANGED <<rows, worker>>
    BY <1>2 DEF DeleteAttachment
  <2>2. a.conv \in Convs /\ a.name \in Names /\ attachments \ {a} \in SUBSET Rows
    BY <1>0 DEF Rows
  <2>3. conversations'[a.conv].status # "new"
    BY <1>0, <2>1, <2>2 DEF Apart, rows
  <2>4. \A b \in attachments \ {a} : ~b.spoilt => ~(b.conv = a.conv /\ b.name = a.name)
    BY <1>0 DEF Apart
  <2>5. \A d \in Convs, m \in Names : ~(d = a.conv /\ m = a.name) => files'[d][m] = files[d][m]
    BY <1>0, <2>1, <2>2
  <2> DEFINE R == attachments \ {a}
  <2>6. /\ \A b \in R : \E e \in attachments : e.conv = b.conv
        /\ \A b, e \in R : b.conv = e.conv /\ b.name = e.name => b = e \/ b.spoilt
        /\ \A b \in R : ~b.spoilt => b \in attachments /\ ~(b.conv = a.conv /\ b.name = a.name)
        /\ R \in SUBSET Rows /\ attachments' = Spoilt(a.conv, R)
    BY <1>0, <2>1, <2>2, <2>4 DEF Apart
  <2>7. UNCHANGED worker
    BY <2>1
  <2> HIDE DEF R
  <2> QED
    BY <2>2, <2>3, <2>5, <2>6, <2>7, ChangedIs
<1>3. ASSUME AddAttachment PROVE Attached'
  <2> DEFINE marked(c, n) ==
                {IF a.conv = c /\ a.name = n THEN [a EXCEPT !.spoilt = TRUE] ELSE a : a \in attachments}
             twice(c, n) == \E a \in attachments : a.conv = c /\ a.name = n
             new(c, n) == [conv |-> c, name |-> n, bytes |-> fresh, spoilt |-> twice(c, n)]
  <2>1. PICK c \in Convs, n \in Names :
            /\ Live(c) /\ files' = [files EXCEPT ![c][n] = fresh]
            /\ attachments' = Spoilt(c, marked(c, n) \union {new(c, n)})
            /\ UNCHANGED <<rows, worker>>
    BY <1>3, Zenon DEF AddAttachment
  <2> DEFINE M == marked(c, n)
             N == new(c, n)
             t == twice(c, n)
  <2>2. /\ N \in Rows /\ N.conv = c /\ N.name = n /\ N.bytes = fresh /\ (t => N.spoilt)
    <3>1. \A b \in BOOLEAN : LET r == [conv |-> c, name |-> n, bytes |-> fresh, spoilt |-> b] IN
              r \in Rows /\ r.conv = c /\ r.name = n /\ r.bytes = fresh /\ (b => r.spoilt)
      BY <1>0 DEF Rows
    <3>2. t \in BOOLEAN
      OBVIOUS
    <3> HIDE DEF twice
    <3> QED
      BY <3>1, <3>2
  <2>3. ASSUME NEW r \in M
        PROVE  \E a \in attachments :
                  /\ r \in Rows /\ r.conv = a.conv /\ r.name = a.name
                  /\ IF a.conv = c /\ a.name = n THEN r.spoilt ELSE r = a
    <3>1. PICK a \in attachments : r = IF a.conv = c /\ a.name = n THEN [a EXCEPT !.spoilt = TRUE] ELSE a
      OBVIOUS
    <3>2. a \in Rows
      BY <1>0
    <3>3. LET s == [a EXCEPT !.spoilt = TRUE] IN
              s \in Rows /\ s.conv = a.conv /\ s.name = a.name /\ s.spoilt
      BY <3>2 DEF Rows
    <3> QED
      BY <3>1, <3>2, <3>3
  <2>4. \A r \in M : r.conv = c /\ r.name = n => t
    BY <2>3
  <2>5. attachments' = Spoilt(c, M \union {N})
    BY <2>1
  <2> HIDE DEF M, N
  <2>6. M \union {N} \in SUBSET Rows
    BY <2>2, <2>3
  <2>7. conversations'[c].status # "new"
    BY <2>1 DEF Live, rows
  <2>8. \A a \in M \union {N} : a.conv = c \/ \E b \in attachments : b.conv = a.conv
    BY <2>2, <2>3
  <2>9. ASSUME NEW a \in M \union {N}, NEW b \in M \union {N}, a.conv = b.conv, a.name = b.name, ~a.spoilt
        PROVE  a = b
    <3>1. CASE a.conv = c /\ a.name = n
      <4>1. ~\E r \in M : r = a
        BY <2>3, <2>9, <3>1
      <4>2. a = N /\ ~t
        BY <2>2, <2>9, <4>1
      <4> QED
        BY <2>4, <2>9, <3>1, <4>2
    <3>2. CASE ~(a.conv = c /\ a.name = n)
      <4>1. a \in M /\ b \in M
        BY <2>2, <2>9, <3>2
      <4>2. a \in attachments /\ b \in attachments
        BY <2>3, <2>9, <3>2, <4>1
      <4> QED
        BY <1>0, <2>9, <4>2 DEF Apart
    <3> QED
      BY <3>1, <3>2
  <2>10. ASSUME NEW a \in M \union {N}, ~a.spoilt
         PROVE  \/ a \in attachments /\ ~(a.conv = c /\ a.name = n)
                \/ a.conv = c /\ a.name = n /\ files'[c][n] = a.bytes
    <3>1. files'[c][n] = fresh
      BY <1>0, <2>1
    <3> QED
      BY <2>2, <2>3, <2>10, <3>1
  <2>11. \A d \in Convs, m \in Names : ~(d = c /\ m = n) => files'[d][m] = files[d][m]
    BY <1>0, <2>1
  <2>12. UNCHANGED worker
    BY <2>1
  <2> QED
    BY <2>5, <2>6, <2>7, <2>8, <2>9, <2>10, <2>11, <2>12, ChangedIs
<1>4. ASSUME NEW w \in Workers, Fork(w) PROVE Attached'
  <2>1. PICK c \in Convs, d \in Convs :
            /\ Live(c) /\ conversations[d].status = "new"
            /\ conversations' = [conversations EXCEPT ![d] = conversations[c]]
            /\ attachments' = attachments \union Forked(c, d)
            /\ worker' = [worker EXCEPT ![w] = [pc |-> "copying", conv |-> d, source |-> c]]
            /\ UNCHANGED files /\ worker[w] = Idle
    BY <1>4 DEF Fork, Free
  <2>2. c # d /\ conversations[c].status # "new"
    BY <2>1 DEF Live
  <2>3. \A b \in Forked(c, d) :
            /\ b.conv = d
            /\ ~b.spoilt => ~Onto(c)
            /\ ~Onto(c) => \E a \in attachments : a.conv = c /\ b = [a EXCEPT !.conv = d]
    BY <1>0, ForkedIs
  <2>4. /\ worker'[w] = [pc |-> "copying", conv |-> d, source |-> c]
        /\ \A v \in Workers : v # w => worker'[v] = worker[v]
        /\ ~Copying(w)
    BY <1>0, <2>1 DEF Copying, Idle
  <2>5. \A v \in Workers : v # w => (Copying(v)' <=> Copying(v))
    BY <2>4 DEF Copying
  <2>6. conversations'[d].status # "new" /\ \A e \in Convs : e # d => conversations'[e] = conversations[e]
    BY <1>0, <2>1, <2>2
  <2>7. \A a \in attachments : a.conv \in Convs /\ a.conv # d /\ a \in Rows
    BY <1>0, <2>1 DEF Apart, Rows
  <2>8. ASSUME NEW b \in Forked(c, d), ~b.spoilt
        PROVE  /\ ~Onto(c)
               /\ \E a \in attachments : a.conv = c /\ b = [a EXCEPT !.conv = d] /\ ~a.spoilt
                                         /\ a.name = b.name /\ a.bytes = b.bytes
    <3>1. PICK a \in attachments : a.conv = c /\ b = [a EXCEPT !.conv = d]
      BY <2>3, <2>8
    <3>2. b.spoilt = a.spoilt /\ b.name = a.name /\ b.bytes = a.bytes
      BY <2>7, <3>1 DEF Rows
    <3> QED
      BY <2>3, <2>8, <3>1, <3>2
  <2>9. Apart'
    <3>1. ASSUME NEW a \in attachments', NEW b \in attachments', a.conv = b.conv, a.name = b.name, ~a.spoilt
          PROVE  a = b
      <4>1. CASE a \in attachments
        <5>1. b \in attachments
          BY <2>1, <2>3, <2>7, <3>1, <4>1
        <5> QED
          BY <1>0, <3>1, <4>1, <5>1 DEF Apart
      <4>2. CASE a \in Forked(c, d)
        <5>1. b \in Forked(c, d)
          BY <2>1, <2>3, <2>7, <3>1, <4>2
        <5>2. PICK x \in attachments : /\ x.conv = c /\ a = [x EXCEPT !.conv = d] /\ ~x.spoilt
                                       /\ x.name = a.name
          BY <2>8, <3>1, <4>2
        <5>3. PICK y \in attachments : y.conv = c /\ b = [y EXCEPT !.conv = d]
          BY <2>3, <2>8, <3>1, <4>2, <5>1
        <5>4. y.name = b.name
          BY <2>7, <5>3 DEF Rows
        <5>5. x = y
          BY <1>0, <3>1, <5>2, <5>3, <5>4 DEF Apart
        <5> QED
          BY <5>2, <5>3, <5>5
      <4> QED
        BY <2>1, <4>1, <4>2
    <3>2. ASSUME NEW a \in attachments' PROVE conversations'[a.conv].status # "new"
      BY <1>0, <2>1, <2>3, <2>6, <2>7 DEF Apart
    <3> QED
      BY <3>1, <3>2 DEF Apart
  <2>10. Forking'
    <3>1. ASSUME NEW v \in Workers, Copying(v)'
          PROVE  /\ conversations'[worker'[v].conv].status # "new"
                 /\ conversations'[worker'[v].source].status # "new"
                 /\ worker'[v].conv # worker'[v].source
      <4>1. CASE v = w
        BY <2>2, <2>4, <2>6, <4>1
      <4>2. CASE v # w
        <5>1. Copying(v) /\ worker'[v] = worker[v]
          BY <2>4, <2>5, <3>1, <4>2
        <5>2. worker[v].conv \in Convs /\ worker[v].source \in Convs
          BY <1>0, <5>1, Kinds DEF Copying
        <5>3. /\ conversations[worker[v].conv].status # "new"
              /\ conversations[worker[v].source].status # "new"
              /\ worker[v].conv # worker[v].source
          BY <1>0, <5>1 DEF Forking
        <5> QED
          BY <2>1, <2>6, <5>1, <5>2, <5>3
      <4> QED
        BY <4>1, <4>2
    <3>2. \A v \in Workers : Copying(v) => worker[v].conv # d
      BY <1>0, <2>1 DEF Forking
    <3>3. ASSUME NEW u \in Workers, NEW v \in Workers, Copying(u)', Copying(v)',
                 worker'[u].conv = worker'[v].conv
          PROVE  u = v
      <4>1. CASE u # w /\ v # w
        BY <1>0, <2>4, <2>5, <3>3, <4>1 DEF Forking
      <4>2. CASE u = w \/ v = w
        BY <2>4, <2>5, <3>2, <3>3, <4>2
      <4> QED
        BY <4>1, <4>2
    <3> QED
      BY <3>1, <3>3 DEF Forking
  <2>11. \A e : e # d => (Onto(e)' <=> Onto(e))
    BY <2>4, <2>5 DEF Onto
  <2>12. ASSUME NEW v \in Workers, Copying(v)', NEW b \in attachments', b.conv = worker'[v].conv, ~b.spoilt
         PROVE  files'[worker'[v].source][b.name] = b.bytes /\ ~Onto(worker[v].source)'
    <3>1. CASE v = w
      <4>1. b.conv = d /\ worker'[v].source = c
        BY <2>4, <2>12, <3>1
      <4>2. b \in Forked(c, d)
        BY <2>1, <2>7, <2>12, <4>1
      <4>3. PICK a \in attachments : a.conv = c /\ ~a.spoilt /\ a.name = b.name /\ a.bytes = b.bytes
        BY <2>8, <2>12, <4>2
      <4>4. ~Onto(c)
        BY <2>8, <2>12, <4>2
      <4>5. files[c][a.name] = a.bytes
        BY <1>0, <4>3, <4>4 DEF AttachmentsHaveTheirBytes, Onto, Copying
      <4>6. ~Onto(c)'
        BY <2>2, <2>11, <4>4
      <4> QED
        BY <2>1, <4>1, <4>3, <4>5, <4>6 DEF Onto
    <3>2. CASE v # w
      <4>1. Copying(v) /\ worker'[v] = worker[v]
        BY <2>4, <2>5, <2>12, <3>2
      <4>2. worker[v].conv # d /\ worker[v].source # d
        BY <1>0, <2>1, <4>1 DEF Forking
      <4>3. b \in attachments
        BY <2>1, <2>3, <2>12, <4>1, <4>2
      <4>4. files[worker[v].source][b.name] = b.bytes /\ ~Onto(worker[v].source)
        BY <1>0, <2>12, <4>1, <4>3 DEF Sourced
      <4>5. ~Onto(worker[v].source)'
        <5>1. \A u \in Workers : ~(Copying(u)' /\ worker'[u].conv = worker[v].source)
          BY <2>4, <2>5, <4>2, <4>4 DEF Onto
        <5> QED
          BY <4>1, <5>1 DEF Onto
      <4> QED
        BY <2>1, <4>1, <4>4, <4>5 DEF Onto
    <3> QED
      BY <3>1, <3>2
  <2>13. Sourced'
    BY <2>12 DEF Sourced
  <2>14. AttachmentsHaveTheirBytes'
    <3>1. ASSUME NEW b \in attachments', ~b.spoilt
          PROVE  files'[b.conv][b.name] = b.bytes \/ \E v \in Workers : Copying(v)' /\ worker'[v].conv = b.conv
      <4>1. CASE b \in Forked(c, d)
        BY <2>3, <2>4, <4>1 DEF Copying
      <4>2. CASE b \in attachments
        BY <1>0, <2>1, <2>4, <2>5, <3>1, <4>2 DEF AttachmentsHaveTheirBytes, Copying
      <4> QED
        BY <2>1, <4>1, <4>2
    <3> QED
      BY <3>1 DEF AttachmentsHaveTheirBytes, Copying
  <2> QED
    BY <2>9, <2>10, <2>13, <2>14 DEF Attached
<1>5. ASSUME NEW w \in Workers, CopyFiles(w) PROVE Attached'
  <2> DEFINE d == worker[w].conv
             s == worker[w].source
  <2>1. /\ Copying(w) /\ d \in Convs /\ s \in Convs /\ d # s
        /\ files' = [files EXCEPT ![d] = Copied(w)]
        /\ worker' = [worker EXCEPT ![w] = [pc |-> "done", conv |-> d]]
        /\ UNCHANGED <<conversations, attachments>>
    <3>1. Copying(w)
      BY <1>5 DEF CopyFiles, Is, Copying
    <3>2. d \in Convs /\ s \in Convs
      BY <1>0, <3>1, Kinds DEF Copying
    <3> QED
      BY <1>0, <1>5, <3>1, <3>2 DEF CopyFiles, Forking, rows
  <2>2. \A v \in Workers : Copying(v)' => v # w /\ Copying(v) /\ worker'[v] = worker[v]
    BY <1>0, <2>1 DEF Copying
  <2>3. \A v \in Workers : v # w => worker'[v] = worker[v] /\ (Copying(v)' <=> Copying(v))
    BY <1>0, <2>1 DEF Copying
  <2>4. /\ \A e \in Convs : e # d => files'[e] = files[e]
        /\ \A n \in Names : files[s][n] # None => files'[d][n] = files[s][n]
    BY <1>0, <2>1 DEF Copied
  <2>5. Apart'
    BY <1>0, <2>1 DEF Apart
  <2>6. Forking'
    BY <2>2, StillForking
  <2>7. ASSUME NEW v \in Workers, Copying(v)', NEW b \in attachments, b.conv = worker'[v].conv, ~b.spoilt
        PROVE  files'[worker'[v].source][b.name] = b.bytes /\ ~Onto(worker[v].source)'
    <3>1. v # w /\ Copying(v) /\ worker'[v] = worker[v]
      BY <2>2, <2>7
    <3>2. files[worker[v].source][b.name] = b.bytes /\ ~Onto(worker[v].source)
      BY <1>0, <2>7, <3>1 DEF Sourced
    <3>3. worker[v].source # d /\ worker[v].source \in Convs
      BY <1>0, <2>1, <3>1, <3>2, Kinds DEF Onto, Copying
    <3>4. ~Onto(worker[v].source)'
      <4>1. \A u \in Workers : ~(Copying(u)' /\ worker'[u].conv = worker[v].source)
        BY <2>2, <3>2 DEF Onto
      <4> QED
        BY <3>1, <4>1 DEF Onto
    <3> QED
      BY <2>4, <3>1, <3>2, <3>3, <3>4
  <2>8. Sourced'
    BY <2>1, <2>7 DEF Sourced
  <2>9. ASSUME NEW b \in attachments, ~b.spoilt
        PROVE  files'[b.conv][b.name] = b.bytes \/ \E v \in Workers : Copying(v)' /\ worker'[v].conv = b.conv
    <3>1. b.conv \in Convs /\ b.name \in Names /\ b.bytes \in Nat
      BY <1>0 DEF Rows
    <3>2. CASE b.conv = d
      <4>1. files[s][b.name] = b.bytes
        BY <1>0, <2>1, <2>9, <3>2 DEF Sourced
      <4>2. b.bytes # None
        BY <3>1, NothingAssumption
      <4> QED
        BY <2>4, <3>1, <3>2, <4>1, <4>2
    <3>3. CASE b.conv # d
      BY <1>0, <2>3, <2>4, <2>9, <3>1, <3>3 DEF AttachmentsHaveTheirBytes, Copying
    <3> QED
      BY <3>2, <3>3
  <2>10. AttachmentsHaveTheirBytes'
    BY <2>1, <2>9 DEF AttachmentsHaveTheirBytes, Copying
  <2> QED
    BY <2>5, <2>6, <2>8, <2>10 DEF Attached
<1>6. ASSUME \/ CreateConversation \/ EditMessage \/ PostMessage \/ ConversationalReply
             \/ ShareConversation \/ PatchConversation \/ CreateWorkspace
      PROVE  UNCHANGED <<attachments, files, worker>>
  BY <1>6 DEF CreateConversation, EditMessage, PostMessage, ConversationalReply,
     ShareConversation, PatchConversation, CreateWorkspace, rows, pictures
<1>7. ASSUME DeleteConversation
      PROVE  Quiet
  BY <1>7, <1>0, Kinds DEF Quiet, Copying, pictures, DeleteConversation, Without
<1>8. ASSUME DeleteWorkspace
      PROVE  Quiet
  BY <1>8, <1>0, Kinds DEF Quiet, Copying, pictures, DeleteWorkspace, Without
<1>9. ASSUME NEW w \in Workers, StartTurn(w)
      PROVE  Quiet
  BY <1>9, <1>0, Kinds DEF Quiet, Copying, pictures, Free, Idle, rows, StartTurn, Is
<1>10. ASSUME NEW w \in Workers, Reply(w)
      PROVE  Quiet
  BY <1>10, <1>0, Kinds DEF Quiet, Copying, pictures, Reply, Is
<1>11. ASSUME NEW w \in Workers, StartCompaction(w)
      PROVE  Quiet
  BY <1>11, <1>0, Kinds DEF Quiet, Copying, pictures, Free, Idle, rows, StartCompaction, Is
<1>12. ASSUME NEW w \in Workers, FinishCompaction(w)
      PROVE  Quiet
  BY <1>12, <1>0, Kinds DEF Quiet, Copying, pictures, FinishCompaction, Is
<1>13. ASSUME NEW w \in Workers, ReadTask(w)
      PROVE  Quiet
  BY <1>13, <1>0, Kinds DEF Quiet, Copying, pictures, Free, Idle, rows, ReadTask, Is
<1>14. ASSUME NEW w \in Workers, ResolveContinuation(w)
      PROVE  Quiet
  BY <1>14, <1>0, Kinds DEF Quiet, Copying, pictures, ResolveContinuation, Is
<1>15. ASSUME NEW w \in Workers, Ask(w)
      PROVE  Quiet
  BY <1>15, <1>0, Kinds DEF Quiet, Copying, pictures, Free, Idle, rows, Ask, Is
<1>16. ASSUME NEW w \in Workers, Admit(w)
      PROVE  Quiet
  BY <1>16, <1>0, Kinds DEF Quiet, Copying, pictures, Admit, Is
<1>17. ASSUME NEW w \in Workers, Spawn(w)
      PROVE  Quiet
  BY <1>17, <1>0, Kinds DEF Quiet, Copying, pictures, Spawn, Is
<1>18. ASSUME NEW w \in Workers, Register(w)
      PROVE  Quiet
  BY <1>18, <1>0, Kinds DEF Quiet, Copying, pictures, rows, Register, Is
<1>19. ASSUME NEW w \in Workers, End(w)
      PROVE  Quiet
  BY <1>19, <1>0, Kinds DEF Quiet, Copying, pictures, rows, End, Is
<1>20. ASSUME NEW w \in Workers, Journal(w)
      PROVE  Quiet
  BY <1>20, <1>0, Kinds DEF Quiet, Copying, pictures, Journal, Is
<1>21. ASSUME UNCHANGED vars PROVE UNCHANGED <<attachments, files, worker>>
  BY <1>21 DEF vars
<1> HIDE DEF Quiet
<1> QED BY QuietIs, <1>1, <1>2, <1>3, <1>4, <1>5, <1>6, <1>7, <1>8, <1>9, <1>10, <1>11, <1>12,
            <1>13, <1>14, <1>15, <1>16, <1>17, <1>18, <1>19, <1>20, <1>21 DEF Next

-----------------------------------------------------------------------------
(* The invariant.                                                            *)

LEMMA First == Init => SInv
<1> SUFFICES ASSUME Init PROVE SInv
  OBVIOUS
<1>1. PICK start \in Starts :
          /\ scene = [operations |-> start.operations, workers |-> start.workers]
          /\ conversations = start.conversations
          /\ messages = [c \in Convs |-> [i \in 1..(IF conversations[c].status = "live"
                                                    THEN start.length ELSE 0) |-> Message(i)]]
          /\ fresh = 1 + start.length
          /\ summaries = [c \in Convs |-> None]
          /\ task = [c \in Convs |-> None]
          /\ workspaces = start.workspaces
  BY DEF Init
<1>2. /\ attachments = {} /\ files = [c \in Convs |-> [n \in Names |-> None]]
      /\ worker = [w \in Workers |-> Idle] /\ edits = 0
  BY DEF Init
<1>3. /\ start.operations \in SUBSET Operations /\ start.workers \in Nat /\ start.length \in Nat
      /\ start.conversations \in [Convs -> Conversations]
      /\ start.workspaces \in [Projects -> {"new", "registered", "removed"}]
  <2>1. start \in [operations : SUBSET Operations, workers : Nat, length : Nat,
                   conversations : [Convs -> Conversations],
                   workspaces : [Projects -> {"new", "registered", "removed"}]]
    BY SessionsAssumption
  <2> QED
    BY <2>1
<1>4. ASSUME NEW c \in Convs
      PROVE  /\ messages[c] \in Seq(Messages)
             /\ \A i \in 1..Len(messages[c]) : messages[c][i].id < fresh
  <2> DEFINE n == IF conversations[c].status = "live" THEN start.length ELSE 0
  <2>1. messages[c] = [i \in 1..n |-> Message(i)] /\ n \in Nat /\ n <= start.length
    BY <1>1, <1>3
  <2> HIDE DEF n
  <2>2. messages[c] \in [1..n -> Messages] /\ \A i \in 1..n : messages[c][i].id = i
    BY <2>1 DEF Message, Messages
  <2>3. messages[c] \in Seq(Messages) /\ Len(messages[c]) = n
    BY <2>1, <2>2, Sequence
  <2>4. \A i \in 1..n : i < fresh
    BY <1>1, <1>3, <2>1
  <2> QED
    BY <2>2, <2>3, <2>4
<1>5. TypeOK
  <2>1. messages \in [Convs -> Seq(Messages)]
    BY <1>1, <1>4
  <2>2. worker \in [Workers -> States]
    BY <1>2 DEF States
  <2> QED
    BY <1>1, <1>2, <1>3, <2>1, <2>2 DEF TypeOK
<1>6. Numbered
  BY <1>4 DEF Numbered
<1>7. Summarized /\ Placed /\ Resumed
  BY <1>1, <1>2 DEF Summarized, Standing, Folding, Placed, Asking, Resumed, Recorded,
     ContinuesWhatIsOver, Idle
<1>8. Attached
  BY <1>2 DEF Attached, Apart, Forking, Sourced, Copying, AttachmentsHaveTheirBytes, Idle
<1> QED
  BY <1>5, <1>6, <1>7, <1>8 DEF SInv

\* The invariant of Sessions: every handler keeps it.
THEOREM Storing == Spec => []SInv
<1>1. SInv /\ [Next]_vars => SInv'
  <2> SUFFICES ASSUME SInv, [Next]_vars PROVE SInv'
    OBVIOUS
  <2>1. TypeOK'
    BY StepTypeOK
  <2>2. Numbered'
    BY StepHistory DEF History
  <2>3. Summarized'
    BY StepStanding, StepFolding DEF Summarized
  <2>4. Placed'
    BY StepPlaced
  <2>5. Resumed'
    BY StepRecorded, StepResolving, StepContinues DEF Resumed
  <2>6. Attached'
    BY StepAttached
  <2> QED
    BY <2>1, <2>2, <2>3, <2>4, <2>5, <2>6 DEF SInv
<1> QED
  BY <1>1, First, PTL DEF Spec

-----------------------------------------------------------------------------
\* A summary the model is shown was made of the very messages it stands for
\* (api.rs:6876): however many are appended, edited or taken while it is made.
THEOREM SessionsSummaryIsOfItsPrefix == Spec => []SummaryIsOfItsPrefix
<1>1. SInv => SummaryIsOfItsPrefix
  BY CoveredIs DEF SummaryIsOfItsPrefix
<1> QED
  BY <1>1, Storing, PTL

\* The run that works for a code session works in the session's project
\* (api.rs:5819), whatever happens to either after the user's message.
THEOREM SessionsRunWorksInItsProject == Spec => []RunWorksInItsProject
<1>1. SInv => RunWorksInItsProject
  BY Kinds DEF SInv, Placed, Asking, Fits, RunWorksInItsProject, Working
<1> QED
  BY <1>1, Storing, PTL

\* A resumed task is one no run works on any more (api.rs:5692).
THEOREM SessionsContinuesWhatIsOver == Spec => []ContinuesWhatIsOver
<1>1. SInv => ContinuesWhatIsOver
  BY DEF SInv, Resumed
<1> QED
  BY <1>1, Storing, PTL

\* An attachment has its bytes, however often its conversation is forked, unless
\* its name was used twice or a source changed under a copy (api.rs:5159, 8327).
THEOREM SessionsAttachmentsHaveTheirBytes == Spec => []AttachmentsHaveTheirBytes
<1>1. SInv => AttachmentsHaveTheirBytes
  BY DEF SInv, Attached
<1> QED
  BY <1>1, Storing, PTL

-----------------------------------------------------------------------------
(* The artifacts of a conversation.                                          *)

CONSTANT MaxVersions \* bound: files written
VARIABLE shelf \* files and rows of a conversation, as Documents has them

Doc == INSTANCE Documents

ShelfBegins == shelf = Doc!New
ShelfSpec == ShelfBegins /\ [][shelf' \in Doc!Next(shelf)]_shelf

OnShelf == UNION {[S -> Nat] : S \in SUBSET Names}
Artifacts == [name : Names, version : Nat]
Shelves == [files : OnShelf, rows : Seq(Artifacts), next : Nat, last : {"none", "failed", "saved"}]

\* Beside the property: what has been written and recorded so far has an earlier version
\* than what comes next.
DInv(d) ==
    /\ d \in Shelves
    /\ \A n \in DOMAIN d.files : d.files[n] < d.next
    /\ \A i \in DOMAIN d.rows :
          d.rows[i].name \in DOMAIN d.files /\ d.rows[i].version <= d.files[d.rows[i].name]

\* What a shelf is made of.
LEMMA ShelfTypes ==
    ASSUME NEW d \in Shelves
    PROVE  /\ d.files \in OnShelf /\ d.next \in Nat /\ d.rows \in Seq(Artifacts)
           /\ \A n \in DOMAIN d.files : d.files[n] \in Nat
           /\ \A i \in DOMAIN d.rows : d.rows[i] \in Artifacts /\ d.rows[i].version \in Nat
<1>1. d.files \in OnShelf /\ d.next \in Nat /\ d.rows \in Seq(Artifacts)
  BY DEF Shelves
<1>2. \A n \in DOMAIN d.files : d.files[n] \in Nat
  <2>1. PICK S \in SUBSET Names : d.files \in [S -> Nat]
    BY <1>1 DEF OnShelf
  <2> QED BY <2>1
<1>3. \A i \in DOMAIN d.rows : d.rows[i] \in Artifacts
  BY <1>1
<1>4. \A a \in Artifacts : a.version \in Nat
  BY DEF Artifacts
<1> QED BY <1>1, <1>2, <1>3, <1>4

\* A file put on the shelf replaces the one of its name and no other.
LEMMA FilePut ==
    ASSUME NEW stored \in OnShelf, NEW name \in Names, NEW version \in Nat
    PROVE  /\ Doc!Put(stored, name, version) \in OnShelf
           /\ DOMAIN Doc!Put(stored, name, version) = DOMAIN stored \union {name}
           /\ Doc!Put(stored, name, version)[name] = version
           /\ \A n \in DOMAIN stored : n # name => Doc!Put(stored, name, version)[n] = stored[n]
<1>1. PICK S \in SUBSET Names : stored \in [S -> Nat]
  BY DEF OnShelf
<1>2. Doc!Put(stored, name, version) \in [S \union {name} -> Nat]
  BY <1>1 DEF Doc!Put
<1>3. S \union {name} \in SUBSET Names
  OBVIOUS
<1> QED BY <1>1, <1>2, <1>3 DEF Doc!Put, OnShelf

\* A file that was written keeps the rows there are true, and the one recorded of it.
LEMMA Written ==
    ASSUME NEW d, DInv(d), NEW name \in Names, NEW u \in Shelves,
           u.files = Doc!Put(d.files, name, d.next), u.next = d.next + 1,
           u.rows \in {d.rows, Append(d.rows, [name |-> name, version |-> d.next])}
    PROVE  DInv(u)
<1> DEFINE row == [name |-> name, version |-> d.next]
<1>1. /\ d \in Shelves /\ d.files \in OnShelf /\ d.next \in Nat /\ d.rows \in Seq(Artifacts)
      /\ \A i \in DOMAIN d.rows : d.rows[i].version \in Nat
  BY ShelfTypes DEF DInv
<1>2. /\ DOMAIN u.files = DOMAIN d.files \union {name} /\ u.files[name] = d.next
      /\ \A n \in DOMAIN d.files : n # name => u.files[n] = d.files[n]
  <2> DEFINE put == Doc!Put(d.files, name, d.next)
  <2>1. /\ DOMAIN put = DOMAIN d.files \union {name} /\ put[name] = d.next
        /\ \A n \in DOMAIN d.files : n # name => put[n] = d.files[n]
    BY <1>1, FilePut
  <2>2. u.files = put
    OBVIOUS
  <2> HIDE DEF put
  <2> QED BY <2>1, <2>2
<1>3. \A n \in DOMAIN d.files : d.files[n] \in Nat /\ d.files[n] < d.next
  BY <1>1, ShelfTypes DEF DInv
<1>4. \A n \in DOMAIN u.files : u.files[n] < u.next
  BY <1>1, <1>2, <1>3
<1>5. \A i \in DOMAIN d.rows :
          d.rows[i].name \in DOMAIN u.files /\ d.rows[i].version <= u.files[d.rows[i].name]
  <2> SUFFICES ASSUME NEW i \in DOMAIN d.rows
               PROVE  d.rows[i].name \in DOMAIN u.files /\ d.rows[i].version <= u.files[d.rows[i].name]
    OBVIOUS
  <2>1. d.rows[i].name \in DOMAIN d.files /\ d.rows[i].version <= d.files[d.rows[i].name]
    BY DEF DInv
  <2>2. CASE d.rows[i].name = name
    BY <1>1, <1>2, <1>3, <2>1, <2>2
  <2>3. CASE d.rows[i].name # name
    BY <1>2, <2>1, <2>3
  <2> QED BY <2>2, <2>3
<1>6. \A i \in DOMAIN u.rows :
          (i \in DOMAIN d.rows /\ u.rows[i] = d.rows[i]) \/ u.rows[i] = row
  <2>1. row \in Artifacts
    BY <1>1 DEF Artifacts
  <2> HIDE DEF row
  <2>2. CASE u.rows = d.rows
    BY <2>2
  <2>3. CASE u.rows = Append(d.rows, row)
    BY <1>1, <2>1, <2>3, AppendProperties
  <2> QED BY <2>2, <2>3 DEF row
<1>7. \A i \in DOMAIN u.rows :
          u.rows[i].name \in DOMAIN u.files /\ u.rows[i].version <= u.files[u.rows[i].name]
  <2> SUFFICES ASSUME NEW i \in DOMAIN u.rows
               PROVE  u.rows[i].name \in DOMAIN u.files /\ u.rows[i].version <= u.files[u.rows[i].name]
    OBVIOUS
  <2>1. row.name = name /\ row.version = d.next
    OBVIOUS
  <2> HIDE DEF row
  <2>2. CASE u.rows[i] = row
    BY <1>1, <1>2, <2>1, <2>2
  <2> QED BY <1>5, <1>6, <2>2
<1> QED BY <1>4, <1>7 DEF DInv

\* Of two rows of a name the later one is not newer than the file either.
LEMMA RowsStand == ASSUME NEW d, DInv(d) PROVE Doc!RowsHaveFiles(d)
<1> SUFFICES ASSUME NEW i \in DOMAIN d.rows
             PROVE  /\ d.rows[i].name \in DOMAIN d.files
                    /\ d.files[d.rows[i].name] >= d.rows[i].version
                    /\ \A j \in DOMAIN d.rows : i < j /\ d.rows[j].name = d.rows[i].name =>
                          d.files[d.rows[i].name] >= d.rows[j].version
  BY DEF Doc!RowsHaveFiles
<1>1. \A j \in DOMAIN d.rows :
         /\ d.rows[j].name \in DOMAIN d.files /\ d.rows[j].version <= d.files[d.rows[j].name]
         /\ d.rows[j].version \in Nat /\ d.files[d.rows[j].name] \in Nat
  BY ShelfTypes DEF DInv
<1> QED BY <1>1

\* However often documents are written under whichever names, and at whichever step a call
\* fails (store, record_artifact): every recorded artifact has a file, which holds what was
\* recorded or what a later call wrote under the same name.
THEOREM ArtifactsHaveFiles == ShelfSpec => []Doc!RowsHaveFiles(shelf)
<1>1. ShelfBegins => DInv(shelf)
  <2> SUFFICES ASSUME ShelfBegins PROVE DInv(shelf)
    OBVIOUS
  <2>1. <<>> \in OnShelf
    <3>1. <<>> \in [{} -> Nat]
      OBVIOUS
    <3> QED BY <3>1 DEF OnShelf
  <2>2. <<>> \in Seq(Artifacts) /\ DOMAIN <<>> = {}
    OBVIOUS
  <2>3. shelf.files = <<>> /\ shelf.rows = <<>> /\ shelf \in Shelves
    BY <2>1, <2>2 DEF ShelfBegins, Doc!New, Shelves
  <2> QED BY <2>2, <2>3 DEF DInv
<1>2. DInv(shelf) /\ [shelf' \in Doc!Next(shelf)]_shelf => DInv(shelf)'
  <2> SUFFICES ASSUME DInv(shelf), shelf' \in Doc!Next(shelf) PROVE DInv(shelf')
    BY DEF DInv
  <2>1. PICK name \in Names, fails \in {"no", "write", "validate", "record"} :
            shelf' = Doc!Save(shelf, name, fails)
    BY DEF Doc!Next
  <2>2. /\ shelf.files \in OnShelf /\ shelf.next \in Nat
        /\ shelf.rows \in Seq(Artifacts) /\ shelf \in Shelves
    BY ShelfTypes DEF DInv
  <2> DEFINE row == [name |-> name, version |-> shelf.next]
  <2> DEFINE put == Doc!Put(shelf.files, name, shelf.next)
             more == Append(shelf.rows, row)
  <2>3. put \in OnShelf /\ more \in Seq(Artifacts) /\ shelf.next + 1 \in Nat
    <3>1. row \in Artifacts
      BY <2>2 DEF Artifacts
    <3>2. put \in OnShelf
      BY <2>2, FilePut
    <3>3. more \in Seq(Artifacts)
      <4> HIDE DEF row
      <4> QED BY <2>2, <3>1, AppendProperties
    <3> QED BY <2>2, <3>2, <3>3
  <2> HIDE DEF put, more
  <2>4. CASE fails = "write"
    <3>1. shelf' = [shelf EXCEPT !.last = "failed"]
      BY <2>1, <2>4 DEF Doc!Save
    <3>2. /\ shelf' \in Shelves /\ shelf'.files = shelf.files /\ shelf'.rows = shelf.rows
          /\ shelf'.next = shelf.next
      BY <2>2, <3>1 DEF Shelves
    <3> QED BY <3>2 DEF DInv
  <2>5. CASE fails \in {"validate", "record"}
    <3>1. shelf' = [shelf EXCEPT !.files = put, !.next = @ + 1, !.last = "failed"]
      BY <2>1, <2>5 DEF Doc!Save, put
    <3>2. /\ shelf' \in Shelves /\ shelf'.files = put
          /\ shelf'.next = shelf.next + 1 /\ shelf'.rows = shelf.rows
      BY <2>2, <2>3, <3>1 DEF Shelves
    <3> QED BY <3>2, Written DEF put
  <2>6. CASE fails = "no"
    <3>1. shelf' = [shelf EXCEPT !.files = put, !.next = @ + 1, !.last = "saved",
                                 !.rows = more]
      BY <2>1, <2>6 DEF Doc!Save, put, more
    <3>2. /\ shelf' \in Shelves /\ shelf'.files = put
          /\ shelf'.next = shelf.next + 1 /\ shelf'.rows = more
      BY <2>2, <2>3, <3>1 DEF Shelves
    <3> QED BY <3>2, Written DEF put, more
  <2> QED BY <2>1, <2>4, <2>5, <2>6
<1>3. DInv(shelf) => Doc!RowsHaveFiles(shelf)
  BY RowsStand
<1> QED BY <1>1, <1>2, <1>3, PTL DEF ShelfSpec

-----------------------------------------------------------------------------
(* The cached index of a workspace's folder.                                 *)

CONSTANT MaxClock \* bound: seconds, and changes of the folder's top level
VARIABLE index \* a folder and its cached index, as Knowledge has them

Know == INSTANCE Knowledge

IndexBegins == index = Know!NewFolder
IndexSpec == IndexBegins /\ [][index' \in Know!NextFolder(index)]_index

FolderIndexes ==
    [top : Nat, mtime : Nat, clock : Nat, cache : [mtime : Int, top : Int],
     building : [mtime : Int, top : Int, clock : Int], seconds : SUBSET Int]

\* What is cached was read at a second since which all those of the walk are kept.
Cached(f) ==
    /\ f.cache.mtime <= f.mtime
    /\ f.cache.mtime >= 0 =>
          \E s \in Nat, e \in Nat :
              s <= e /\ e <= f.clock /\ f.cache.mtime <= s /\ f.seconds = s..e
    /\ Know!TopIsFresh(f)

\* Between the two reads of a build: the folder is as it was or was changed since.
Walking(f) ==
    f.building # Know!Idle =>
        /\ f.building.mtime \in Nat /\ f.building.top \in Nat /\ f.building.clock \in Nat
        /\ f.building.mtime <= f.building.clock /\ f.building.clock <= f.clock
        /\ f.building.mtime <= f.mtime /\ f.building.top <= f.top
        /\ f.building.top = f.top \/ f.mtime >= f.building.clock

KInv(f) == f \in FolderIndexes /\ f.mtime <= f.clock /\ Cached(f) /\ Walking(f)

\* A second passes.
LEMMA Ticks == ASSUME NEW f, KInv(f), NEW u \in Know!Tick(f) PROVE KInv(u)
<1>1. u = [f EXCEPT !.clock = f.clock + 1]
  BY DEF Know!Tick
<1>2. /\ u \in FolderIndexes /\ u.clock = f.clock + 1 /\ u.top = f.top /\ u.mtime = f.mtime
      /\ u.cache = f.cache /\ u.building = f.building /\ u.seconds = f.seconds
  BY <1>1 DEF KInv, FolderIndexes
<1>3. f.clock \in Nat /\ f.mtime \in Nat
  BY DEF KInv, FolderIndexes
<1>4. Cached(u)
  BY <1>2, <1>3 DEF KInv, Cached, Know!TopIsFresh
<1>5. Walking(u)
  BY <1>2, <1>3 DEF KInv, Walking
<1> QED BY <1>2, <1>3, <1>4, <1>5 DEF KInv

\* The top level changes: in the second of the cached time only if it was walked in it.
LEMMA Touches == ASSUME NEW f, KInv(f), NEW u \in Know!Touch(f) PROVE KInv(u)
<1>1. u = [f EXCEPT !.top = f.top + 1, !.mtime = f.clock]
  BY DEF Know!Touch
<1>2. /\ u \in FolderIndexes /\ u.clock = f.clock /\ u.top = f.top + 1 /\ u.mtime = f.clock
      /\ u.cache = f.cache /\ u.building = f.building /\ u.seconds = f.seconds
  <2>1. f.top + 1 \in Nat /\ f.clock \in Nat
    BY DEF KInv, FolderIndexes
  <2> QED BY <1>1, <2>1 DEF KInv, FolderIndexes
<1>3. f.clock \in Nat /\ f.mtime \in Nat /\ f.top \in Nat /\ f.cache.mtime \in Int /\ f.mtime <= f.clock
  BY DEF KInv, FolderIndexes
<1>4. Cached(u)
  <2>1. f.cache.mtime <= f.clock
    BY <1>3 DEF KInv, Cached
  <2>2. ASSUME f.cache.mtime = f.clock PROVE f.clock \in f.seconds
    <3>1. PICK s \in Nat, e \in Nat : s <= e /\ e <= f.clock /\ f.cache.mtime <= s /\ f.seconds = s..e
      BY <1>3, <2>2 DEF KInv, Cached
    <3>2. s = f.clock /\ e = f.clock
      BY <1>3, <2>2, <3>1
    <3> QED BY <3>1, <3>2
  <2> QED BY <1>2, <1>3, <2>1, <2>2 DEF KInv, Cached, Know!TopIsFresh
<1>5. Walking(u)
  BY <1>2, <1>3 DEF KInv, Walking
<1> QED BY <1>2, <1>3, <1>4, <1>5 DEF KInv

\* The time is read before the walk.
LEMMA WalkBegins == ASSUME NEW f, KInv(f), NEW u \in Know!BeginBuild(f) PROVE KInv(u)
<1>1. u = [f EXCEPT !.building = [mtime |-> f.mtime, top |-> f.top, clock |-> f.clock]]
  BY DEF Know!BeginBuild
<1>2. /\ u \in FolderIndexes /\ u.clock = f.clock /\ u.top = f.top /\ u.mtime = f.mtime
      /\ u.cache = f.cache /\ u.seconds = f.seconds
      /\ u.building.mtime = f.mtime /\ u.building.top = f.top /\ u.building.clock = f.clock
  BY <1>1 DEF KInv, FolderIndexes
<1>3. f.clock \in Nat /\ f.mtime \in Nat /\ f.top \in Nat /\ f.mtime <= f.clock
  BY DEF KInv, FolderIndexes
<1>4. Cached(u)
  BY <1>2 DEF KInv, Cached, Know!TopIsFresh
<1>5. Walking(u)
  BY <1>2, <1>3 DEF Walking
<1> QED BY <1>2, <1>3, <1>4, <1>5 DEF KInv

\* What is kept is of the time that was read, and of the top level at some second since.
LEMMA WalkEnds == ASSUME NEW f, KInv(f), NEW u \in Know!EndBuild(f) PROVE KInv(u)
<1>1. f.building # Know!Idle
  BY DEF Know!EndBuild
<1>2. PICK top \in f.building.top..f.top :
          u = [f EXCEPT !.cache = [mtime |-> f.building.mtime, top |-> top], !.building = Know!Idle,
                        !.seconds = f.building.clock..f.clock]
  BY <1>1 DEF Know!EndBuild
<1>3. /\ f.clock \in Nat /\ f.mtime \in Nat /\ f.top \in Nat /\ f.mtime <= f.clock
      /\ f.building.mtime \in Nat /\ f.building.top \in Nat /\ f.building.clock \in Nat
      /\ f.building.mtime <= f.building.clock /\ f.building.clock <= f.clock
      /\ f.building.mtime <= f.mtime /\ f.building.top <= f.top
      /\ f.building.top = f.top \/ f.mtime >= f.building.clock
  BY <1>1 DEF KInv, FolderIndexes, Walking
<1>4. /\ u \in FolderIndexes /\ u.clock = f.clock /\ u.top = f.top /\ u.mtime = f.mtime
      /\ u.cache.mtime = f.building.mtime /\ u.cache.top = top /\ u.building = Know!Idle
      /\ u.seconds = f.building.clock..f.clock
  <2> DEFINE cache == [mtime |-> f.building.mtime, top |-> top]
             seconds == f.building.clock..f.clock
  <2>1. cache \in [mtime : Int, top : Int] /\ cache.mtime = f.building.mtime /\ cache.top = top
    BY <1>3
  <2>2. seconds \in SUBSET Int /\ Know!Idle \in [mtime : Int, top : Int, clock : Int]
    BY <1>3 DEF Know!Idle
  <2>3. u = [f EXCEPT !.cache = cache, !.building = Know!Idle, !.seconds = seconds]
    BY <1>2
  <2> HIDE DEF cache, seconds
  <2>4. /\ u \in FolderIndexes /\ u.clock = f.clock /\ u.top = f.top /\ u.mtime = f.mtime
        /\ u.cache = cache /\ u.building = Know!Idle /\ u.seconds = seconds
    BY <2>1, <2>2, <2>3 DEF KInv, FolderIndexes
  <2> QED BY <2>1, <2>4 DEF seconds
<1>5. Know!TopIsFresh(u)
  BY <1>3, <1>4 DEF Know!TopIsFresh
<1>6. Cached(u)
  BY <1>3, <1>4, <1>5 DEF Cached
<1>7. Walking(u)
  BY <1>4 DEF Walking
<1> QED BY <1>3, <1>4, <1>6, <1>7 DEF KInv

\* However often the top level of a folder changes while its index is built and asked for
\* (cached_repo_index): an index that is answered with tells the top level as it is, unless
\* the folder changed in a second in which it was being walked.
THEOREM IndexTellsTop == IndexSpec => []Know!TopIsFresh(index)
<1>1. IndexBegins => KInv(index)
  BY DEF IndexBegins, Know!NewFolder, Know!Idle, KInv, FolderIndexes, Cached, Walking, Know!TopIsFresh
<1>2. KInv(index) /\ [index' \in Know!NextFolder(index)]_index => KInv(index)'
  <2>1. KInv(index) /\ index' \in Know!NextFolder(index) => KInv(index')
    BY Ticks, Touches, WalkBegins, WalkEnds DEF Know!NextFolder
  <2> QED BY <2>1
<1>3. KInv(index) => Know!TopIsFresh(index)
  BY DEF KInv, Cached
<1> QED BY <1>1, <1>2, <1>3, PTL DEF IndexSpec
===============================================================================
