------------------------ MODULE SessionContentProofs ------------------------
(***************************************************************************)
(* Theorems about what the events of SessionLog are: that a flush makes    *)
(* them durable, a load returns durable ones, a resume continues them and  *)
(* crash repair closes no log that is live; that the file only grows and   *)
(* repair converges; and that the coordinator implements DurableLog.       *)
(*                                                                         *)
(* Inv of SessionLogProofs relates numbers and lengths.  Content adds that *)
(* the file is the beginning of its owner's log, that an event of a life   *)
(* is stored, queued or part of its seed, in which order lives come, and   *)
(* that nobody prepares a session that is live.                            *)
(***************************************************************************)
EXTENDS SessionLogProofs

-----------------------------------------------------------------------------
(* The inductive invariant.                                                *)

Starters == {"create", "suffix"}
OpOf(op, l) == [op |-> op, by |-> l]
Among(o, c) == \E i \in DOMAIN c : c[i] = o
Flushing == {"asked", "draining"}

\* A life that is open or has an entry.
Present(l) == sessions[l].at = "open" \/ live[l].init # "none"

\* The first event of the file, and of every log, is of a life that was born; a
\* torn file is nobody's, and no life that is present begins as it does.  The
\* closers of crash repair are in the file before they are in a log.
FileInv ==
  /\ disk.made => disk.log # <<>>
  /\ \A l \in Lives : sessions[l].at = "unborn" =>
       /\ disk.made => disk.log[1].by # l
       /\ \A k \in Lives : sessions[k].log # <<>> => sessions[k].log[1].by # l
  /\ disk.torn =>
       /\ disk.made /\ ~states.tracked
       /\ \A l \in Lives : Present(l) =>
            /\ disk.log[1].by # l
            /\ sessions[l].log # <<>> => sessions[l].log[1].by = l
  /\ \A l \in Lives : \A n \in 1 .. Len(sessions[l].log) :
       sessions[l].log[n].by = None => n <= Len(disk.log)

\* The file begins its owner's log, and the cursor is its length; what is tracked
\* without an owner is a balanced log.
OwnerInv ==
  /\ ~states.tracked => states = Untracked
  /\ ~states.made => states.cursor = 0
  /\ states.made =>
       disk.made /\ (job.does # "appended" => states.cursor = Len(disk.log))
  /\ states.tracked /\ states.owner = None =>
       states.made /\ InterruptedTurnClosers(disk.log) = <<>>
  /\ states.owner # None =>
       /\ states.tracked /\ sessions[states.owner].at # "unborn"
       /\ Begins(disk.log, sessions[states.owner].log)

\* The batch is the part of the owner's log behind the cursor; a repair is of an
\* id that is not tracked, for the reader that has the entry.
BatchInv ==
  /\ job.does \in {"append", "appended"} =>
       /\ states.owner = Head1.by /\ job.batch # <<>>
       /\ states.cursor + Len(job.batch) <= Len(sessions[Head1.by].log)
       /\ \A i \in 1 .. Len(job.batch) :
            job.batch[i] = sessions[Head1.by].log[states.cursor + i]
       /\ Head1.op = "write" => \A i \in DOMAIN live[Head1.by].w.active :
            live[Head1.by].w.active[i] <= states.cursor + Len(job.batch)
  /\ job.does = "appended" =>
       disk.made /\ states.cursor + Len(job.batch) = Len(disk.log)
  /\ job.does \in {"repair", "repaired"} =>
       disk.made /\ ~states.tracked /\ readers[Head1.by].holds

\* The events a life answers for: those of a session that is listened to, or that
\* a flush was asked for.
Claims(v, s, on) ==
  {n \in 1 .. Len(s.log) : on \/ (v.flush \in Flushing /\ n <= v.upto)}
IsHeld(w, n) == \E i \in 1 .. Len(Held(w)) : Held(w)[i] = n
Kept(s, n, stored) == n <= Len(stored) /\ stored[n] = s.log[n]

\* ... are stored or queued, or of its seed while it is not initialized.
Safe(v, s, on, stored) ==
  /\ v.flush \in Flushing => v.upto <= Len(s.log)
  /\ v.init = "pending" =>
       \A n \in Claims(v, s, on) : n <= s.born \/ IsHeld(v.w, n)
  /\ v.init = "ok" =>
       \A n \in Claims(v, s, on) : Kept(s, n, stored) \/ IsHeld(v.w, n)
  /\ v.init = "none" => v = NoLive
  /\ on /\ s.at = "gone" /\ v.init = "none" => Begins(s.log, stored)
  /\ on /\ s.at = "open" => v.init # "none"

\* A life with work, or that may get some, owns the id.
Owns(v, s, owned) ==
  v.init \in {"ok", "broken"} /\ (HasWork(v.w) \/ s.at = "open") => owned

ContentInv ==
  \A l \in Lives :
    /\ Safe(live[l], sessions[l], plugin = "on", disk.log)
    /\ Owns(live[l], sessions[l], states.owner = l)

\* Lives are born and initialized in the order of their numbers, and only the
\* last one is open; one that still waits for it is open, or the retirement, or
\* followed by another.  An absent plugin leaves nobody behind.
BornInv ==
  /\ \A k, l \in Lives : k < l =>
       /\ sessions[k].at \in {"unborn", "open"} => sessions[l].at = "unborn"
       /\ live[k].init = "pending" => live[l].init \in {"none", "pending"}
  /\ plugin = "on" => \A l \in Lives : live[l].init = "pending" =>
       \/ sessions[l].at = "open" \/ retirement = l
       \/ \E k \in Lives : l < k /\ live[k].init = "pending"
  /\ plugin = "off" => \A l \in Lives : sessions[l].at # "gone"

Ordered(c) ==
  \A i, j \in DOMAIN c : i < j /\ c[i].op \in Starters /\ c[j].op \in Starters =>
    c[i].by < c[j].by

\* A read of the current entry.
Fetches(o) == o.op = "read" /\ o.by # None
OneFetch(c) == \A i, j \in DOMAIN c : Fetches(c[i]) /\ Fetches(c[j]) => i = j
SomeFetch(c) == \E i \in DOMAIN c : Fetches(c[i])

\* What waits in the chain: every initialization, in order; a retirement behind
\* its flush; the suffix of a resumed life that owns the id; one read, of the entry
\* that is loading.
OrderInv ==
  /\ Ordered(chain) /\ OneFetch(chain)
  /\ SomeFetch(chain) => entry.phase = "loading"
  /\ \A l \in Lives :
       /\ live[l].init = "pending" => \E op \in Starters : Among(OpOf(op, l), chain)
       /\ plugin = "on" /\ Among(OpOf("retire", l), chain) => live[l].flush = "no"
       /\ Among(OpOf("suffix", l), chain) =>
            states.owner = l /\ states.made /\ states.cursor < sessions[l].born

\* Only an id that is not live is prepared, and nothing by an absent plugin.
ColdInv ==
  /\ plugin = "on" /\ entry.phase # "none" =>
       /\ retirement = None
       /\ \A l \in Lives : sessions[l].at # "open" /\ live[l].init # "pending"
  /\ plugin = "off" => entry.phase = "none"

\* An entry is empty until it is read, and then holds what the file was, and its
\* closers.
Growing == IF job.does = "appended" THEN Len(job.batch) ELSE 0
WellRead(s) ==
  s.seen.made /\ s.log = Stored(s.seen) \o InterruptedTurnClosers(Stored(s.seen))
EntryInv ==
  /\ entry.phase \in {"none", "loading"} => entry.source = NoSource
  /\ entry.phase \in {"ready", "committing", "reserved"} =>
       /\ WellRead(entry.source)
       /\ Len(entry.source.seen.log) + Growing <= Len(disk.log)

\* One caller at most commits or reserves the entry; one that lost it knows less
\* than the file holds.  The log of a reservation is the file's.  A live load has
\* events its flush was asked for, and one that is done has durable ones.
Taken(c) == c.at \in {"commit", "held"}
Holder(c) == c.holds /\ Taken(c)
Waits(c, lv, ss) ==
  /\ c.of \in Lives /\ lv[c.of].flush \in Flushing
  /\ Len(c.source.log) <= lv[c.of].upto
  /\ Begins(c.source.log, ss[c.of].log)
Call(c, e, stored, st, lv, ss) ==
  /\ c.holds => c.at \in {"join", "check", "commit", "held"} /\ e.phase # "none"
  /\ c.holds /\ e.phase = "loading" => c.at = "join" /\ c.source = NoSource
  /\ c.at = "check" => c.call = "inspect"
  /\ Holder(c) => c.source = e.source
  /\ c.at = "commit" /\ c.holds => e.phase = "committing"
  /\ c.at = "commit" /\ ~c.holds => Len(c.source.seen.log) < Len(stored)
  /\ c.at = "held" =>
       /\ c.holds /\ e.phase = "reserved"
       /\ st.tracked /\ st.owner = None /\ c.source.log = stored
  /\ c.at = "live" => Waits(c, lv, ss)
  /\ c.at = "done" /\ c.call = "load" =>
       Balanced(c.source.log) /\ Begins(c.source.log, stored)
CallInv ==
  /\ \A r \in Readers : Call(readers[r], entry, disk.log, states, live, sessions)
  /\ \A q, r \in Readers : Holder(readers[q]) /\ Holder(readers[r]) => q = r

Content ==
  /\ FileInv /\ OwnerInv /\ BatchInv /\ ContentInv
  /\ BornInv /\ OrderInv /\ ColdInv /\ EntryInv /\ CallInv

-----------------------------------------------------------------------------
(* The chain: what waits in it, and in which order.                        *)

LifeSteps == Starters \cup {"retire"}

\* The operations of lives are the same, in the same order, ...
SameSteps(c, d) ==
  /\ Ordered(c) => Ordered(d)
  /\ \A op \in LifeSteps, l \in Lives : Among(OpOf(op, l), d) <=> Among(OpOf(op, l), c)

\* ... and no read is new.
SameOps(c, d) ==
  /\ SameSteps(c, d)
  /\ OneFetch(c) => OneFetch(d)
  /\ SomeFetch(d) => SomeFetch(c)

LEMMA SameSame ==
  ASSUME NEW c PROVE SameOps(c, c)
BY DEF SameOps, SameSteps

LEMMA SameTrans ==
  ASSUME NEW c, NEW d, NEW e, SameOps(c, d), SameOps(d, e) PROVE SameOps(c, e)
BY DEF SameOps, SameSteps

\* An operation is its kind and its life.
LEMMA OpRec ==
  ASSUME NEW o \in OpRecs, NEW op, NEW l
  PROVE  o = OpOf(op, l) <=> o.op = op /\ o.by = l
BY DEF OpRecs, OpOf

LEMMA OpElement ==
  ASSUME NEW c \in Seq(OpRecs), NEW i \in DOMAIN c
  PROVE  c[i] \in OpRecs /\ i \in 1 .. Len(c) /\ DOMAIN c = 1 .. Len(c) /\ Len(c) \in Nat
BY LenProperties, ElementOfSeq

LEMMA OrphanSame ==
  ASSUME NEW c \in Seq(OpRecs) PROVE SameOps(c, Orphan(c)) /\ ~SomeFetch(Orphan(c))
<1> DEFINE d == Orphan(c)
           o == Op("read", None)[1]
<1>1. o \in OpRecs /\ o.op = "read" /\ o.by = None BY OpFields
<1>2. DOMAIN d = DOMAIN c /\ \A i \in DOMAIN c : d[i] = IF c[i].op = "read" THEN o ELSE c[i]
  BY DEF Orphan
<1> HIDE DEF d, o
<1>3. \A i \in DOMAIN c : d[i].op \in LifeSteps \/ c[i].op \in LifeSteps => d[i] = c[i]
  BY <1>1, <1>2 DEF LifeSteps, Starters
<1>4. Ordered(c) => Ordered(d) BY <1>2, <1>3 DEF Ordered, LifeSteps
<1>5. ASSUME NEW op \in LifeSteps, NEW l \in Lives
      PROVE  Among(OpOf(op, l), d) <=> Among(OpOf(op, l), c)
  <2>1. OpOf(op, l).op = op BY DEF OpOf
  <2> QED BY <1>2, <1>3, <2>1 DEF Among
<1>6. \A i \in DOMAIN d : ~Fetches(d[i]) BY <1>1, <1>2 DEF Fetches
<1>7. OneFetch(d) /\ ~SomeFetch(d) BY <1>6 DEF OneFetch, SomeFetch
<1> QED BY <1>4, <1>5, <1>7 DEF SameOps, SameSteps, d

\* Something else is queued.
LEMMA PushedFields ==
  ASSUME NEW c \in Seq(OpRecs), NEW o \in OpRecs
  PROVE  /\ DOMAIN (c \o <<o>>) = 1 .. Len(c) + 1 /\ Len(c) \in Nat
         /\ DOMAIN c = 1 .. Len(c)
         /\ \A i \in DOMAIN c : (c \o <<o>>)[i] = c[i]
         /\ (c \o <<o>>)[Len(c) + 1] = o
         /\ c \o <<o>> \in Seq(OpRecs)
<1>1. <<o>> \in Seq(OpRecs) /\ Len(<<o>>) = 1 /\ <<o>>[1] = o OBVIOUS
<1>2. Len(c) \in Nat /\ DOMAIN c = 1 .. Len(c) BY LenProperties
<1>3. /\ c \o <<o>> \in Seq(OpRecs) /\ Len(c \o <<o>>) = Len(c) + 1
      /\ \A i \in 1 .. Len(c) + 1 : (c \o <<o>>)[i] = IF i <= Len(c) THEN c[i] ELSE o
  BY <1>1, ConcatProperties
<1>4. DOMAIN (c \o <<o>>) = 1 .. Len(c) + 1 BY <1>3, LenProperties
<1> QED BY <1>2, <1>3, <1>4

LEMMA PushSame ==
  ASSUME NEW c \in Seq(OpRecs), NEW o \in OpRecs, o.op \notin LifeSteps, o.op # "read"
  PROVE  SameOps(c, c \o <<o>>)
<1> DEFINE d == c \o <<o>>
<1>1. /\ DOMAIN d = 1 .. Len(c) + 1 /\ Len(c) \in Nat /\ DOMAIN c = 1 .. Len(c)
      /\ \A i \in DOMAIN c : d[i] = c[i]
      /\ d[Len(c) + 1] = o
  BY PushedFields
<1> HIDE DEF d
<1>2. \A i \in DOMAIN d : i \in DOMAIN c \/ d[i] = o BY <1>1
<1>3. \A i \in DOMAIN d : d[i].op \in LifeSteps => i \in DOMAIN c /\ d[i] = c[i]
  BY <1>1, <1>2
<1>4. Ordered(c) => Ordered(d)
  BY <1>3 DEF Ordered, LifeSteps
<1>5. ASSUME NEW op \in LifeSteps, NEW l \in Lives
      PROVE  Among(OpOf(op, l), d) <=> Among(OpOf(op, l), c)
  <2>1. OpOf(op, l).op = op BY DEF OpOf
  <2>2. DOMAIN c \subseteq DOMAIN d BY <1>1
  <2> QED BY <1>1, <1>3, <2>1, <2>2 DEF Among
<1>6. \A i \in DOMAIN d : Fetches(d[i]) => i \in DOMAIN c /\ d[i] = c[i]
  BY <1>1, <1>2 DEF Fetches
<1>7. (OneFetch(c) => OneFetch(d)) /\ (SomeFetch(d) => SomeFetch(c))
  BY <1>6 DEF OneFetch, SomeFetch
<1> QED BY <1>4, <1>5, <1>7 DEF SameOps, SameSteps, d

\* The chain is empty or got an operation of a reader or a write.
LEMMA OpSame ==
  ASSUME NEW c \in Seq(OpRecs), NEW op \in {"write", "check", "commit"},
         NEW by \in Lives \cup Readers \cup {None}
  PROVE  SameOps(c, c \o Op(op, by))
<1>1. /\ Op(op, by) = <<Op(op, by)[1]>> /\ Op(op, by)[1] \in OpRecs /\ Op(op, by)[1].op = op
  BY OpFields DEF LifeOps, ReaderOps
<1>2. op \notin LifeSteps BY DEF LifeSteps, Starters
<1> QED BY <1>1, <1>2, PushSame

LEMMA EnlistSame ==
  ASSUME NEW c \in Seq(OpRecs), NEW lv, NEW l \in Lives
  PROVE  SameOps(c, Enlist(l, lv, c))
BY OpSame, SameSame DEF Enlist

\* The head is over.
LEMMA Popped ==
  ASSUME NEW c \in Seq(OpRecs), c # <<>>
  PROVE  /\ Tail(c) \in Seq(OpRecs) /\ 1 \in DOMAIN c /\ Among(c[1], c)
         /\ \A i \in DOMAIN Tail(c) :
              i \in Nat /\ i + 1 \in DOMAIN c /\ Tail(c)[i] = c[i + 1] /\ 1 < i + 1
         /\ \A i \in DOMAIN c : i = 1 \/ (i - 1 \in DOMAIN Tail(c) /\ Tail(c)[i - 1] = c[i])
         /\ \A o : Among(o, Tail(c)) => Among(o, c)
         /\ \A o : Among(o, c) => o = c[1] \/ Among(o, Tail(c))
<1> DEFINE d == Tail(c)
<1>1. /\ d \in Seq(OpRecs) /\ Len(d) = Len(c) - 1
      /\ \A i \in 1 .. Len(d) : d[i] = c[i + 1]
      /\ Len(c) \in Nat \ {0} /\ DOMAIN c = 1 .. Len(c)
      /\ DOMAIN d = 1 .. Len(d)
  BY HeadTailProperties, LenProperties, EmptySeq
<1> HIDE DEF d
<1>2. \A i \in DOMAIN d : i \in Nat /\ i + 1 \in DOMAIN c /\ d[i] = c[i + 1] /\ 1 < i + 1
  BY <1>1
<1>3. \A i \in DOMAIN c : i = 1 \/ (i - 1 \in DOMAIN d /\ d[i - 1] = c[i]) BY <1>1
<1>4. 1 \in DOMAIN c BY <1>1
<1>5. \A o : Among(o, d) => Among(o, c) BY <1>2 DEF Among
<1>6. \A o : Among(o, c) => o = c[1] \/ Among(o, d) BY <1>3 DEF Among
<1>7. Among(c[1], c) BY <1>4 DEF Among
<1> QED BY <1>1, <1>2, <1>3, <1>4, <1>5, <1>6, <1>7 DEF d

LEMMA PopFewer ==
  ASSUME NEW c \in Seq(OpRecs), c # <<>>
  PROVE  /\ Ordered(c) => Ordered(Tail(c))
         /\ Ordered(c) /\ c[1].op \in Starters => \A i \in DOMAIN Tail(c) :
              Tail(c)[i].op \in Starters => c[1].by < Tail(c)[i].by
         /\ OneFetch(c) => OneFetch(Tail(c)) /\ (Fetches(c[1]) => ~SomeFetch(Tail(c)))
         /\ SomeFetch(Tail(c)) => SomeFetch(c)
<1> DEFINE d == Tail(c)
<1>1. /\ 1 \in DOMAIN c
      /\ \A i \in DOMAIN d : i \in Nat /\ i + 1 \in DOMAIN c /\ d[i] = c[i + 1] /\ 1 < i + 1
  BY Popped
<1> HIDE DEF d
<1>2. Ordered(c) => Ordered(d)
  <2>1. ASSUME NEW i \in DOMAIN d, NEW j \in DOMAIN d, i < j PROVE i + 1 < j + 1
    BY <1>1, <2>1
  <2> QED BY <1>1, <2>1 DEF Ordered
<1>3. Ordered(c) /\ c[1].op \in Starters =>
        \A i \in DOMAIN d : d[i].op \in Starters => c[1].by < d[i].by
  BY <1>1 DEF Ordered
<1>4. ASSUME OneFetch(c) PROVE OneFetch(d) /\ (Fetches(c[1]) => ~SomeFetch(d))
  <2>1. ASSUME NEW i \in DOMAIN d, NEW j \in DOMAIN d, Fetches(d[i]), Fetches(d[j])
        PROVE  i = j
    <3>1. i + 1 = j + 1 BY <1>1, <1>4, <2>1 DEF OneFetch
    <3> QED BY <1>1, <3>1
  <2>2. ASSUME Fetches(c[1]), NEW i \in DOMAIN d, Fetches(d[i]) PROVE FALSE
    <3>1. i + 1 = 1 BY <1>1, <1>4, <2>2 DEF OneFetch
    <3> QED BY <1>1, <3>1
  <2> QED BY <2>1, <2>2 DEF OneFetch, SomeFetch
<1>5. SomeFetch(d) => SomeFetch(c) BY <1>1 DEF SomeFetch
<1> QED BY <1>2, <1>3, <1>4, <1>5 DEF d

\* It was none of a life's first or last.
LEMMA PopSame ==
  ASSUME NEW c \in Seq(OpRecs), c # <<>>, c[1].op \notin LifeSteps
  PROVE  SameOps(c, Tail(c))
<1>1. ASSUME NEW op \in LifeSteps, NEW l \in Lives
      PROVE  Among(OpOf(op, l), Tail(c)) <=> Among(OpOf(op, l), c)
  <2>1. OpOf(op, l) # c[1] BY DEF OpOf
  <2> QED BY <2>1, Popped
<1> QED BY <1>1, PopFewer DEF SameOps, SameSteps

-----------------------------------------------------------------------------
(* What a life answers for.                                                *)

\* A step that queues and settles nothing, and claims no more.
LEMMA SafeHolds ==
  ASSUME NEW v, NEW u, NEW s, NEW t, NEW on, NEW on2, NEW stored,
         Safe(v, s, on, stored), v.init # "none",
         u.init = v.init, Held(u.w) = Held(v.w), t.log = s.log, t.born = s.born,
         u.flush \in Flushing => u.upto <= Len(s.log),
         Claims(u, t, on2) \subseteq Claims(v, s, on)
  PROVE  Safe(u, t, on2, stored)
<1>1. ASSUME NEW n, Kept(s, n, stored) PROVE Kept(t, n, stored)
  BY <1>1 DEF Kept
<1>2. ASSUME NEW n, IsHeld(v.w, n) PROVE IsHeld(u.w, n)
  BY <1>2 DEF IsHeld
<1>3. u.init = "pending" => \A n \in Claims(u, t, on2) : n <= t.born \/ IsHeld(u.w, n)
  BY <1>2 DEF Safe
<1>4. u.init = "ok" => \A n \in Claims(u, t, on2) : Kept(t, n, stored) \/ IsHeld(u.w, n)
  BY <1>1, <1>2 DEF Safe
<1> QED BY <1>3, <1>4 DEF Safe

\* What is stored stays so.
LEMMA BeginsTrans ==
  ASSUME NEW s, NEW t, NEW u, Begins(s, t), Begins(t, u),
         Len(s) \in Nat, Len(t) \in Nat, Len(u) \in Nat
  PROVE  Begins(s, u)
BY DEF Begins

LEMMA SafeStored ==
  ASSUME NEW v, NEW s, NEW on, NEW stored, NEW stored2,
         Safe(v, s, on, stored), Begins(stored, stored2),
         Len(stored) \in Nat, Len(stored2) \in Nat, Len(s.log) \in Nat
  PROVE  Safe(v, s, on, stored2)
<1>1. ASSUME NEW n \in 1 .. Len(s.log), Kept(s, n, stored) PROVE Kept(s, n, stored2)
  BY <1>1 DEF Kept, Begins
<1>2. Claims(v, s, on) \subseteq 1 .. Len(s.log) BY DEF Claims
<1>3. Begins(s.log, stored) => Begins(s.log, stored2) BY BeginsTrans
<1> QED BY <1>1, <1>2, <1>3 DEF Safe

\* A life that answers for everything.
LEMMA AllClaimed ==
  ASSUME NEW v, NEW s, NEW u, NEW t, t.log = s.log, NEW on
  PROVE  Claims(u, t, on) \subseteq Claims(v, s, TRUE)
BY DEF Claims

LEMMA SameClaims ==
  ASSUME NEW v, NEW s, NEW u, NEW t, NEW on, t.log = s.log, Len(s.log) \in Nat,
         v.upto \in Nat, u.upto \in Nat,
         ~on => (u.flush \in Flushing => v.flush \in Flushing /\ u.upto <= v.upto)
  PROVE  Claims(u, t, on) \subseteq Claims(v, s, on)
BY DEF Claims

\* The lives but one are as they were.
LEMMA ContentStep ==
  ASSUME ContentInv, NEW l \in Lives, NEW u, NEW t,
         live'[l] = u, sessions'[l] = t,
         \A k \in Lives \ {l} : live'[k] = live[k] /\ sessions'[k] = sessions[k],
         plugin' = plugin, states'.owner = states.owner, disk'.log = disk.log,
         Safe(u, t, plugin = "on", disk.log), Owns(u, t, states.owner = l)
  PROVE  ContentInv'
BY DEF ContentInv

\* All are, and the file may have grown.
LEMMA ContentKept ==
  ASSUME ContentInv, UNCHANGED <<live, sessions, plugin>>,
         \A l \in Lives : states.owner = l => states'.owner = l,
         Begins(disk.log, disk'.log), Len(disk.log) \in Nat, Len(disk'.log) \in Nat,
         \A l \in Lives : Len(sessions[l].log) \in Nat
  PROVE  ContentInv'
<1>1. ASSUME NEW l \in Lives
      PROVE  Safe(live[l], sessions[l], plugin = "on", disk'.log)
  BY SafeStored DEF ContentInv
<1>2. ASSUME NEW l \in Lives PROVE Owns(live[l], sessions[l], states'.owner = l)
  BY DEF ContentInv, Owns
<1> QED BY <1>1, <1>2 DEF ContentInv

-----------------------------------------------------------------------------
(* What steps leave alone.                                                 *)

LEMMA Typed ==
  ASSUME Inv
  PROVE  /\ disk.log \in Seq(Events) /\ disk.tail \in Seq(Events) /\ Len(disk.log) \in Nat
         /\ disk.torn \in BOOLEAN /\ disk.made \in BOOLEAN
         /\ states.cursor \in Nat /\ states.made \in BOOLEAN /\ states.tracked \in BOOLEAN
         /\ states.owner \in Lives \cup {None} /\ states \in StateRecs
         /\ job.batch \in Seq(Events) /\ Len(job.batch) \in Nat
         /\ chain \in Seq(OpRecs)
         /\ \A l \in Lives :
              /\ live[l] \in LiveRecs /\ live[l].upto \in Nat
              /\ sessions[l] \in SessionRecs /\ sessions[l].log \in Seq(Events)
              /\ Len(sessions[l].log) \in Nat /\ sessions[l].born \in Nat
<1>1. /\ disk.log \in Seq(Events) /\ Len(disk.log) \in Nat /\ disk.tail \in Seq(Events)
      /\ disk.torn \in BOOLEAN /\ disk.made \in BOOLEAN
      /\ states \in StateRecs /\ states.cursor \in Nat
      /\ job.batch \in Seq(Events) /\ Len(job.batch) \in Nat /\ chain \in Seq(OpRecs)
  BY DiskParts
<1>2. /\ states.made \in BOOLEAN /\ states.tracked \in BOOLEAN
      /\ states.owner \in Lives \cup {None}
  BY <1>1 DEF StateRecs
<1>3. ASSUME NEW l \in Lives
      PROVE  /\ live[l] \in LiveRecs /\ live[l].upto \in Nat
             /\ sessions[l] \in SessionRecs /\ sessions[l].log \in Seq(Events)
             /\ Len(sessions[l].log) \in Nat /\ sessions[l].born \in Nat
  <2>1. live[l] \in LiveRecs /\ sessions[l] \in SessionRecs BY DEF Inv, TypeInv
  <2>2. sessions[l].log \in Seq(Events) /\ sessions[l].born \in Nat
    BY <2>1 DEF SessionRecs, Logs
  <2> QED BY <2>1, <2>2, LiveParts, LenProperties
<1> QED BY <1>1, <1>2, <1>3

LEMMA LifeNumbers == Lives \subseteq Nat \ {0} /\ None \notin Lives
BY SessionConstants, FS_CardinalityType DEF None

\* Lives stay in their order, ...
LEMMA BornSame ==
  ASSUME BornInv, plugin' = plugin, retirement' = retirement,
         \A l \in Lives : sessions'[l].at = sessions[l].at /\ live'[l].init = live[l].init
  PROVE  BornInv'
BY DEF BornInv

\* ... the id that is prepared is not live, ...
LEMMA ColdSame ==
  ASSUME ColdInv, plugin' = plugin, retirement' = retirement,
         entry'.phase = "none" \/ entry.phase # "none",
         \A l \in Lives : sessions'[l].at = sessions[l].at /\ live'[l].init = live[l].init
  PROVE  ColdInv'
BY DEF ColdInv

\* ... and the chain keeps what waits in it.
LEMMA OrderSame ==
  ASSUME OrderInv, SameSteps(chain, chain'), OneFetch(chain'),
         plugin' = plugin, UNCHANGED states,
         SomeFetch(chain') => entry'.phase = "loading",
         \A l \in Lives :
           /\ sessions'[l].born = sessions[l].born
           /\ live'[l].init = "pending" => live[l].init = "pending"
           /\ plugin = "on" /\ Among(OpOf("retire", l), chain) => live'[l].flush = live[l].flush
  PROVE  OrderInv'
BY DEF OrderInv, SameSteps, LifeSteps, Starters

\* A life that waits for its retirement is done.
LEMMA Retires ==
  ASSUME ChainInv, NEW l \in Lives, Among(OpOf("retire", l), chain)
  PROVE  live[l].init = "ok" /\ ~HasWork(live[l].w) /\ sessions[l].at = "gone"
BY DEF ChainInv, Sound, Stands, Among, OpOf

-----------------------------------------------------------------------------
(* What steps leave alone, conjunct by conjunct.                           *)

LEMMA FileSame ==
  ASSUME FileInv, UNCHANGED <<disk, states>>,
         \A l \in Lives :
           /\ sessions'[l].log = sessions[l].log
           /\ sessions'[l].at = "unborn" => sessions[l].at = "unborn"
           /\ Present(l)' => Present(l)
  PROVE  FileInv'
BY DEF FileInv

LEMMA OwnerSame ==
  ASSUME OwnerInv, Inv, UNCHANGED <<disk, states, job>>,
         \A l \in Lives :
           /\ sessions'[l].log = sessions[l].log
           /\ sessions[l].at # "unborn" => sessions'[l].at # "unborn"
  PROVE  OwnerInv'
<1>1. states.owner \in Lives \cup {None} BY Typed
<1> QED BY <1>1 DEF OwnerInv

\* The job's operation stays at the head, its write keeps its batch and its caller
\* the entry.
LEMMA BatchSame ==
  ASSUME BatchInv, Inv, UNCHANGED <<disk, states, job>>,
         job # NoJob => chain' # <<>> /\ chain'[1] = chain[1],
         job.does \in {"repair", "repaired"} => readers'[Head1.by].holds,
         \A l \in Lives :
           /\ sessions'[l].log = sessions[l].log
           /\ live[l].w.writing # "no" => live'[l].w.active = live[l].w.active
  PROVE  BatchInv'
<1>1. CASE job = NoJob BY <1>1 DEF BatchInv, NoJob
<1>2. CASE job # NoJob
  <2>1. Head1' = Head1 BY <1>2 DEF Head1
  <2>2. ASSUME job.does \in {"append", "appended"}
        PROVE  Head1.by \in Lives /\ (Head1.op = "write" => live[Head1.by].w.writing # "no")
    <3>1. chain # <<>> /\ Head1.op \in {"create", "suffix", "write"}
      BY <2>2 DEF Inv, JobInv
    <3>2. Stands(Head1, live, sessions, readers) BY <3>1, HeadLife DEF LifeOps
    <3>3. Head1.by \in Lives BY <3>1, HeadLife DEF LifeOps
    <3> QED BY <3>2, <3>3 DEF Stands
  <2> QED BY <2>1, <2>2 DEF BatchInv
<1> QED BY <1>1, <1>2

LEMMA EntrySame ==
  ASSUME EntryInv, UNCHANGED <<disk, job>>,
         \/ entry' = NoEntry
         \/ entry.phase \in {"ready", "committing", "reserved"} /\ entry'.source = entry.source
              /\ entry'.phase \notin {"none", "loading"}
  PROVE  EntryInv'
<1>1. CASE entry' = NoEntry BY <1>1 DEF EntryInv, NoEntry
<1>2. CASE entry' # NoEntry
  <2>1. /\ WellRead(entry.source) /\ entry'.source = entry.source
        /\ Len(entry.source.seen.log) + Growing <= Len(disk.log)
        /\ entry'.phase \notin {"none", "loading"}
    BY <1>2 DEF EntryInv
  <2>2. Growing' = Growing BY DEF Growing
  <2>3. WellRead(entry'.source) BY <2>1
  <2>4. Len(entry'.source.seen.log) + Growing' <= Len(disk'.log) BY <2>1, <2>2
  <2> HIDE DEF WellRead, Growing
  <2> QED BY <2>1, <2>3, <2>4 DEF EntryInv
<1> QED BY <1>1, <1>2

\* Callers.
LEMMA CallSame ==
  ASSUME NEW c, NEW e, NEW f, NEW stored, NEW st, NEW lv, NEW ss,
         Call(c, e, stored, st, lv, ss),
         c.holds => f = e \/ f.phase \notin {"none", "loading"}, Holder(c) => f = e
  PROVE  Call(c, f, stored, st, lv, ss)
BY DEF Call, Holder, Taken

\* Everything else of the state moves on.
LEMMA CallMoves ==
  ASSUME NEW c, NEW e, NEW stored, NEW st, NEW lv, NEW ss,
         Call(c, e, stored, st, lv, ss), NEW more, NEW st2, NEW lv2, NEW ss2,
         c.at = "held" => st2.tracked /\ st2.owner = None /\ more = stored,
         Begins(stored, more), Len(stored) \in Nat, Len(more) \in Nat,
         Len(c.source.log) \in Nat, Len(c.source.seen.log) \in Nat,
         c.at = "live" => Waits(c, lv2, ss2)
  PROVE  Call(c, e, more, st2, lv2, ss2)
<1>1. Begins(c.source.log, stored) => Begins(c.source.log, more) BY BeginsTrans
<1>2. Len(stored) <= Len(more) BY DEF Begins
<1>3. Len(c.source.seen.log) < Len(stored) => Len(c.source.seen.log) < Len(more) BY <1>2
<1> QED BY <1>1, <1>3 DEF Call

LEMMA Callers ==
  ASSUME Inv, NEW r \in Readers
  PROVE  /\ readers \in [Readers -> CallRecs] /\ readers[r] \in CallRecs
         /\ readers[r].holds \in BOOLEAN
         /\ readers[r].source.log \in Seq(Events) /\ Len(readers[r].source.log) \in Nat
         /\ readers[r].source.seen.log \in Seq(Events)
         /\ Len(readers[r].source.seen.log) \in Nat
         /\ readers[r].source.seen \in Disks
<1>1. readers \in [Readers -> CallRecs] BY DEF Inv, TypeInv
<1>2. readers[r] \in CallRecs BY <1>1
<1>3. readers[r].source.log \in Seq(Events) /\ readers[r].source.seen \in Disks
  BY <1>2, CallFields DEF Logs
<1>4. readers[r].source.seen.log \in Seq(Events) BY <1>3 DEF Disks, Logs
<1> QED BY <1>1, <1>2, <1>3, <1>4, LenProperties, CallFields

\* A caller that lost the entry.
LEMMA CallReleased ==
  ASSUME NEW c \in CallRecs, NEW e, NEW f, NEW stored, NEW st, NEW lv, NEW ss,
         Call(c, e, stored, st, lv, ss), ~Holder(c)
  PROVE  LET d == [c EXCEPT !.holds = FALSE]
         IN  Call(d, f, stored, st, lv, ss) /\ ~Holder(d) /\ d.at = c.at /\ ~d.holds
<1> DEFINE d == [c EXCEPT !.holds = FALSE]
<1>1. /\ d.at = c.at /\ d.holds = FALSE /\ d.call = c.call /\ d.of = c.of
      /\ d.source = c.source
  BY DEF CallRecs
<1> HIDE DEF d
<1>2. c.at # "held" /\ (c.at = "commit" => ~c.holds) BY DEF Holder, Taken, Call
<1>3. Call(d, f, stored, st, lv, ss) BY <1>1, <1>2 DEF Call, Holder, Waits
<1>4. ~Holder(d) BY <1>1 DEF Holder
<1> QED BY <1>1, <1>3, <1>4 DEF d

\* A caller that is about to look, or is gone.
LEMMA CallIdle ==
  ASSUME NEW c, NEW e, NEW stored, NEW st, NEW lv, NEW ss,
         c.at \in {"idle", "wait"}, ~c.holds
  PROVE  Call(c, e, stored, st, lv, ss) /\ ~Holder(c)
BY DEF Call, Holder

LEMMA IdleFields ==
  /\ NoCall.at = "idle" /\ NoCall.holds = FALSE
  /\ \A x : [NoCall EXCEPT !.at = "wait", !.call = x].at = "wait"
            /\ [NoCall EXCEPT !.at = "wait", !.call = x].holds = FALSE
BY DEF NoCall

\* A step of callers, the entry and the chain.
LEMMA CallersStep ==
  ASSUME Inv, Inv', Content,
         UNCHANGED <<disk, sessions, live, states, retirement, job, plugin>>,
         SameSteps(chain, chain'), OneFetch(chain'),
         job # NoJob => chain' # <<>> /\ chain'[1] = chain[1],
         job.does \in {"repair", "repaired"} => readers'[Head1.by].holds,
         SomeFetch(chain') => entry'.phase = "loading",
         \/ entry'.phase = "none" \/ entry.phase # "none"
         \/ /\ retirement = None /\ plugin = "on"
            /\ \A l \in Lives : sessions[l].at # "open" /\ live[l].init # "pending",
         EntryInv', CallInv'
  PROVE  Content'
<1> USE DEF Content
<1>1. FileInv' BY FileSame DEF Present
<1>2. OwnerInv' BY OwnerSame
<1>3. BatchInv' BY BatchSame
<1>4. ContentInv' BY DEF ContentInv
<1>5. BornInv' BY BornSame
<1>6. OrderInv' BY OrderSame
<1>7. ColdInv' BY DEF ColdInv
<1> QED BY <1>1, <1>2, <1>3, <1>4, <1>5, <1>6, <1>7

\* One caller goes on; the others are as they were.
LEMMA OneCaller ==
  ASSUME Inv, Content, UNCHANGED <<disk, sessions, live, states>>,
         NEW r \in Readers, NEW c, readers' = [readers EXCEPT ![r] = c],
         Call(c, entry', disk.log, states, live, sessions),
         Holder(c) => \A q \in Readers : Holder(readers[q]) => q = r,
         \A q \in Readers \ {r} : /\ readers[q].holds => entry' = entry
                                       \/ entry'.phase \notin {"none", "loading"}
                                  /\ Holder(readers[q]) => entry' = entry
  PROVE  CallInv'
<1>1. readers' \in [Readers -> {readers[q] : q \in Readers} \cup {c}] /\ readers'[r] = c
      /\ \A q \in Readers \ {r} : readers'[q] = readers[q]
  BY Callers
<1>2. ASSUME NEW q \in Readers
      PROVE  Call(readers'[q], entry', disk.log, states, live, sessions)
  <2>1. CASE q = r BY <1>1, <2>1
  <2>2. CASE q # r
    <3>1. Call(readers[q], entry, disk.log, states, live, sessions) BY DEF Content, CallInv
    <3> QED BY <1>1, <2>2, <3>1, CallSame
  <2> QED BY <2>1, <2>2
<1>3. ASSUME NEW q \in Readers, NEW p \in Readers, Holder(readers'[q]), Holder(readers'[p])
      PROVE  q = p
  BY <1>1, <1>3 DEF Content, CallInv
<1> QED BY <1>2, <1>3 DEF CallInv

\* Who commits or reserves does so with the entry it holds.
LEMMA HolderPhase ==
  ASSUME Inv, Content, NEW r \in Readers
  PROVE  /\ Holder(readers[r]) => entry.phase \in {"committing", "reserved"}
         /\ readers[r].at = "held" => Holder(readers[r]) /\ entry.phase = "reserved"
         /\ readers[r].at = "commit" /\ readers[r].holds =>
              Holder(readers[r]) /\ entry.phase = "committing"
         /\ readers[r].holds => entry.phase # "none"
         /\ Call(readers[r], entry, disk.log, states, live, sessions)
<1>1. Call(readers[r], entry, disk.log, states, live, sessions) BY DEF Content, CallInv
<1> QED BY <1>1 DEF Call, Holder, Taken

\* The job of a repair is a caller's that commits.
LEMMA Repairer ==
  ASSUME Inv, Content, job.does \in {"repair", "repaired"}
  PROVE  /\ Head1.by \in Readers /\ readers[Head1.by].at = "commit"
         /\ readers[Head1.by].holds /\ Holder(readers[Head1.by])
         /\ entry.phase = "committing" /\ plugin = "on"
<1>1. chain # <<>> /\ Head1.op = "commit" BY DEF Inv, JobInv
<1>2. Head1.by \in Readers /\ readers[Head1.by].at = "commit" /\ plugin = "on"
  BY <1>1, CallerPopped DEF ReaderOps
<1>3. readers[Head1.by].holds BY DEF Content, BatchInv
<1> QED BY <1>2, <1>3, HolderPhase

\* A job's operation is at the head.
LEMMA JobHead ==
  ASSUME Inv, job # NoJob
  PROVE  /\ chain # <<>> /\ 1 \in DOMAIN chain
         /\ Head1.op \in {"create", "suffix", "write", "commit"}
         /\ Head1.op = "commit" => job.does \in {"repair", "repaired"}
         /\ Head1.op # "commit" => job.does \in {"append", "appended"}
<1>1. job.does \in {"append", "appended", "repair", "repaired"}
  BY Typed DEF Inv, JobInv, TypeInv, Jobs
<1>2. chain # <<>> /\ Head1.op \in {"create", "suffix", "write", "commit"}
      /\ (Head1.op = "commit" => job.does \in {"repair", "repaired"})
      /\ (Head1.op # "commit" => job.does \in {"append", "appended"})
  BY <1>1 DEF Inv, JobInv
<1>3. 1 \in DOMAIN chain BY <1>2, Typed, Popped
<1> QED BY <1>2, <1>3

LEMMA OpsSame ==
  ASSUME Content, SameOps(chain, chain')
  PROVE  /\ SameSteps(chain, chain') /\ OneFetch(chain')
         /\ SomeFetch(chain') => SomeFetch(chain) /\ entry.phase = "loading"
BY DEF SameOps, Content, OrderInv

\* An operation that is queued leaves the head.
LEMMA Pushed ==
  ASSUME Inv, NEW op \in LifeOps \cup ReaderOps \cup {"read"},
         NEW by \in Lives \cup Readers \cup {None}
  PROVE  /\ chain \o Op(op, by) # <<>>
         /\ chain # <<>> => (chain \o Op(op, by))[1] = chain[1]
<1> DEFINE o == Op(op, by)[1]
<1>1. Op(op, by) = <<o>> /\ o \in OpRecs BY OpFields
<1> HIDE DEF o
<1>2. chain \in Seq(OpRecs) BY Typed
<1>3. /\ DOMAIN (chain \o <<o>>) = 1 .. Len(chain) + 1 /\ Len(chain) \in Nat
      /\ \A i \in DOMAIN chain : (chain \o <<o>>)[i] = chain[i]
  BY <1>1, <1>2, PushedFields
<1>4. chain # <<>> => 1 \in DOMAIN chain BY <1>2, Popped
<1> QED BY <1>1, <1>3, <1>4

-----------------------------------------------------------------------------
(* Steps of callers.                                                       *)

LEMMA StartCallContent ==
  ASSUME Inv, Inv', Content, NEW r \in Readers, NEW c \in Calls, StartCall(r, c)
  PROVE  Content'
<1> DEFINE new == [NoCall EXCEPT !.at = "wait", !.call = c]
<1>1. /\ readers' = [readers EXCEPT ![r] = new] /\ readers[r].at \in {"idle", "done"}
      /\ UNCHANGED <<disk, sessions, live, states, retirement, chain, job, entry, plugin>>
  BY DEF StartCall
<1>2. new.at = "wait" /\ new.holds = FALSE BY IdleFields
<1> HIDE DEF new
<1>3. Call(new, entry', disk.log, states, live, sessions) /\ ~Holder(new) BY <1>2, CallIdle
<1>5. CallInv' BY <1>1, <1>3, OneCaller
<1>6. EntryInv' BY <1>1 DEF Content, EntryInv, Growing
<1>7. job.does \in {"repair", "repaired"} => readers'[Head1.by].holds
  <2> SUFFICES ASSUME job.does \in {"repair", "repaired"} PROVE readers'[Head1.by].holds
    OBVIOUS
  <2>1. Head1.by \in Readers /\ Head1.by # r /\ readers[Head1.by].holds BY <1>1, Repairer
  <2> QED BY <1>1, <2>1, Callers
<1>8. job # NoJob => chain' # <<>> /\ chain'[1] = chain[1] BY <1>1, JobHead
<1>9. SameSteps(chain, chain') /\ OneFetch(chain') BY <1>1, SameSame, OpsSame
<1>10. SomeFetch(chain') => entry'.phase = "loading" BY <1>1 DEF Content, OrderInv
<1> QED BY <1>1, <1>5, <1>6, <1>7, <1>8, <1>9, <1>10, CallersStep

\* A set of lives has a last one.
LEMMA LastLife ==
  ASSUME NEW S, S \subseteq Lives, S # {}
  PROVE  \E l \in S : \A k \in S : k <= l
<1> DEFINE n == Cardinality(Lives)
           T == {n - l : l \in S}
<1>1. n \in Nat /\ Lives = 1 .. n BY SessionConstants, FS_CardinalityType
<1> HIDE DEF n
<1>2. T \subseteq Nat /\ T # {}
  <2>1. \A l \in S : l \in 1 .. n BY <1>1
  <2>2. \A l \in S : n - l \in Nat BY <1>1, <2>1
  <2> QED BY <2>2
<1>3. PICK m \in T : \A k \in T : m <= k BY <1>2, LeastNat
<1>4. PICK l \in S : m = n - l BY <1>3
<1>5. \A k \in S : n - l <= n - k BY <1>3, <1>4
<1>6. \A k \in S : k <= l BY <1>1, <1>5
<1> QED BY <1>6

\* Nobody waits to be initialized when nobody is open or retires.
LEMMA NonePending ==
  ASSUME Inv, Content, plugin = "on", Open = {}, retirement = None
  PROVE  \A l \in Lives : sessions[l].at # "open" /\ live[l].init # "pending"
<1>1. \A l \in Lives : sessions[l].at # "open" BY DEF Open
<1> DEFINE S == {l \in Lives : live[l].init = "pending"}
<1>2. ASSUME S # {} PROVE FALSE
  <2>1. PICK l \in S : \A k \in S : k <= l BY <1>2, LastLife
  <2>2. PICK k \in Lives : l < k /\ live[k].init = "pending"
    BY <1>1, <2>1, LifeNumbers DEF Content, BornInv
  <2>3. k <= l BY <2>1, <2>2
  <2> QED BY <2>1, <2>2, <2>3, LifeNumbers
<1> QED BY <1>1, <1>2

LEMMA JoinContent ==
  ASSUME Inv, Inv', Content, NEW r \in Readers, Join(r)
  PROVE  Content'
<1> DEFINE c == [readers[r] EXCEPT !.at = "join", !.holds = TRUE, !.source = entry.source]
<1>1. /\ readers' = [readers EXCEPT ![r] = c] /\ readers[r].at = "wait"
      /\ retirement = None /\ Open = {}
      /\ \/ entry.phase = "none" /\ entry' = [phase |-> "loading", source |-> NoSource]
              /\ chain' = chain \o Op("read", 1)
         \/ entry.phase # "none" /\ UNCHANGED <<entry, chain>>
      /\ UNCHANGED <<disk, sessions, live, states, retirement, job, plugin>>
  BY DEF Join
<1>2. c.at = "join" /\ c.source = entry.source BY Callers DEF CallRecs
<1> HIDE DEF c
<1>3. plugin = "on" BY <1>1 DEF Inv, PluginInv
<1>4. entry'.phase # "none" BY <1>1
<1>5. Call(c, entry', disk.log, states, live, sessions) /\ ~Holder(c)
  <2>2. entry'.phase = "loading" => c.source = NoSource
    BY <1>1, <1>2 DEF Content, EntryInv
  <2> QED BY <1>2, <1>4, <2>2 DEF Call, Holder, Taken
<1>6. \A q \in Readers : /\ readers[q].holds => entry' = entry
                         /\ Holder(readers[q]) => entry' = entry
  BY <1>1, HolderPhase DEF Holder
<1>7. CallInv' BY <1>1, <1>4, <1>5, <1>6, OneCaller
<1>8. EntryInv'
  <2>1. CASE UNCHANGED entry BY <1>1, <2>1 DEF Content, EntryInv, Growing
  <2>2. CASE entry' = [phase |-> "loading", source |-> NoSource] BY <2>2 DEF EntryInv
  <2> QED BY <1>1, <2>1, <2>2
<1>9. job.does \in {"repair", "repaired"} => readers'[Head1.by].holds
  <2> SUFFICES ASSUME job.does \in {"repair", "repaired"} PROVE readers'[Head1.by].holds
    OBVIOUS
  <2>1. Head1.by \in Readers /\ Head1.by # r /\ readers[Head1.by].holds BY <1>1, Repairer
  <2> QED BY <1>1, <2>1, Callers
<1>10. /\ job # NoJob => chain' # <<>> /\ chain'[1] = chain[1]
       /\ SameSteps(chain, chain') /\ OneFetch(chain')
       /\ SomeFetch(chain') => entry'.phase = "loading"
  <2>1. CASE UNCHANGED <<entry, chain>>
    BY <2>1, JobHead, SameSame, OpsSame DEF Content, OrderInv
  <2>2. CASE entry.phase = "none" /\ chain' = chain \o Op("read", 1)
    <3>1. 1 \in Lives BY SessionConstants, FS_CardinalityType, FS_EmptySet
    <3> DEFINE o == Op("read", 1)[1]
    <3>2. Op("read", 1) = <<o>> /\ o \in OpRecs /\ o.op = "read" BY <3>1, OpFields
    <3> HIDE DEF o
    <3>3. /\ DOMAIN chain' = 1 .. Len(chain) + 1 /\ Len(chain) \in Nat
          /\ DOMAIN chain = 1 .. Len(chain)
          /\ \A i \in DOMAIN chain : chain'[i] = chain[i]
          /\ chain'[Len(chain) + 1] = o
      <4>1. chain \in Seq(OpRecs) BY Typed
      <4>2. chain' = chain \o <<o>> BY <2>2, <3>2
      <4> QED BY <3>2, <4>1, <4>2, PushedFields
    <3>4. ~SomeFetch(chain) BY <2>2 DEF Content, OrderInv
    <3>5. \A i \in DOMAIN chain' : i \in DOMAIN chain \/ i = Len(chain) + 1 BY <3>3
    <3>6. \A i \in DOMAIN chain' : Fetches(chain'[i]) => i = Len(chain) + 1
      BY <3>3, <3>4, <3>5 DEF SomeFetch
    <3>7. OneFetch(chain') BY <3>6 DEF OneFetch
    <3>8. \A i \in DOMAIN chain' : chain'[i].op \in LifeSteps =>
            i \in DOMAIN chain /\ chain'[i] = chain[i]
      BY <3>2, <3>3, <3>5 DEF LifeSteps, Starters
    <3>9. Ordered(chain) => Ordered(chain') BY <3>8 DEF Ordered, LifeSteps
    <3>10. ASSUME NEW op \in LifeSteps, NEW l \in Lives
           PROVE  Among(OpOf(op, l), chain') <=> Among(OpOf(op, l), chain)
      <4>1. OpOf(op, l).op = op BY DEF OpOf
      <4>2. DOMAIN chain \subseteq DOMAIN chain' BY <3>3
      <4>3. OpOf(op, l).op \in LifeSteps BY <4>1
      <4>4. Among(OpOf(op, l), chain') => Among(OpOf(op, l), chain)
        BY <3>8, <4>3 DEF Among
      <4>5. Among(OpOf(op, l), chain) => Among(OpOf(op, l), chain')
        BY <3>3, <4>2 DEF Among
      <4> QED BY <4>4, <4>5
    <3>11. SameSteps(chain, chain') BY <3>9, <3>10 DEF SameSteps
    <3>12. chain # <<>> => chain' # <<>> /\ chain'[1] = chain[1]
      <4>1. ASSUME chain # <<>> PROVE 1 \in DOMAIN chain BY <4>1, Typed, Popped
      <4>2. chain' # <<>> BY <3>3
      <4> QED BY <3>3, <4>1, <4>2
    <3>13. job # NoJob => chain # <<>> BY JobHead
    <3>14. entry'.phase = "loading" BY <1>1, <2>2
    <3> QED BY <3>7, <3>11, <3>12, <3>13, <3>14
  <2> QED BY <1>1, <2>1, <2>2
<1> QED BY <1>1, <1>3, <1>7, <1>8, <1>9, <1>10, CallersStep, NonePending

LEMMA AskCheckContent ==
  ASSUME Inv, Inv', Content, NEW r \in Readers, AskCheck(r)
  PROVE  Content'
<1> DEFINE src == IF readers[r].holds THEN entry.source ELSE readers[r].source
           c == [readers[r] EXCEPT !.at = "check", !.source = src]
<1>1. /\ readers' = [readers EXCEPT ![r] = c] /\ readers[r].at = "join"
      /\ readers[r].source # NoSource /\ readers[r].call = "inspect"
      /\ chain' = chain \o Op("check", r)
      /\ UNCHANGED <<disk, sessions, live, states, retirement, job, entry, plugin>>
  BY DEF AskCheck, Loaded
<1>2. c.at = "check" /\ c.call = "inspect" /\ c.holds = readers[r].holds
  <2> HIDE DEF src
  <2> QED BY <1>1, Callers DEF CallRecs
<1> HIDE DEF c
<1>3. /\ Call(c, entry', disk.log, states, live, sessions) /\ ~Holder(c)
  BY <1>1, <1>2, HolderPhase DEF Call, Holder, Taken
<1>4. CallInv' BY <1>1, <1>3, OneCaller
<1>5. EntryInv' BY <1>1 DEF Content, EntryInv, Growing
<1>6. job.does \in {"repair", "repaired"} => readers'[Head1.by].holds
  <2> SUFFICES ASSUME job.does \in {"repair", "repaired"} PROVE readers'[Head1.by].holds
    OBVIOUS
  <2>1. Head1.by \in Readers /\ Head1.by # r /\ readers[Head1.by].holds BY <1>1, Repairer
  <2> QED BY <1>1, <2>1, Callers
<1>7. SameOps(chain, chain') BY <1>1, Typed, OpSame
<1>8. job # NoJob => chain' # <<>> /\ chain'[1] = chain[1]
  BY <1>1, Pushed, JobHead DEF ReaderOps
<1>9. plugin = "on" BY <1>1 DEF Inv, PluginInv
<1>10. /\ SameSteps(chain, chain') /\ OneFetch(chain')
       /\ SomeFetch(chain') => entry'.phase = "loading"
       /\ entry'.phase = "none" \/ entry.phase # "none"
  BY <1>1, <1>7, OpsSame
<1> QED BY <1>1, <1>4, <1>5, <1>6, <1>8, <1>10, CallersStep

LEMMA ReserveContent ==
  ASSUME Inv, Inv', Content, NEW r \in Readers, Reserve(r)
  PROVE  Content'
<1>1. /\ readers[r].at = "join" /\ readers[r].call # "inspect"
      /\ UNCHANGED <<disk, sessions, live, states, retirement, job, plugin>>
  BY DEF Reserve, Loaded
<1>2. job.does \in {"repair", "repaired"} =>
        Head1.by \in Readers /\ Head1.by # r /\ readers[Head1.by].holds
        /\ entry.phase = "committing"
  BY <1>1, Repairer
<1>3. CASE /\ readers[r].holds /\ entry.phase = "ready"
           /\ entry' = [entry EXCEPT !.phase = "committing"]
           /\ readers' = [readers EXCEPT ![r] =
                            [@ EXCEPT !.at = "commit", !.source = entry.source]]
           /\ chain' = chain \o Op("commit", r)
  <2> DEFINE c == [readers[r] EXCEPT !.at = "commit", !.source = entry.source]
  <2>1. readers' = [readers EXCEPT ![r] = c] BY <1>3
  <2>2. c.at = "commit" /\ c.holds /\ c.source = entry.source
    BY <1>3, Callers DEF CallRecs
  <2> HIDE DEF c
  <2>3. entry \in Entries BY DEF Inv, TypeInv
  <2>4. entry'.phase = "committing" /\ entry'.source = entry.source BY <1>3, <2>3 DEF Entries
  <2>5. Call(c, entry', disk.log, states, live, sessions) BY <2>2, <2>4 DEF Call, Holder
  <2>6. \A q \in Readers : ~Holder(readers[q]) BY <1>3, HolderPhase
  <2>7. CallInv' BY <1>1, <2>1, <2>4, <2>5, <2>6, OneCaller
  <2>8. EntryInv' BY <1>1, <1>3, <2>4, EntrySame DEF Content
  <2>9. SameOps(chain, chain') BY <1>3, Typed, OpSame
  <2>10. job # NoJob => chain' # <<>> /\ chain'[1] = chain[1]
    BY <1>3, Pushed, JobHead DEF ReaderOps
  <2>11. job.does \in {"repair", "repaired"} => readers'[Head1.by].holds BY <1>2, <1>3
  <2>12. /\ SameSteps(chain, chain') /\ OneFetch(chain')
         /\ SomeFetch(chain') => entry'.phase = "loading"
         /\ entry.phase # "none"
    BY <1>3, <2>9, OpsSame
  <2> QED BY <1>1, <2>7, <2>8, <2>10, <2>11, <2>12, CallersStep
<1>4. CASE ~readers[r].holds /\ readers' = Back(readers, r) /\ UNCHANGED <<entry, chain>>
  <2> DEFINE c == [NoCall EXCEPT !.at = "wait", !.call = readers[r].call]
  <2>1. readers' = [readers EXCEPT ![r] = c] BY <1>4 DEF Back
  <2>2. c.at = "wait" /\ c.holds = FALSE BY IdleFields
  <2> HIDE DEF c
  <2>3. Call(c, entry', disk.log, states, live, sessions) /\ ~Holder(c) BY <2>2, CallIdle
  <2>5. CallInv' BY <1>1, <1>4, <2>1, <2>3, OneCaller
  <2>6. EntryInv' BY <1>1, <1>4 DEF Content, EntryInv, Growing
  <2>7. job # NoJob => chain' # <<>> /\ chain'[1] = chain[1] BY <1>4, JobHead
  <2>8. job.does \in {"repair", "repaired"} => readers'[Head1.by].holds
    BY <1>2, <2>1, Callers
  <2>9. /\ SameSteps(chain, chain') /\ OneFetch(chain')
        /\ SomeFetch(chain') => entry'.phase = "loading"
        /\ entry'.phase = "none" \/ entry.phase # "none"
    BY <1>4, SameSame, OpsSame
  <2> QED BY <1>1, <2>5, <2>6, <2>7, <2>8, <2>9, CallersStep
<1> QED BY <1>3, <1>4 DEF Reserve

\* The entry is removed, whose holders lose it; a caller may be over with it.
LEMMA EveryoneReleased ==
  ASSUME Inv, Content, UNCHANGED <<disk, sessions, live, states>>,
         NEW r \in Readers, NEW c, \/ readers' = Released(readers)
                                   \/ readers' = [Released(readers) EXCEPT ![r] = c],
         \A q \in Readers : Holder(readers[q]) => q = r /\ readers' # Released(readers),
         Call(c, entry', disk.log, states, live, sessions), ~Holder(c)
  PROVE  CallInv'
<1>1. ASSUME NEW q \in Readers, readers'[q] = [readers[q] EXCEPT !.holds = FALSE],
             ~Holder(readers[q])
      PROVE  Call(readers'[q], entry', disk.log, states, live, sessions) /\ ~Holder(readers'[q])
  BY <1>1, CallReleased, Callers, HolderPhase
<1>2. ASSUME NEW q \in Readers
      PROVE  Call(readers'[q], entry', disk.log, states, live, sessions) /\ ~Holder(readers'[q])
  <2>1. Released(readers)[q] = [readers[q] EXCEPT !.holds = FALSE] BY DEF Released
  <2>2. q \in DOMAIN Released(readers) BY DEF Released
  <2>3. CASE readers' = Released(readers) BY <1>1, <2>1, <2>3
  <2>4. CASE readers' = [Released(readers) EXCEPT ![r] = c] /\ q = r BY <2>2, <2>4
  <2>5. CASE readers' = [Released(readers) EXCEPT ![r] = c] /\ q # r
    <3>1. readers'[q] = [readers[q] EXCEPT !.holds = FALSE] BY <2>1, <2>2, <2>5
    <3> QED BY <1>1, <2>5, <3>1
  <2> QED BY <2>3, <2>4, <2>5
<1> QED BY <1>2 DEF CallInv

LEMMA ReleaseContent ==
  ASSUME Inv, Inv', Content, NEW r \in Readers, Release(r)
  PROVE  Content'
<1>1. /\ readers[r].at = "held" /\ chain' = chain
      /\ UNCHANGED <<disk, sessions, live, states, retirement, job, plugin>>
  BY DEF Release
<1>2. Holder(readers[r]) /\ entry.phase = "reserved" BY <1>1, HolderPhase
<1>3. \A q \in Readers : Holder(readers[q]) => q = r BY <1>2 DEF Content, CallInv
<1>4. job.does \notin {"repair", "repaired"} BY <1>2, Repairer
<1>5. /\ SameSteps(chain, chain') /\ OneFetch(chain') /\ ~SomeFetch(chain')
      /\ job # NoJob => chain' # <<>> /\ chain'[1] = chain[1]
  BY <1>1, <1>2, SameSame, OpsSame, JobHead
<1>6. CASE entry' = [entry EXCEPT !.phase = "ready"] /\ readers' = Over(readers, r)
  <2>1. readers' = [readers EXCEPT ![r] = NoCall] BY <1>6 DEF Over
  <2>2. Call(NoCall, entry', disk.log, states, live, sessions) /\ ~Holder(NoCall)
    BY CallIdle, IdleFields
  <2>3. entry \in Entries BY DEF Inv, TypeInv
  <2>4. entry'.phase = "ready" /\ entry'.source = entry.source BY <1>6, <2>3 DEF Entries
  <2>5. CallInv' BY <1>1, <1>3, <2>1, <2>2, <2>4, OneCaller
  <2>6. EntryInv' BY <1>1, <1>2, <2>4, EntrySame DEF Content
  <2> QED BY <1>1, <1>2, <1>4, <1>5, <2>5, <2>6, CallersStep
<1>7. CASE entry' = NoEntry /\ readers' = Over(Released(readers), r)
  <2>1. readers' = [Released(readers) EXCEPT ![r] = NoCall] BY <1>7 DEF Over
  <2>2. Call(NoCall, entry', disk.log, states, live, sessions) /\ ~Holder(NoCall)
    BY CallIdle, IdleFields
  <2>3. entry'.phase = "none" BY <1>7 DEF NoEntry
  <2>4. readers' # Released(readers)
    <3>1. Released(readers)[r] = [readers[r] EXCEPT !.holds = FALSE] BY DEF Released
    <3>2. Released(readers)[r].at = "held" BY <1>1, <3>1, Callers DEF CallRecs
    <3>3. readers'[r] = NoCall BY <2>1 DEF Released
    <3> QED BY <3>2, <3>3, IdleFields
  <2>5. CallInv' BY <1>1, <1>3, <2>1, <2>2, <2>4, EveryoneReleased
  <2>6. EntryInv' BY <1>1, <1>7, EntrySame DEF Content
  <2> QED BY <1>1, <1>2, <1>4, <1>5, <2>5, <2>6, CallersStep
<1> QED BY <1>6, <1>7 DEF Release

LEMMA EvictContent ==
  ASSUME Inv, Inv', Content, Evict
  PROVE  Content'
<1>1. /\ entry.phase = "ready" /\ entry' = NoEntry /\ readers' = Released(readers)
      /\ chain' = Orphan(chain)
      /\ UNCHANGED <<disk, sessions, live, states, retirement, job, plugin>>
  BY DEF Evict
<1>2. \A q \in Readers : ~Holder(readers[q]) BY <1>1, HolderPhase
<1>3. entry'.phase = "none" BY <1>1 DEF NoEntry
<1>4. CallInv'
  <2>1. CASE Readers = {} BY <2>1 DEF CallInv
  <2>2. ASSUME NEW r \in Readers PROVE CallInv'
    <3>1. Call(NoCall, entry', disk.log, states, live, sessions) /\ ~Holder(NoCall)
      BY CallIdle, IdleFields
    <3> QED BY <1>1, <1>2, <3>1, EveryoneReleased
  <2> QED BY <2>1, <2>2
<1>5. EntryInv' BY <1>1, EntrySame DEF Content
<1>6. SameOps(chain, chain') BY <1>1, Typed, OrphanSame
<1>7. /\ SameSteps(chain, chain') /\ OneFetch(chain') /\ ~SomeFetch(chain')
  BY <1>1, <1>6, OpsSame
<1>8. job # NoJob => chain' # <<>> /\ chain'[1] = chain[1] BY <1>1, OrphanKeeps
<1>9. job.does \notin {"repair", "repaired"} BY <1>1, Repairer
<1> QED BY <1>1, <1>3, <1>4, <1>5, <1>7, <1>8, <1>9, CallersStep

LEMMA ReadContent ==
  ASSUME Inv, Inv', Content, Read
  PROVE  Content'
<1> DEFINE current == Head1.by # None
           waits(r) == readers[r].at = "join" /\ readers[r].source = NoSource
                       /\ readers[r].holds = current
           found == disk.made /\ Open = {}
<1>1. /\ chain # <<>> /\ Head1.op = "read" /\ job = NoJob /\ chain' = Pop
      /\ entry' = IF ~current THEN entry
                  ELSE IF found THEN [phase |-> "ready", source |-> Source] ELSE NoEntry
      /\ readers' = [r \in Readers |->
           IF ~waits(r) THEN readers[r]
           ELSE IF found THEN [readers[r] EXCEPT !.source = Source] ELSE NoCall]
      /\ UNCHANGED <<disk, sessions, live, states, retirement, job, plugin>>
  BY DEF Read, Starts, Running
<1>2. /\ SameOps(chain, chain') /\ (current => ~SomeFetch(chain'))
  <2>1. SameOps(chain, chain') BY <1>1, Typed, PopSame DEF Pop, Head1, LifeSteps, Starters
  <2>2. current => Fetches(chain[1]) BY <1>1 DEF Fetches, Head1
  <2>3. OneFetch(chain) BY DEF Content, OrderInv
  <2> QED BY <1>1, <2>1, <2>2, <2>3, Typed, PopFewer DEF Pop
<1>3. ASSUME current PROVE entry.phase = "loading"
  <2>1. 1 \in DOMAIN chain BY <1>1, Typed, Popped
  <2>2. SomeFetch(chain) BY <1>1, <1>3, <2>1 DEF SomeFetch, Fetches, Head1
  <2> QED BY <2>2 DEF Content, OrderInv
<1> HIDE DEF current, found
<1>4. ASSUME NEW q \in Readers
      PROVE  /\ Call(readers'[q], entry', disk.log, states, live, sessions)
             /\ Holder(readers'[q]) => Holder(readers[q])
  <2>1. Call(readers[q], entry, disk.log, states, live, sessions) /\ readers[q] \in CallRecs
    BY Callers, HolderPhase
  <2>2. CASE ~waits(q)
    <3>1. readers'[q] = readers[q] BY <1>1, <2>2
    <3>2. current => ~readers[q].holds
      BY <1>3, <2>1, <2>2 DEF Call
    <3>3. Call(readers[q], entry', disk.log, states, live, sessions)
      BY <1>1, <2>1, <3>2, CallSame DEF Holder
    <3> QED BY <3>1, <3>3
  <2>3. CASE waits(q) /\ found
    <3> DEFINE c == [readers[q] EXCEPT !.source = Source]
    <3>1. readers'[q] = c BY <1>1, <2>3
    <3>2. c.at = "join" /\ c.holds = readers[q].holds BY <2>1, <2>3 DEF CallRecs
    <3> HIDE DEF c
    <3>3. c.holds => entry'.phase \notin {"none", "loading"} BY <1>1, <2>3, <3>2
    <3>4. Call(c, entry', disk.log, states, live, sessions) /\ ~Holder(c)
      BY <3>2, <3>3 DEF Call, Holder, Taken
    <3> QED BY <3>1, <3>4
  <2>4. CASE waits(q) /\ ~found
    <3>1. readers'[q] = NoCall BY <1>1, <2>4
    <3> QED BY <3>1, CallIdle, IdleFields
  <2> QED BY <2>2, <2>3, <2>4
<1>5. CallInv' BY <1>1, <1>4 DEF Content, CallInv
<1>6. EntryInv'
  <2>1. CASE ~current BY <1>1, <2>1 DEF Content, EntryInv, Growing
  <2>2. CASE current /\ ~found BY <1>1, <2>2, EntrySame DEF Content
  <2>3. CASE current /\ found
    <3>1. entry' = [phase |-> "ready", source |-> Source] BY <1>1, <2>3
    <3>2. WellRead(Source) /\ Source.seen = disk BY <2>3 DEF WellRead, Source, found
    <3>3. Growing' = 0 BY <1>1 DEF Growing, NoJob
    <3>4. Len(disk.log) \in Nat BY Typed
    <3>5. Len(Source.seen.log) + 0 <= Len(disk.log) BY <3>2, <3>4
    <3>6. disk' = disk BY <1>1
    <3>7. entry'.source = Source /\ entry'.phase = "ready" BY <3>1
    <3> HIDE DEF Source
    <3> QED BY <3>2, <3>3, <3>5, <3>6, <3>7 DEF EntryInv
  <2> QED BY <2>1, <2>2, <2>3
<1>7. /\ SameSteps(chain, chain') /\ OneFetch(chain')
      /\ SomeFetch(chain') => entry'.phase = "loading"
  BY <1>1, <1>2, OpsSame
<1>8. entry'.phase = "none" \/ entry.phase # "none" BY <1>1, <1>3
<1> QED BY <1>1, <1>5, <1>6, <1>7, <1>8, CallersStep DEF NoJob

LEMMA CheckContent ==
  ASSUME Inv, Inv', Content, Check
  PROVE  Content'
<1> DEFINE r == Head1.by
           retained == readers[r].holds /\ entry.phase # "ready"
<1>1. /\ chain # <<>> /\ Head1.op = "check" /\ job = NoJob /\ chain' = Pop
      /\ \/ /\ readers' = [readers EXCEPT ![r] = [@ EXCEPT !.at = "done", !.holds = FALSE]]
            /\ UNCHANGED entry
         \/ /\ ~retained
            /\ readers' = Back(Orphaned(r, readers), r) /\ entry' = Removed(r)
      /\ UNCHANGED <<disk, sessions, live, states, retirement, job, plugin>>
  BY DEF Check, Starts, Running
<1>2. r \in Readers /\ readers[r].at = "check"
  BY <1>1, CallerPopped DEF ReaderOps
<1>3. readers[r].call = "inspect" /\ ~Holder(readers[r])
  BY <1>2, HolderPhase DEF Call, Holder, Taken
<1>4. SameOps(chain, chain') BY <1>1, Typed, PopSame DEF Pop, Head1, LifeSteps, Starters
<1>5. /\ SameSteps(chain, chain') /\ OneFetch(chain')
      /\ SomeFetch(chain') => entry.phase = "loading"
  BY <1>4, OpsSame
<1> HIDE DEF r
<1>6. CASE readers' = [readers EXCEPT ![r] = [@ EXCEPT !.at = "done", !.holds = FALSE]]
           /\ UNCHANGED entry
  <2> DEFINE c == [readers[r] EXCEPT !.at = "done", !.holds = FALSE]
  <2>1. readers' = [readers EXCEPT ![r] = c] BY <1>6
  <2>2. c.at = "done" /\ c.holds = FALSE /\ c.call = "inspect"
    BY <1>2, <1>3, Callers DEF CallRecs
  <2> HIDE DEF c
  <2>3. Call(c, entry', disk.log, states, live, sessions) /\ ~Holder(c)
    BY <2>2 DEF Call, Holder
  <2>4. CallInv' BY <1>1, <1>2, <1>6, <2>1, <2>3, OneCaller
  <2>5. EntryInv' BY <1>1, <1>6 DEF Content, EntryInv, Growing
  <2>6. SomeFetch(chain') => entry'.phase = "loading" BY <1>5, <1>6
  <2> QED BY <1>1, <1>5, <1>6, <2>4, <2>5, <2>6, CallersStep DEF NoJob
<1>7. CASE /\ ~retained /\ ~readers[r].holds
           /\ readers' = Back(Orphaned(r, readers), r) /\ entry' = Removed(r)
  <2> DEFINE c == [NoCall EXCEPT !.at = "wait", !.call = readers[r].call]
  <2>1. readers' = [readers EXCEPT ![r] = c] /\ entry' = entry
    BY <1>7 DEF Back, Orphaned, Removed
  <2>2. c.at = "wait" /\ c.holds = FALSE BY IdleFields
  <2> HIDE DEF c
  <2>3. Call(c, entry', disk.log, states, live, sessions) /\ ~Holder(c) BY <2>2, CallIdle
  <2>4. CallInv' BY <1>1, <1>2, <2>1, <2>3, OneCaller
  <2>5. EntryInv' BY <1>1, <2>1 DEF Content, EntryInv, Growing
  <2>6. SomeFetch(chain') => entry'.phase = "loading" BY <1>5, <2>1
  <2> QED BY <1>1, <1>5, <2>1, <2>4, <2>5, <2>6, CallersStep DEF NoJob
<1>8. CASE /\ ~retained /\ readers[r].holds
           /\ readers' = Back(Orphaned(r, readers), r) /\ entry' = Removed(r)
  <2> DEFINE c == [NoCall EXCEPT !.at = "wait", !.call = Released(readers)[r].call]
  <2>1. readers' = [Released(readers) EXCEPT ![r] = c] /\ entry' = NoEntry
        /\ entry.phase = "ready"
    BY <1>8 DEF Back, Orphaned, Removed
  <2>2. c.at = "wait" /\ c.holds = FALSE BY IdleFields
  <2> HIDE DEF c
  <2>3. Call(c, entry', disk.log, states, live, sessions) /\ ~Holder(c) BY <2>2, CallIdle
  <2>4. \A q \in Readers : ~Holder(readers[q]) BY <2>1, HolderPhase
  <2>5. CallInv' BY <1>1, <1>2, <2>1, <2>3, <2>4, EveryoneReleased
  <2>6. EntryInv' BY <1>1, <2>1, EntrySame DEF Content
  <2>7. ~SomeFetch(chain') BY <1>5, <2>1
  <2>8. entry.phase # "none" BY <2>1
  <2> QED BY <1>1, <1>5, <2>5, <2>6, <2>7, <2>8, CallersStep DEF NoJob
<1> QED BY <1>1, <1>6, <1>7, <1>8 DEF r

-----------------------------------------------------------------------------
(* Steps of controllers.                                                   *)

\* One life's entry moves: what it holds and answers for stays.
LEMMA LifeMoves ==
  ASSUME Inv, Inv', Content, NEW l \in Lives, NEW v \in LiveRecs, NEW s \in SessionRecs,
         live' = [live EXCEPT ![l] = v], sessions' = [sessions EXCEPT ![l] = s],
         s.log = sessions[l].log, s.born = sessions[l].born, sessions[l].at # "unborn",
         \/ s.at = sessions[l].at
         \/ sessions[l].at = "open" /\ s.at \in {"gone", "dead"},
         v.init = live[l].init, HasWork(v.w) => HasWork(live[l].w),
         live[l].w.writing # "no" /\ live[l].init = "ok" => v.w.active = live[l].w.active,
         Safe(v, s, plugin = "on", disk.log),
         UNCHANGED <<disk, states, job, entry, plugin>>,
         job # NoJob => chain' # <<>> /\ chain'[1] = chain[1],
         job.does \in {"repair", "repaired"} => readers'[Head1.by].holds
  PROVE  FileInv' /\ OwnerInv' /\ BatchInv' /\ ContentInv' /\ EntryInv'
<1> USE DEF Content
<1>1. /\ live'[l] = v /\ sessions'[l] = s
      /\ \A k \in Lives \ {l} : live'[k] = live[k] /\ sessions'[k] = sessions[k]
  BY DEF Inv, TypeInv
<1>2. \A k \in Lives : /\ sessions'[k].log = sessions[k].log
                       /\ sessions'[k].at = "unborn" <=> sessions[k].at = "unborn"
                       /\ Present(k)' => Present(k)
  BY <1>1 DEF Present
<1>3. FileInv' BY <1>2, FileSame
<1>4. OwnerInv' BY <1>2, OwnerSame
<1>5. BatchInv'
  <2>1. CASE job = NoJob BY <2>1 DEF BatchInv, NoJob
  <2>2. CASE job # NoJob
    <3>1. Head1' = Head1 BY <2>2 DEF Head1
    <3>2. ASSUME job.does \in {"append", "appended"}
          PROVE  /\ Head1.by \in Lives
                 /\ Head1.op = "write" => live'[Head1.by].w.active = live[Head1.by].w.active
      <4>1. chain # <<>> /\ Head1.op \in {"create", "suffix", "write"}
        BY <3>2 DEF Inv, JobInv
      <4>2. Stands(Head1, live, sessions, readers) /\ Head1.by \in Lives
        BY <4>1, HeadLife DEF LifeOps
      <4> QED BY <1>1, <4>2 DEF Stands
    <3>3. ASSUME job.does \in {"append", "appended"}
          PROVE  sessions'[Head1.by].log = sessions[Head1.by].log
      BY <1>2, <3>2, <3>3
    <3> QED BY <3>1, <3>2, <3>3 DEF BatchInv
  <2> QED BY <2>1, <2>2
<1>6. ContentInv'
  <2>1. Owns(live[l], sessions[l], states.owner = l) BY DEF ContentInv
  <2>2. Owns(v, s, states.owner = l) BY <2>1 DEF Owns
  <2> QED BY <1>1, <2>2, ContentStep
<1>7. EntryInv' BY DEF EntryInv, Growing
<1> QED BY <1>3, <1>4, <1>5, <1>6, <1>7

\* The loads that wait for a flush still do.
LEMMA LifeCalls ==
  ASSUME Inv, Content, NEW l \in Lives, NEW v \in LiveRecs,
         live' = [live EXCEPT ![l] = v],
         \A k \in Lives : sessions'[k].log = sessions[k].log,
         live[l].flush \in Flushing => v.flush \in Flushing /\ live[l].upto <= v.upto,
         UNCHANGED <<disk, states, entry>>,
         NEW r \in Readers
  PROVE  Call(readers[r], entry', disk'.log, states', live', sessions')
<1>1. live'[l] = v /\ \A k \in Lives \ {l} : live'[k] = live[k] BY DEF Inv, TypeInv
<1>2. Call(readers[r], entry, disk.log, states, live, sessions) BY HolderPhase
<1>3. ASSUME readers[r].at = "live" PROVE Waits(readers[r], live', sessions')
  <2>1. Waits(readers[r], live, sessions) BY <1>2, <1>3 DEF Call
  <2>2. /\ Len(readers[r].source.log) \in Nat /\ live[l].upto \in Nat /\ v.upto \in Nat
    BY Callers, Typed, LiveParts
  <2>3. Begins(readers[r].source.log, sessions'[readers[r].of].log) BY <2>1 DEF Waits, Begins
  <2>4. CASE readers[r].of = l BY <1>1, <2>1, <2>2, <2>3, <2>4 DEF Waits
  <2>5. CASE readers[r].of # l BY <1>1, <2>1, <2>3, <2>5 DEF Waits
  <2> QED BY <2>4, <2>5
<1> QED BY <1>2, <1>3 DEF Call

\* The head of the chain is its job's, when something is queued behind it.
LEMMA EnlistHead ==
  ASSUME Inv, NEW l \in Lives
  PROVE  /\ job # NoJob =>
              Enlist(l, live', chain) # <<>> /\ Enlist(l, live', chain)[1] = chain[1]
         /\ SameOps(chain, Enlist(l, live', chain))
<1>1. chain \in Seq(OpRecs) /\ Sound(chain, live, sessions, readers)
  BY Typed DEF Inv, ChainInv
<1>2. SameOps(chain, Enlist(l, live', chain)) BY <1>1, EnlistSame
<1> DEFINE o == Op("write", l)[1]
<1>3. Op("write", l) = <<o>> /\ o \in OpRecs BY OpFields DEF LifeOps
<1> HIDE DEF o
<1>4. /\ chain \o Op("write", l) # <<>>
      /\ chain # <<>> => (chain \o Op("write", l))[1] = chain[1]
  BY Pushed DEF LifeOps
<1>5. job # NoJob => chain # <<>> BY JobHead
<1> QED BY <1>2, <1>4, <1>5 DEF Enlist

\* A step of a controller that tells nobody.
LEMMA LifeQuiet ==
  ASSUME Inv, Inv', Content, NEW l \in Lives, NEW v \in LiveRecs,
         live' = [live EXCEPT ![l] = v],
         v.init = live[l].init, v.init # "none", Held(v.w) = Held(live[l].w),
         HasWork(v.w) => HasWork(live[l].w),
         live[l].w.writing # "no" /\ live[l].init = "ok" => v.w.active = live[l].w.active,
         v.flush \in Flushing => v.upto <= Len(sessions[l].log),
         plugin # "on" =>
           (v.flush \in Flushing => live[l].flush \in Flushing /\ v.upto <= live[l].upto),
         live[l].flush \in Flushing => v.flush \in Flushing /\ live[l].upto <= v.upto,
         v.flush # live[l].flush => ~(plugin = "on" /\ Among(OpOf("retire", l), chain)),
         UNCHANGED <<disk, sessions, states, retirement, job, entry, readers, plugin>>,
         chain' = chain \/ chain' = Enlist(l, live', chain)
  PROVE  Content'
<1> USE DEF Content
<1>1. /\ live'[l] = v /\ \A k \in Lives \ {l} : live'[k] = live[k]
      /\ sessions' = [sessions EXCEPT ![l] = sessions[l]] /\ sessions[l] \in SessionRecs
      /\ sessions[l].at # "unborn"
  BY Attached DEF Inv, TypeInv
<1>2. /\ live[l].upto \in Nat /\ v.upto \in Nat /\ Len(sessions[l].log) \in Nat
  BY Typed, LiveParts
<1>3. Safe(v, sessions[l], plugin = "on", disk.log)
  <2>1. Claims(v, sessions[l], plugin = "on")
          \subseteq Claims(live[l], sessions[l], plugin = "on")
    BY <1>2, SameClaims
  <2>2. Safe(live[l], sessions[l], plugin = "on", disk.log) BY DEF ContentInv
  <2> QED BY <2>1, <2>2, SafeHolds
<1>4. /\ job # NoJob => chain' # <<>> /\ chain'[1] = chain[1]
      /\ SameOps(chain, chain')
  BY EnlistHead, JobHead, SameSame
<1>5. job.does \in {"repair", "repaired"} => readers'[Head1.by].holds BY Repairer
<1>6. FileInv' /\ OwnerInv' /\ BatchInv' /\ ContentInv' /\ EntryInv'
  BY <1>1, <1>3, <1>4, <1>5, LifeMoves
<1>7. \A k \in Lives : live'[k].init = live[k].init BY <1>1
<1>8. BornInv' /\ ColdInv' BY <1>7, BornSame, ColdSame
<1>9. OrderInv'
  <2>1. \A k \in Lives : plugin = "on" /\ Among(OpOf("retire", k), chain) =>
          live'[k].flush = live[k].flush
    BY <1>1
  <2>2. /\ SameSteps(chain, chain') /\ OneFetch(chain')
        /\ SomeFetch(chain') => entry'.phase = "loading"
    BY <1>4, OpsSame
  <2> QED BY <1>7, <2>1, <2>2, OrderSame
<1>10. CallInv'
  <2>1. \A r \in Readers : Call(readers[r], entry', disk'.log, states', live', sessions')
    BY LifeCalls
  <2> QED BY <2>1 DEF CallInv
<1> QED BY <1>6, <1>8, <1>9, <1>10

LEMMA ControllerContent ==
  ASSUME Inv, Inv', Content, NEW l \in Lives, Window(l) \/ DrainStep(l)
  PROVE  Content'
<1> DEFINE w == IF Window(l) THEN Deadline(live[l].w) ELSE StartWrite(live[l].w, "drain")
           v == [live[l] EXCEPT !.w = w]
<1>1. live' = [live EXCEPT ![l] = v] /\ chain' = Enlist(l, live', chain)
      /\ UNCHANGED <<disk, sessions, states, retirement, job, entry, readers, plugin>>
  BY DEF Window, DrainStep, With
<1>2. live[l].w.timer \/ live[l].w.barrier # "none"
  BY DEF Window, DrainStep, DrainMore
<1>3. live[l] \in LiveRecs /\ live[l].w \in Controllers(Nat) /\ WellFormed(live[l].w)
  BY Typed, LiveParts DEF Inv, LivesInv, Queues
<1>4. Holds(live[l].w, w)
  <2>2. CASE Window(l) BY <1>3, <2>2, DeadlineHolds DEF Window
  <2>3. CASE ~Window(l)
    <3>1. DrainMore(live[l].w) BY <2>3 DEF DrainStep
    <3> QED BY <1>3, <2>3, <3>1, StartWriteHolds DEF DrainMore
  <2> QED BY <2>2, <2>3
<1> HIDE DEF w
<1>5. /\ v \in LiveRecs /\ v.w = w /\ v.init = live[l].init /\ v.flush = live[l].flush
      /\ v.upto = live[l].upto
  BY <1>3, <1>4, SetW DEF Holds, LiveRecs
<1>6. live[l].init # "none"
  <2>1. Safe(live[l], sessions[l], plugin = "on", disk.log) BY DEF Content, ContentInv
  <2> QED BY <1>2, <2>1, NoLiveFields DEF Safe
<1>7. live[l].flush \in Flushing => live[l].upto <= Len(sessions[l].log)
  BY DEF Content, ContentInv, Safe
<1>8. live[l].upto <= v.upto /\ v.upto <= live[l].upto BY <1>5, Typed
<1> HIDE DEF v
<1>9. /\ Held(v.w) = Held(live[l].w) /\ (HasWork(v.w) => HasWork(live[l].w))
      /\ live[l].w.writing # "no" => v.w.active = live[l].w.active
  BY <1>4, <1>5 DEF Holds
<1>10. v.flush \in Flushing => v.upto <= Len(sessions[l].log) BY <1>5, <1>7
<1> QED BY <1>1, <1>5, <1>6, <1>8, <1>9, <1>10, LifeQuiet

LEMMA WriteRefusedContent ==
  ASSUME Inv, Inv', Content, NEW l \in Lives, WriteRefused(l)
  PROVE  Content'
<1> DEFINE w == Failed(live[l].w)
           v == [live[l] EXCEPT !.w = w]
<1>1. live' = [live EXCEPT ![l] = v] /\ live[l].init \in {"broken", "refused"}
      /\ UNCHANGED <<disk, sessions, states, retirement, chain, job, entry, readers, plugin>>
  BY DEF WriteRefused, With
<1>2. live[l] \in LiveRecs /\ live[l].w \in Controllers(Nat) /\ WellFormed(live[l].w)
  BY Typed, LiveParts DEF Inv, LivesInv, Queues
<1>3. /\ w \in Controllers(Nat) /\ Held(w) = Held(live[l].w)
      /\ HasWork(w) => HasWork(live[l].w)
  BY <1>2, FailedHolds
<1> HIDE DEF w
<1>4. /\ v \in LiveRecs /\ v.w = w /\ v.init = live[l].init /\ v.flush = live[l].flush
      /\ v.upto = live[l].upto
  BY <1>2, <1>3, SetW DEF LiveRecs
<1>5. live[l].flush \in Flushing => live[l].upto <= Len(sessions[l].log)
  BY DEF Content, ContentInv, Safe
<1>6. live[l].upto <= v.upto /\ v.upto <= live[l].upto BY <1>4, Typed
<1>7. /\ v.init # "none" /\ live[l].init # "ok"
      /\ Held(v.w) = Held(live[l].w) /\ (HasWork(v.w) => HasWork(live[l].w))
      /\ v.flush \in Flushing => v.upto <= Len(sessions[l].log)
  BY <1>1, <1>3, <1>4, <1>5
<1> HIDE DEF v
<1> QED BY <1>1, <1>4, <1>6, <1>7, LifeQuiet

\* A flush that is asked for.
LEMMA AskedMore ==
  ASSUME Inv, Content, NEW l \in Lives
  PROVE  /\ Asked(l) \in LiveRecs /\ Asked(l).init = live[l].init
         /\ Holds(live[l].w, Asked(l).w) /\ Held(Asked(l).w) = Held(live[l].w)
         /\ HasWork(Asked(l).w) => HasWork(live[l].w)
         /\ live[l].w.writing # "no" => Asked(l).w.active = live[l].w.active
         /\ Asked(l).flush \in Flushing /\ Asked(l).upto = Len(sessions[l].log)
         /\ live[l].flush \in Flushing => live[l].upto <= Asked(l).upto
         /\ Len(sessions[l].log) \in Nat
<1>1. TypeInv /\ LivesInv BY DEF Inv
<1>2. live[l].flush \in Flushing => live[l].upto <= Len(sessions[l].log)
  BY DEF Content, ContentInv, Safe
<1> QED BY <1>1, <1>2, AskedFields, Typed DEF Holds, Flushing

LEMMA FlushContent ==
  ASSUME Inv, Inv', Content, NEW l \in Lives, Flush(l) \/ FlushGo(l)
  PROVE  Content'
<1>1. CASE Flush(l)
  <2>1. /\ sessions[l].at = "open" /\ plugin = "on" /\ live[l].flush \notin Flushing
        /\ live' = [live EXCEPT ![l] = Asked(l)] /\ chain' = Enlist(l, live', chain)
        /\ UNCHANGED <<disk, sessions, states, retirement, job, entry, readers, plugin>>
    BY <1>1 DEF Flush, Open, Flushing
  <2>2. live[l].init # "none" BY <2>1 DEF Content, ContentInv, Safe
  <2>3. ~Among(OpOf("retire", l), chain) BY <2>1, Retires DEF Inv
  <2>4. Asked(l).upto <= Len(sessions[l].log) BY AskedMore
  <2> QED BY <2>1, <2>2, <2>3, <2>4, AskedMore, LifeQuiet
<1>2. CASE FlushGo(l)
  <2> DEFINE v == [live[l] EXCEPT !.w = Drain(live[l].w), !.flush = "draining"]
  <2>1. /\ live[l].flush = "asked" /\ live[l].init = "ok"
        /\ live' = [live EXCEPT ![l] = v] /\ chain' = Enlist(l, live', chain)
        /\ UNCHANGED <<disk, sessions, states, retirement, job, entry, readers, plugin>>
    BY <1>2 DEF FlushGo
  <2>2. live[l] \in LiveRecs /\ live[l].w \in Controllers(Nat) /\ WellFormed(live[l].w)
    BY Typed, LiveParts DEF Inv, LivesInv, Queues
  <2>3. Holds(live[l].w, Drain(live[l].w)) BY <2>2, DrainHolds
  <2>4. /\ v \in LiveRecs /\ v.w = Drain(live[l].w) /\ v.init = live[l].init
        /\ v.flush = "draining" /\ v.upto = live[l].upto
    BY <2>2, <2>3 DEF LiveRecs, Holds
  <2> HIDE DEF v
  <2>5. live[l].flush \in Flushing /\ v.flush \in Flushing BY <2>1, <2>4 DEF Flushing
  <2>6. live[l].upto <= Len(sessions[l].log) /\ live[l].upto \in Nat
    BY <2>5, Typed DEF Content, ContentInv, Safe
  <2>7. ~(plugin = "on" /\ Among(OpOf("retire", l), chain))
    BY <2>1 DEF Content, OrderInv
  <2>8. live[l].upto <= v.upto /\ v.upto <= live[l].upto BY <2>4, <2>6
  <2> QED BY <2>1, <2>3, <2>4, <2>5, <2>6, <2>7, <2>8, LifeQuiet DEF Holds
<1> QED BY <1>1, <1>2

\* A session is disposed: it was the last one, and its flush is on its way.
LEMMA DisposeContent ==
  ASSUME Inv, Inv', Content, NEW l \in Lives, Dispose(l)
  PROVE  Content'
<1> USE DEF Content
<1> DEFINE s == [sessions[l] EXCEPT !.at = IF plugin = "on" THEN "gone" ELSE "dead"]
           v == IF plugin = "on" THEN Asked(l) ELSE live[l]
<1>1. /\ sessions[l].at = "open" /\ sessions[l] \in SessionRecs /\ live[l] \in LiveRecs
      /\ sessions' = [sessions EXCEPT ![l] = s]
      /\ retirement' = IF plugin = "on" THEN l ELSE retirement
      /\ chain' = Enlist(l, live', chain)
      /\ UNCHANGED <<disk, states, job, entry, readers, plugin>>
  BY DEF Dispose, Open, Inv, TypeInv
<1>2. /\ s \in SessionRecs /\ s.log = sessions[l].log /\ s.born = sessions[l].born
      /\ s.at = IF plugin = "on" THEN "gone" ELSE "dead"
  BY <1>1 DEF SessionRecs
<1> HIDE DEF s
<1>3. live' = [live EXCEPT ![l] = v]
  <2>1. live = [live EXCEPT ![l] = live[l]] BY DEF Inv, TypeInv
  <2> QED BY <2>1 DEF Dispose
<1>4. /\ v \in LiveRecs /\ v.init = live[l].init
      /\ Held(v.w) = Held(live[l].w) /\ (HasWork(v.w) => HasWork(live[l].w))
      /\ live[l].w.writing # "no" => v.w.active = live[l].w.active
      /\ live[l].flush \in Flushing => v.flush \in Flushing /\ live[l].upto <= v.upto
      /\ plugin = "on" => v.flush \in Flushing /\ v.upto = Len(sessions[l].log)
      /\ Len(sessions[l].log) \in Nat
  <2>1. live[l].upto <= live[l].upto BY Typed
  <2> QED BY <1>1, <2>1, AskedMore
<1>5. plugin # "on" => v = live[l] OBVIOUS
<1> HIDE DEF v
<1>6. Safe(live[l], sessions[l], plugin = "on", disk.log) BY DEF ContentInv
<1>7. plugin = "on" => live[l].init # "none" BY <1>1, <1>6 DEF Safe
<1>8. Safe(v, s, plugin = "on", disk.log)
  <2>1. CASE plugin = "on"
    <3>1. Claims(v, s, plugin = "on") \subseteq Claims(live[l], sessions[l], plugin = "on")
      <4>1. v.upto \in Nat /\ live[l].upto \in Nat BY <1>1, <1>4, LiveParts
      <4> QED BY <1>2, <1>4, <2>1, <4>1, SameClaims
    <3>2. v.upto <= Len(sessions[l].log) BY <1>4, <2>1
    <3> QED BY <1>2, <1>4, <1>6, <1>7, <2>1, <3>1, <3>2, SafeHolds
  <2>2. CASE plugin # "on" BY <1>2, <1>5, <1>6, <2>2 DEF Safe, Claims, Kept
  <2> QED BY <2>1, <2>2
<1>9. /\ job # NoJob => chain' # <<>> /\ chain'[1] = chain[1]
      /\ SameOps(chain, chain')
  BY <1>1, EnlistHead
<1>10. job.does \in {"repair", "repaired"} => readers'[Head1.by].holds BY <1>1, Repairer
<1>11. FileInv' /\ OwnerInv' /\ BatchInv' /\ ContentInv' /\ EntryInv'
  BY <1>1, <1>2, <1>3, <1>4, <1>8, <1>9, <1>10, LifeMoves
<1>12. /\ sessions'[l] = s /\ \A k \in Lives \ {l} : sessions'[k] = sessions[k]
       /\ live'[l] = v /\ \A k \in Lives \ {l} : live'[k] = live[k]
  BY <1>1, <1>3 DEF Inv, TypeInv
<1>13. BornInv'
  <2>1. \A k, m \in Lives : k < m =>
          /\ sessions'[k].at \in {"unborn", "open"} => sessions'[m].at = "unborn"
          /\ live'[k].init = "pending" => live'[m].init \in {"none", "pending"}
    BY <1>1, <1>2, <1>4, <1>12 DEF BornInv
  <2>2. ASSUME plugin = "on", NEW m \in Lives, live'[m].init = "pending"
        PROVE  \/ sessions'[m].at = "open" \/ retirement' = m
               \/ \E k \in Lives : m < k /\ live'[k].init = "pending"
    <3>1. CASE m = l BY <1>1, <2>2, <3>1
    <3>2. CASE m # l /\ retirement = m
      <4>1. live[m].init = "pending" /\ sessions[m].at # "unborn"
        BY <1>12, <2>2, <3>2, Attached
      <4>2. ~(l < m) BY <1>1, <4>1 DEF BornInv
      <4>3. m < l BY <3>2, <4>2, LifeNumbers
      <4>4. live[l].init \in {"none", "pending"} BY <4>1, <4>3 DEF BornInv
      <4> QED BY <1>4, <1>7, <1>12, <2>2, <4>3, <4>4
    <3>3. CASE m # l /\ retirement # m
      <4>1. live[m].init = "pending" BY <1>12, <2>2, <3>3
      <4>2. sessions[m].at = "open" \/ \E k \in Lives : m < k /\ live[k].init = "pending"
        BY <2>2, <3>3, <4>1 DEF BornInv
      <4> QED BY <1>4, <1>12, <3>3, <4>2
    <3> QED BY <3>1, <3>2, <3>3
  <2>3. plugin = "off" => \A m \in Lives : sessions'[m].at # "gone"
    BY <1>2, <1>12 DEF BornInv
  <2> QED BY <1>1, <2>1, <2>2, <2>3 DEF BornInv
<1>14. ColdInv' BY <1>1 DEF ColdInv
<1>15. OrderInv'
  <2>1. ~Among(OpOf("retire", l), chain) BY <1>1, Retires DEF Inv
  <2>2. \A k \in Lives : plugin = "on" /\ Among(OpOf("retire", k), chain) =>
          live'[k].flush = live[k].flush
    BY <1>12, <2>1
  <2>3. /\ SameSteps(chain, chain') /\ OneFetch(chain')
        /\ SomeFetch(chain') => entry'.phase = "loading"
    BY <1>1, <1>9, OpsSame
  <2>4. \A k \in Lives : sessions'[k].born = sessions[k].born /\ live'[k].init = live[k].init
    BY <1>2, <1>4, <1>12
  <2> QED BY <1>1, <2>2, <2>3, <2>4, OrderSame
<1>16. CallInv'
  <2>1. \A k \in Lives : sessions'[k].log = sessions[k].log BY <1>2, <1>12
  <2>2. \A r \in Readers : Call(readers[r], entry', disk'.log, states', live', sessions')
    BY <1>1, <1>3, <1>4, <2>1, LifeCalls
  <2> QED BY <1>1, <2>2 DEF CallInv
<1> QED BY <1>11, <1>13, <1>14, <1>15, <1>16

\* What a flush was asked for is stored when there is no work left.
LEMMA Flushed ==
  ASSUME Inv, Content, NEW l \in Lives, live[l].init = "ok", live[l].flush \in Flushing,
         ~HasWork(live[l].w)
  PROVE  /\ live[l].upto <= Len(sessions[l].log)
         /\ \A n \in 1 .. live[l].upto :
              n <= Len(disk.log) /\ disk.log[n] = sessions[l].log[n]
<1>1. Safe(live[l], sessions[l], plugin = "on", disk.log) BY DEF Content, ContentInv
<1>2. live[l].upto <= Len(sessions[l].log) BY <1>1 DEF Safe
<1>3. live[l].w.active = <<>> /\ live[l].w.pending = <<>>
  BY DEF HasWork, Inv, LivesInv, Queues, WellFormed
<1>4. Held(live[l].w) = <<>> BY <1>3, ConcatEmptySeq, EmptySeq DEF Held
<1>5. \A n : ~IsHeld(live[l].w, n) BY <1>4, EmptySeq DEF IsHeld
<1>6. ASSUME NEW n \in 1 .. live[l].upto
      PROVE  n <= Len(disk.log) /\ disk.log[n] = sessions[l].log[n]
  <2>1. n \in 1 .. Len(sessions[l].log) /\ n <= live[l].upto BY <1>2, Typed
  <2>2. n \in Claims(live[l], sessions[l], plugin = "on") BY <2>1 DEF Claims
  <2>3. Kept(sessions[l], n, disk.log) BY <1>1, <1>5, <2>2 DEF Safe
  <2> QED BY <2>3 DEF Kept
<1> QED BY <1>2, <1>6

\* Another operation than an initialization or a read is queued.
LEMMA PushMore ==
  ASSUME NEW c \in Seq(OpRecs), NEW o \in OpRecs, o.op \notin Starters, o.op # "read"
  PROVE  /\ Ordered(c) => Ordered(c \o <<o>>)
         /\ \A p : Among(p, c \o <<o>>) <=> Among(p, c) \/ p = o
         /\ OneFetch(c) => OneFetch(c \o <<o>>)
         /\ SomeFetch(c \o <<o>>) => SomeFetch(c)
<1> DEFINE d == c \o <<o>>
<1>1. /\ DOMAIN d = 1 .. Len(c) + 1 /\ Len(c) \in Nat /\ DOMAIN c = 1 .. Len(c)
      /\ \A i \in DOMAIN c : d[i] = c[i]
      /\ d[Len(c) + 1] = o
  BY PushedFields
<1> HIDE DEF d
<1>2. \A i \in DOMAIN d : i \in DOMAIN c \/ (i = Len(c) + 1 /\ d[i] = o) BY <1>1
<1>3. DOMAIN c \subseteq DOMAIN d /\ Len(c) + 1 \in DOMAIN d BY <1>1
<1>4. Ordered(c) => Ordered(d) BY <1>1, <1>2 DEF Ordered
<1>5. \A p : Among(p, d) <=> Among(p, c) \/ p = o BY <1>1, <1>2, <1>3 DEF Among
<1>6. \A i \in DOMAIN d : Fetches(d[i]) => i \in DOMAIN c /\ d[i] = c[i]
  BY <1>1, <1>2 DEF Fetches
<1>7. (OneFetch(c) => OneFetch(d)) /\ (SomeFetch(d) => SomeFetch(c))
  BY <1>6 DEF OneFetch, SomeFetch
<1> QED BY <1>4, <1>5, <1>7 DEF d

\* A caller that does not wait for the life that moves.
LEMMA OthersCall ==
  ASSUME Inv, Content, NEW l \in Lives, \A k \in Lives \ {l} : live'[k] = live[k],
         \A k \in Lives : sessions'[k].log = sessions[k].log,
         UNCHANGED <<disk, states, entry>>,
         NEW r \in Readers, ~(readers[r].at = "live" /\ readers[r].of = l)
  PROVE  Call(readers[r], entry', disk'.log, states', live', sessions')
<1>1. Call(readers[r], entry, disk.log, states, live, sessions) BY HolderPhase
<1>2. ASSUME readers[r].at = "live" PROVE Waits(readers[r], live', sessions')
  BY <1>1, <1>2 DEF Call, Waits, Begins
<1> QED BY <1>1, <1>2 DEF Call

LEMMA FlushOverContent ==
  ASSUME Inv, Inv', Content, NEW l \in Lives, FlushOver(l)
  PROVE  Content'
<1> USE DEF Content
<1> DEFINE v == FlushEnds(live[l], "no")
           o == Op("retire", l)[1]
<1>1. /\ live[l].flush = "draining" /\ Drained(live[l].w) /\ live[l].init = "ok"
      /\ live' = [live EXCEPT ![l] = v] /\ readers' = Answered(l)
      /\ UNCHANGED <<disk, sessions, states, retirement, job, entry, plugin>>
  BY DEF FlushOver, Inv, LivesInv, Stages
<1>2. /\ sessions[l].at # "unborn" /\ sessions[l] \in SessionRecs /\ live[l] \in LiveRecs
      /\ plugin # "off" /\ sessions = [sessions EXCEPT ![l] = sessions[l]]
  BY <1>1, Attached
<1>3. /\ v \in LiveRecs /\ v.init = live[l].init /\ v.flush = "no"
      /\ Holds(live[l].w, v.w)
  BY <1>2, FlushEndsFields DEF Inv, LivesInv, Queues
<1> HIDE DEF v
<1>4. /\ Held(v.w) = Held(live[l].w) /\ (HasWork(v.w) => HasWork(live[l].w))
      /\ live[l].w.writing # "no" => v.w.active = live[l].w.active
      /\ v.flush \notin Flushing /\ live[l].flush \in Flushing /\ ~HasWork(live[l].w)
  BY <1>1, <1>3 DEF Holds, Drained, Flushing
<1>5. Safe(v, sessions[l], plugin = "on", disk.log)
  <2>1. Claims(v, sessions[l], plugin = "on")
          \subseteq Claims(live[l], sessions[l], plugin = "on")
    BY <1>4 DEF Claims
  <2>2. Safe(live[l], sessions[l], plugin = "on", disk.log) BY DEF ContentInv
  <2> QED BY <1>1, <1>3, <1>4, <2>1, <2>2, SafeHolds
<1>6. /\ live'[l] = v /\ \A k \in Lives \ {l} : live'[k] = live[k]
  BY <1>1 DEF Inv, TypeInv
<1>7. o \in OpRecs /\ o.op = "retire" /\ o.by = l /\ Op("retire", l) = <<o>>
  BY OpFields DEF LifeOps
<1> HIDE DEF o
<1>8. chain' = chain \/ chain' = chain \o <<o>> BY <1>7 DEF FlushOver
<1>9. /\ job # NoJob => chain' # <<>> /\ chain'[1] = chain[1]
      /\ Ordered(chain') /\ OneFetch(chain')
      /\ SomeFetch(chain') => SomeFetch(chain)
      /\ \A p : Among(p, chain') => Among(p, chain) \/ p = o
      /\ \A p : Among(p, chain) => Among(p, chain')
  <2>1. CASE chain' = chain BY <2>1, JobHead DEF OrderInv
  <2>2. CASE chain' = chain \o <<o>>
    <3>1. o.op \notin Starters /\ o.op # "read" BY <1>7 DEF Starters
    <3>2. job # NoJob => chain' # <<>> /\ chain'[1] = chain[1]
      BY <1>7, <2>2, Pushed, JobHead DEF LifeOps
    <3> QED BY <2>2, <3>1, <3>2, <1>7, Typed, PushMore DEF OrderInv
  <2> QED BY <1>8, <2>1, <2>2
<1>10. \A r \in Readers : readers[r].at # "live" => readers'[r] = readers[r]
  BY <1>1 DEF Answered
<1>11. job.does \in {"repair", "repaired"} => readers'[Head1.by].holds
  BY <1>10, Repairer
<1>12. FileInv' /\ OwnerInv' /\ BatchInv' /\ ContentInv' /\ EntryInv'
  BY <1>1, <1>2, <1>3, <1>4, <1>5, <1>9, <1>11, LifeMoves
<1>13. \A k \in Lives : live'[k].init = live[k].init BY <1>3, <1>6
<1>14. BornInv' /\ ColdInv' BY <1>1, <1>13, BornSame, ColdSame
<1>15. OrderInv'
  <2>1. ASSUME NEW k \in Lives
        PROVE  /\ live'[k].init = "pending" => \E op \in Starters : Among(OpOf(op, k), chain')
               /\ plugin' = "on" /\ Among(OpOf("retire", k), chain') => live'[k].flush = "no"
               /\ Among(OpOf("suffix", k), chain') =>
                    states'.owner = k /\ states'.made /\ states'.cursor < sessions'[k].born
    <3>1. OpOf("suffix", k) # o BY <1>7 DEF OpOf
    <3>2. live'[k].init = "pending" => \E op \in Starters : Among(OpOf(op, k), chain')
      BY <1>9, <1>13 DEF OrderInv
    <3>3. plugin' = "on" /\ Among(OpOf("retire", k), chain') => live'[k].flush = "no"
      <4>1. CASE k = l BY <1>3, <1>6, <4>1
      <4>2. CASE k # l
        <5>1. OpOf("retire", k) # o BY <1>7, <4>2 DEF OpOf
        <5> QED BY <1>1, <1>6, <1>9, <4>2, <5>1 DEF OrderInv
      <4> QED BY <4>1, <4>2
    <3>4. Among(OpOf("suffix", k), chain') =>
            states'.owner = k /\ states'.made /\ states'.cursor < sessions'[k].born
      BY <1>1, <1>9, <3>1 DEF OrderInv
    <3> QED BY <3>2, <3>3, <3>4
  <2> QED BY <1>1, <1>9, <2>1 DEF OrderInv
<1>16. CallInv'
  <2>1. ASSUME NEW r \in Readers
        PROVE  /\ Call(readers'[r], entry', disk'.log, states', live', sessions')
               /\ Holder(readers'[r]) => Holder(readers[r])
    <3>1. Call(readers[r], entry, disk.log, states, live, sessions) BY HolderPhase
    <3>2. CASE ~(readers[r].at = "live" /\ readers[r].of = l)
      <4>1. readers'[r] = readers[r] BY <1>1, <3>2 DEF Answered
      <4> QED BY <1>1, <1>6, <3>2, <4>1, OthersCall
    <3>3. CASE readers[r].at = "live" /\ readers[r].of = l
      <4> DEFINE c == [readers[r] EXCEPT !.at = "done"]
      <4>1. \/ readers'[r] = NoCall
            \/ readers'[r] = c /\ Balanced(readers[r].source.log)
        BY <1>1, <3>3 DEF Answered
      <4>2. c.at = "done" /\ c.holds = readers[r].holds /\ c.source = readers[r].source
        BY Callers DEF CallRecs
      <4> HIDE DEF c
      <4>3. readers[r].holds = FALSE /\ Waits(readers[r], live, sessions)
        BY <3>1, <3>3, Callers DEF Call
      <4>4. Begins(readers[r].source.log, disk.log)
        <5>1. /\ \A n \in 1 .. live[l].upto :
                   n <= Len(disk.log) /\ disk.log[n] = sessions[l].log[n]
          BY <1>1, <1>4, Flushed
        <5> DEFINE m == Len(readers[r].source.log)
        <5>2. m <= live[l].upto /\ Begins(readers[r].source.log, sessions[l].log)
          BY <3>3, <4>3 DEF Waits
        <5>3. m \in Nat /\ live[l].upto \in Nat /\ Len(disk.log) \in Nat BY Callers, Typed
        <5>4. m <= Len(disk.log)
          <6>1. CASE m = 0 BY <5>3, <6>1
          <6>2. CASE m # 0
            <7>1. m \in 1 .. live[l].upto BY <5>2, <5>3, <6>2
            <7> QED BY <5>1, <7>1
          <6> QED BY <6>1, <6>2
        <5> QED BY <5>1, <5>2, <5>3, <5>4 DEF Begins
      <4>5. CASE readers'[r] = NoCall BY <4>5, CallIdle, IdleFields
      <4>6. CASE readers'[r] = c /\ Balanced(readers[r].source.log)
        <5>1. Call(c, entry', disk'.log, states', live', sessions') /\ ~Holder(c)
          BY <1>1, <4>2, <4>3, <4>4, <4>6 DEF Call, Holder
        <5> QED BY <4>6, <5>1
      <4> QED BY <4>1, <4>5, <4>6
    <3> QED BY <3>2, <3>3
  <2> QED BY <2>1 DEF CallInv
<1> QED BY <1>12, <1>14, <1>15, <1>16

LEMMA FlushFailsContent ==
  ASSUME Inv, Inv', Content, NEW l \in Lives, FlushFails(l)
  PROVE  Content'
<1> USE DEF Content
<1> DEFINE u == [live[l] EXCEPT !.w = CancelWait(live[l].w)]
           v == FlushEnds(u, "failed")
<1>1. /\ live[l].flush \in Flushing /\ live[l].init \in {"ok", "broken", "refused"}
      /\ live' = [live EXCEPT ![l] = v]
      /\ readers' = [r \in Readers |->
           IF readers[r].at = "live" /\ readers[r].of = l THEN NoCall ELSE readers[r]]
      /\ retirement' = IF retirement = l THEN None ELSE retirement
      /\ UNCHANGED <<disk, sessions, states, chain, job, entry, plugin>>
  BY DEF FlushFails, Flushing, Inv, LivesInv, Stages
<1>2. /\ sessions[l].at # "unborn" /\ sessions[l] \in SessionRecs /\ live[l] \in LiveRecs
      /\ plugin # "off" /\ sessions = [sessions EXCEPT ![l] = sessions[l]]
  BY <1>1, Attached DEF Flushing
<1>3. /\ u \in LiveRecs /\ u.init = live[l].init /\ Holds(live[l].w, u.w)
  <2>1. Holds(live[l].w, CancelWait(live[l].w))
    BY <1>2, LiveParts, CancelWaitHolds DEF Inv, LivesInv, Queues
  <2> QED BY <1>2, <2>1, SetW DEF Holds
<1> HIDE DEF u
<1>4. v \in LiveRecs /\ v.init = live[l].init /\ v.flush = "failed" /\ Holds(live[l].w, v.w)
  <2>1. v \in LiveRecs /\ v.init = u.init /\ v.flush = "failed" /\ Holds(u.w, v.w)
    BY <1>3, FlushEndsFields DEF Holds
  <2> QED BY <1>3, <2>1 DEF Holds
<1> HIDE DEF v
<1>5. /\ Held(v.w) = Held(live[l].w) /\ (HasWork(v.w) => HasWork(live[l].w))
      /\ live[l].w.writing # "no" => v.w.active = live[l].w.active
      /\ v.flush \notin Flushing
  BY <1>4 DEF Holds, Flushing
<1>6. Safe(v, sessions[l], plugin = "on", disk.log)
  <2>1. Claims(v, sessions[l], plugin = "on")
          \subseteq Claims(live[l], sessions[l], plugin = "on")
    BY <1>5 DEF Claims
  <2>2. Safe(live[l], sessions[l], plugin = "on", disk.log) BY DEF ContentInv
  <2> QED BY <1>1, <1>4, <1>5, <2>1, <2>2, SafeHolds
<1>7. /\ live'[l] = v /\ \A k \in Lives \ {l} : live'[k] = live[k]
  BY <1>1 DEF Inv, TypeInv
<1>8. \A r \in Readers : readers[r].at # "live" => readers'[r] = readers[r]
  BY <1>1
<1>9. job.does \in {"repair", "repaired"} => readers'[Head1.by].holds
  BY <1>8, Repairer
<1>10. job # NoJob => chain' # <<>> /\ chain'[1] = chain[1] BY <1>1, JobHead
<1>11. FileInv' /\ OwnerInv' /\ BatchInv' /\ ContentInv' /\ EntryInv'
  BY <1>1, <1>2, <1>4, <1>5, <1>6, <1>9, <1>10, LifeMoves
<1>12. \A k \in Lives : live'[k].init = live[k].init BY <1>4, <1>7
<1>13. BornInv' BY <1>1, <1>12 DEF BornInv
<1>14. ColdInv'
  <2>1. retirement = None => retirement' = None BY <1>1
  <2> QED BY <1>1, <1>12, <2>1 DEF ColdInv
<1>15. OrderInv'
  <2>1. ~(plugin = "on" /\ Among(OpOf("retire", l), chain))
    BY <1>1 DEF OrderInv, Flushing
  <2>2. \A k \in Lives : plugin = "on" /\ Among(OpOf("retire", k), chain) =>
          live'[k].flush = live[k].flush
    BY <1>7, <2>1
  <2>3. SameSteps(chain, chain') BY <1>1, SameSame DEF SameOps
  <2>4. OneFetch(chain') /\ (SomeFetch(chain') => entry'.phase = "loading")
    BY <1>1 DEF OrderInv
  <2> QED BY <1>1, <1>12, <2>2, <2>3, <2>4, OrderSame
<1>16. CallInv'
  <2>1. ASSUME NEW r \in Readers
        PROVE  /\ Call(readers'[r], entry', disk'.log, states', live', sessions')
               /\ Holder(readers'[r]) => Holder(readers[r])
    <3>1. CASE ~(readers[r].at = "live" /\ readers[r].of = l)
      BY <1>1, <1>7, <3>1, OthersCall
    <3>2. CASE readers[r].at = "live" /\ readers[r].of = l
      <4>1. readers'[r] = NoCall BY <1>1, <3>2
      <4> QED BY <4>1, CallIdle, IdleFields
    <3> QED BY <3>1, <3>2
  <2> QED BY <2>1 DEF CallInv
<1> QED BY <1>11, <1>13, <1>14, <1>15, <1>16

\* A live session answers at once, or is flushed.
LEMMA LookAtLiveContent ==
  ASSUME Inv, Inv', Content, NEW r \in Readers, LookAtLive(r)
  PROVE  Content'
<1> USE DEF Content
<1> DEFINE l == CHOOSE l \in Open : TRUE
           view == [log |-> sessions[l].log, seen |-> NoDisk]
           talks == [readers[r] EXCEPT !.at = "live", !.of = l, !.source = view]
           knows == [readers[r] EXCEPT !.at = "done", !.of = l, !.source = view]
<1>1. /\ readers[r].at = "wait" /\ l \in Open
      /\ UNCHANGED <<disk, sessions, states, retirement, job, entry, plugin>>
      /\ \/ readers' = [readers EXCEPT ![r] = NoCall] /\ UNCHANGED <<live, chain>>
         \/ /\ readers' = [readers EXCEPT ![r] = talks]
            /\ live' = [live EXCEPT ![l] = Asked(l)] /\ chain' = Enlist(l, live', chain)
         \/ /\ readers[r].call # "load"
            /\ readers' = [readers EXCEPT ![r] = knows] /\ UNCHANGED <<live, chain>>
  BY DEF LookAtLive, Over
<1>2. plugin = "on" BY <1>1 DEF Inv, PluginInv
<1>3. l \in Lives /\ sessions[l].at = "open" BY <1>1 DEF Open
<1> HIDE DEF l
<1>4. /\ talks.at = "live" /\ talks.of = l /\ talks.source = view /\ talks.call = readers[r].call
      /\ talks.holds = readers[r].holds
      /\ knows.at = "done" /\ knows.call = readers[r].call /\ knows.holds = readers[r].holds
  <2> HIDE DEF view
  <2> QED BY Callers DEF CallRecs
<1>5. view.log = sessions[l].log OBVIOUS
<1> HIDE DEF talks, knows, view
<1>6. readers[r].holds = FALSE BY <1>1, Callers, HolderPhase DEF Call
<1>7. job.does \in {"repair", "repaired"} => readers'[Head1.by].holds
  <2> SUFFICES ASSUME job.does \in {"repair", "repaired"} PROVE readers'[Head1.by].holds
    OBVIOUS
  <2>1. Head1.by \in Readers /\ Head1.by # r /\ readers[Head1.by].holds BY <1>1, Repairer
  <2> QED BY <1>1, <2>1, Callers
<1>8. ASSUME NEW c, readers' = [readers EXCEPT ![r] = c], UNCHANGED <<live, chain>>,
             Call(c, entry', disk.log, states, live, sessions), ~Holder(c)
      PROVE  Content'
  <2>1. CallInv' BY <1>1, <1>8, OneCaller
  <2>2. EntryInv' BY <1>1 DEF EntryInv, Growing
  <2>3. job # NoJob => chain' # <<>> /\ chain'[1] = chain[1] BY <1>8, JobHead
  <2>4. /\ SameSteps(chain, chain') /\ OneFetch(chain')
        /\ SomeFetch(chain') => entry'.phase = "loading"
        /\ entry'.phase = "none" \/ entry.phase # "none"
    BY <1>1, <1>8, SameSame, OpsSame
  <2> QED BY <1>1, <1>7, <1>8, <2>1, <2>2, <2>3, <2>4, CallersStep
<1>9. CASE readers' = [readers EXCEPT ![r] = NoCall] /\ UNCHANGED <<live, chain>>
  <2>1. Call(NoCall, entry', disk.log, states, live, sessions) /\ ~Holder(NoCall)
    BY CallIdle, IdleFields
  <2> QED BY <1>8, <1>9, <2>1
<1>10. CASE /\ readers[r].call # "load"
            /\ readers' = [readers EXCEPT ![r] = knows] /\ UNCHANGED <<live, chain>>
  <2>1. Call(knows, entry', disk.log, states, live, sessions) /\ ~Holder(knows)
    BY <1>4, <1>6, <1>10 DEF Call, Holder
  <2> QED BY <1>8, <1>10, <2>1
<1>11. CASE /\ readers' = [readers EXCEPT ![r] = talks]
            /\ live' = [live EXCEPT ![l] = Asked(l)] /\ chain' = Enlist(l, live', chain)
  <2> DEFINE v == Asked(l)
  <2>1. /\ v \in LiveRecs /\ v.init = live[l].init
        /\ Held(v.w) = Held(live[l].w) /\ (HasWork(v.w) => HasWork(live[l].w))
        /\ live[l].w.writing # "no" => v.w.active = live[l].w.active
        /\ live[l].flush \in Flushing => v.flush \in Flushing /\ live[l].upto <= v.upto
        /\ v.flush \in Flushing /\ v.upto = Len(sessions[l].log)
        /\ Len(sessions[l].log) \in Nat /\ v.upto \in Nat /\ live[l].upto \in Nat
    BY <1>3, AskedMore, Typed, LiveParts
  <2>2. live' = [live EXCEPT ![l] = v] BY <1>11
  <2> HIDE DEF v
  <2>3. Safe(v, sessions[l], plugin = "on", disk.log)
    <3>1. Safe(live[l], sessions[l], plugin = "on", disk.log) BY <1>3 DEF ContentInv
    <3>2. live[l].init # "none" BY <1>2, <1>3, <3>1 DEF Safe
    <3>3. Claims(v, sessions[l], plugin = "on")
            \subseteq Claims(live[l], sessions[l], plugin = "on")
      BY <1>2, <2>1, SameClaims
    <3>4. v.upto <= Len(sessions[l].log) BY <2>1
    <3> QED BY <2>1, <3>1, <3>2, <3>3, <3>4, SafeHolds
  <2>4. /\ job # NoJob => chain' # <<>> /\ chain'[1] = chain[1]
        /\ SameOps(chain, chain')
    BY <1>3, <1>11, EnlistHead
  <2>5. /\ sessions' = [sessions EXCEPT ![l] = sessions[l]] /\ sessions[l] \in SessionRecs
    BY <1>1, <1>3 DEF Inv, TypeInv
  <2>6. FileInv' /\ OwnerInv' /\ BatchInv' /\ ContentInv' /\ EntryInv'
    BY <1>1, <1>3, <1>7, <2>1, <2>2, <2>3, <2>4, <2>5, LifeMoves
  <2>7. live'[l] = v /\ \A k \in Lives \ {l} : live'[k] = live[k]
    BY <2>2 DEF Inv, TypeInv
  <2>8. \A k \in Lives : live'[k].init = live[k].init BY <2>1, <2>7
  <2>9. BornInv' /\ ColdInv' BY <1>1, <2>8, BornSame, ColdSame
  <2>10. OrderInv'
    <3>1. ~Among(OpOf("retire", l), chain) BY <1>3, Retires DEF Inv
    <3>2. \A k \in Lives : plugin = "on" /\ Among(OpOf("retire", k), chain) =>
            live'[k].flush = live[k].flush
      BY <2>7, <3>1
    <3>3. /\ SameSteps(chain, chain') /\ OneFetch(chain')
          /\ SomeFetch(chain') => entry'.phase = "loading"
      BY <1>1, <2>4, OpsSame
    <3> QED BY <1>1, <2>8, <3>2, <3>3, OrderSame
  <2>11. CallInv'
    <3>1. \A q \in Readers : Call(readers[q], entry', disk'.log, states', live', sessions')
      BY <1>1, <1>3, <2>1, <2>2, LifeCalls
    <3>2. readers'[r] = talks /\ \A q \in Readers \ {r} : readers'[q] = readers[q]
      BY <1>11, Callers
    <3>3. Waits(talks, live', sessions')
      <4>1. Len(talks.source.log) <= live'[l].upto BY <1>4, <1>5, <2>1, <2>7
      <4>2. Begins(talks.source.log, sessions'[l].log) BY <1>1, <1>4, <1>5, <2>1 DEF Begins
      <4> QED BY <1>3, <1>4, <2>1, <2>7, <4>1, <4>2 DEF Waits
    <3>4. Call(talks, entry', disk'.log, states', live', sessions') /\ ~Holder(talks)
      BY <1>4, <1>6, <3>3 DEF Call, Holder
    <3>5. \A q \in Readers :
            /\ Call(readers'[q], entry', disk'.log, states', live', sessions')
            /\ Holder(readers'[q]) => Holder(readers[q])
      BY <3>1, <3>2, <3>4
    <3> QED BY <3>5 DEF CallInv
  <2> QED BY <2>6, <2>9, <2>10, <2>11
<1> QED BY <1>1, <1>9, <1>10, <1>11

\* An event is appended, and queued while the plugin listens.
LEMMA EmitContent ==
  ASSUME Inv, Inv', Content, NEW l \in Lives, NEW kind \in Kinds, Emit(l, kind)
  PROVE  Content'
<1> USE DEF Content
<1> DEFINE event == [kind |-> kind, by |-> l]
           log == Append(sessions[l].log, event)
           t == [sessions[l] EXCEPT !.log = log]
           n == Len(sessions[l].log)
           u == IF plugin = "on" THEN [live[l] EXCEPT !.w = Enqueue(live[l].w, Len(log))]
                ELSE live[l]
<1>1. /\ sessions[l].at = "open" /\ sessions[l] \in SessionRecs /\ live[l] \in LiveRecs
      /\ sessions' = [sessions EXCEPT ![l] = t]
      /\ live' = IF plugin = "on" THEN With(l, Enqueue(live[l].w, Len(log))) ELSE live
      /\ UNCHANGED <<disk, states, retirement, chain, job, entry, readers, plugin>>
  BY DEF Emit, Open, Inv, TypeInv
<1>2. live' = [live EXCEPT ![l] = u]
  <2>1. live = [live EXCEPT ![l] = live[l]] BY DEF Inv, TypeInv
  <2> QED BY <1>1, <2>1 DEF With
<1>3. event \in Events /\ event.by = l BY DEF Events
<1> HIDE DEF event
<1>4. /\ sessions[l].log \in Seq(Events) /\ n \in Nat BY Typed
<1>5. /\ log \in Seq(Events) /\ Len(log) = n + 1 /\ log[n + 1] = event
      /\ \A i \in 1 .. n : log[i] = sessions[l].log[i]
  BY <1>3, <1>4, AppendProperties
<1> HIDE DEF log
<1>6. t.log = log /\ t.born = sessions[l].born /\ t.at = "open" BY <1>1 DEF SessionRecs
<1> HIDE DEF t
<1>7. /\ u.init = live[l].init /\ u.flush = live[l].flush /\ u.upto = live[l].upto
      /\ u.w.active = live[l].w.active
      /\ u.w.writing = live[l].w.writing
      /\ plugin = "on" => Held(u.w) = Append(Held(live[l].w), n + 1)
      /\ plugin # "on" => u = live[l]
  <2>1. CASE plugin = "on"
    <3> DEFINE w == Enqueue(live[l].w, n + 1)
    <3>1. live[l].w \in Controllers(Nat) /\ WellFormed(live[l].w) /\ n + 1 \in Nat
      <4>1. WellFormed(live[l].w) BY DEF Inv, LivesInv, Queues
      <4>2. n + 1 \in Nat BY <1>4
      <4> QED BY <1>1, <4>1, <4>2, LiveParts
    <3>2. /\ w \in Controllers(Nat) /\ w.writing = live[l].w.writing
          /\ Held(w) = Append(Held(live[l].w), n + 1)
      BY <3>1, EnqueueHolds
    <3>3. w.active = live[l].w.active BY <3>1 DEF Enqueue, Controllers
    <3>4. u = [live[l] EXCEPT !.w = w] BY <1>5, <2>1
    <3> HIDE DEF w, u
    <3>5. u.w = w /\ u.init = live[l].init /\ u.flush = live[l].flush /\ u.upto = live[l].upto
      BY <1>1, <3>2, <3>4 DEF LiveRecs
    <3> QED BY <2>1, <3>2, <3>3, <3>5
  <2>2. CASE plugin # "on" BY <2>2
  <2> QED BY <2>1, <2>2
<1> HIDE DEF u
<1>8. /\ live'[l] = u /\ sessions'[l] = t
      /\ \A k \in Lives \ {l} : live'[k] = live[k] /\ sessions'[k] = sessions[k]
  BY <1>1, <1>2 DEF Inv, TypeInv
<1>9. \A k \in Lives :
        /\ Len(sessions[k].log) \in Nat /\ Len(sessions'[k].log) \in Nat
        /\ Begins(sessions[k].log, sessions'[k].log)
        /\ sessions'[k].at = sessions[k].at /\ sessions'[k].born = sessions[k].born
        /\ live'[k].init = live[k].init /\ live'[k].flush = live[k].flush
        /\ live'[k].upto = live[k].upto
        /\ live'[k].w.active = live[k].w.active
  <2>1. n + 1 \in Nat /\ n <= n + 1 BY <1>4
  <2>2. Begins(sessions[l].log, t.log) BY <1>5, <1>6, <2>1 DEF Begins
  <2>3. \A k \in Lives : Len(sessions[k].log) \in Nat BY Typed
  <2>4. \A k \in Lives : Begins(sessions[k].log, sessions[k].log) BY <2>3 DEF Begins
  <2> HIDE DEF n
  <2> QED BY <1>1, <1>5, <1>6, <1>7, <1>8, <2>1, <2>2, <2>3, <2>4
<1>10. FileInv'
  <2>1. ASSUME NEW k \in Lives, sessions'[k].log # <<>>
        PROVE  IF sessions[k].log = <<>> THEN k = l /\ sessions'[k].log[1].by = l
               ELSE sessions'[k].log[1] = sessions[k].log[1]
    <3>1. CASE k = l /\ n = 0
      <4>1. sessions[l].log = <<>> BY <1>4, <3>1, EmptySeq
      <4> QED BY <1>3, <1>5, <1>6, <1>8, <3>1, <4>1
    <3>2. CASE k = l /\ n # 0
      <4>1. sessions[l].log # <<>> /\ 1 \in 1 .. n BY <1>4, <3>2, EmptySeq
      <4> QED BY <1>5, <1>6, <1>8, <3>2, <4>1
    <3>3. CASE k # l BY <1>8, <2>1, <3>3
    <3> QED BY <3>1, <3>2, <3>3
  <2>2. ASSUME NEW k \in Lives, NEW i \in 1 .. Len(sessions'[k].log),
               sessions'[k].log[i].by = None
        PROVE  i <= Len(disk.log)
    <3>1. CASE k # l BY <1>8, <2>2, <3>1 DEF FileInv
    <3>2. CASE k = l
      <4>1. i \in 1 .. n + 1 /\ log[i].by = None BY <1>5, <1>6, <1>8, <2>2, <3>2
      <4>2. i # n + 1 BY <1>3, <1>5, <4>1, LifeNumbers
      <4>3. i \in 1 .. n BY <1>4, <4>1, <4>2
      <4> QED BY <1>5, <4>1, <4>3 DEF FileInv
    <3> QED BY <3>1, <3>2
  <2>3. ASSUME NEW k \in Lives, sessions'[k].at = "unborn"
        PROVE  /\ disk'.made => disk'.log[1].by # k
               /\ \A m \in Lives : sessions'[m].log # <<>> => sessions'[m].log[1].by # k
    <3>1. sessions[k].at = "unborn" /\ k # l BY <1>1, <1>9, <2>3
    <3> QED BY <1>1, <2>1, <3>1 DEF FileInv
  <2>4. ASSUME disk'.torn
        PROVE  /\ disk'.made /\ ~states'.tracked
               /\ \A k \in Lives : Present(k)' =>
                    /\ disk'.log[1].by # k
                    /\ sessions'[k].log # <<>> => sessions'[k].log[1].by = k
    <3>1. \A k \in Lives : Present(k)' => Present(k) BY <1>9 DEF Present
    <3> QED BY <1>1, <2>1, <2>4, <3>1 DEF FileInv
  <2> QED BY <1>1, <2>2, <2>3, <2>4 DEF FileInv
<1>11. OwnerInv'
  <2>1. states.owner # None =>
          sessions'[states.owner].at # "unborn" /\ Begins(disk.log, sessions'[states.owner].log)
    <3>1. states.owner \in Lives \cup {None} /\ Len(disk.log) \in Nat BY Typed
    <3> QED BY <1>9, <3>1, BeginsTrans DEF OwnerInv
  <2> QED BY <1>1, <2>1 DEF OwnerInv
<1>12. BatchInv'
  <2>1. CASE job = NoJob BY <1>1, <2>1 DEF BatchInv, NoJob
  <2>2. ASSUME job.does \in {"append", "appended"}
        PROVE  /\ Head1.by \in Lives
               /\ states.cursor + Len(job.batch) <= Len(sessions'[Head1.by].log)
               /\ \A i \in 1 .. Len(job.batch) :
                    job.batch[i] = sessions'[Head1.by].log[states.cursor + i]
    <3>1. chain # <<>> /\ Head1.op \in {"create", "suffix", "write"}
      BY <2>2 DEF Inv, JobInv
    <3>2. Head1.by \in Lives BY <3>1, HeadLife DEF LifeOps
    <3> DEFINE h == Head1.by
    <3>3. /\ states.cursor + Len(job.batch) <= Len(sessions[h].log)
          /\ \A i \in 1 .. Len(job.batch) : job.batch[i] = sessions[h].log[states.cursor + i]
      BY <2>2 DEF BatchInv
    <3>4. states.cursor \in Nat /\ Len(job.batch) \in Nat BY Typed
    <3>5. Begins(sessions[h].log, sessions'[h].log) /\ Len(sessions[h].log) \in Nat
          /\ Len(sessions'[h].log) \in Nat
      BY <1>9, <3>2
    <3> DEFINE c == states.cursor
               e == Len(job.batch)
               p == Len(sessions[h].log)
               q == Len(sessions'[h].log)
    <3>6. c \in Nat /\ e \in Nat /\ p \in Nat /\ q \in Nat /\ c + e <= p /\ p <= q
      BY <3>3, <3>4, <3>5 DEF Begins
    <3> HIDE DEF h, c, e, p, q
    <3>7. c + e <= q /\ \A i \in 1 .. e : c + i \in 1 .. p BY <3>6
    <3>8. \A i \in 1 .. e : job.batch[i] = sessions'[h].log[c + i]
      <4>1. \A j \in 1 .. p : sessions[h].log[j] = sessions'[h].log[j]
        BY <3>5 DEF Begins, p
      <4>2. \A i \in 1 .. e : job.batch[i] = sessions[h].log[c + i] BY <3>3 DEF c, e
      <4> QED BY <3>7, <4>1, <4>2
    <3> QED BY <3>2, <3>7, <3>8 DEF h, c, e, q
  <2>3. CASE job # NoJob
    <3>1. Head1' = Head1 BY <1>1 DEF Head1
    <3>2. UNCHANGED <<disk, states, job, readers>> BY <1>1
    <3> QED BY <1>9, <2>2, <3>1, <3>2 DEF BatchInv
  <2> QED BY <2>1, <2>3
<1>13. Safe(u, t, plugin = "on", disk.log)
  <2>1. Safe(live[l], sessions[l], plugin = "on", disk.log) BY DEF ContentInv
  <2>2. u.flush \in Flushing => u.upto <= n /\ u.upto \in Nat
    BY <1>7, <2>1, Typed DEF Safe
  <2>3. u.flush \in Flushing => u.upto <= Len(t.log) BY <1>4, <1>5, <1>6, <2>2
  <2>4. ASSUME NEW i \in Claims(u, t, plugin = "on")
        PROVE  \/ i \in Claims(live[l], sessions[l], plugin = "on") /\ i \in 1 .. n
               \/ plugin = "on" /\ i = n + 1
    <3>1. i \in 1 .. n + 1
          /\ (plugin = "on" \/ (u.flush \in Flushing /\ i <= u.upto))
      BY <1>5, <1>6, <2>4 DEF Claims
    <3>2. CASE i = n + 1 BY <1>4, <2>2, <3>1, <3>2
    <3>3. CASE i # n + 1
      <4>1. i \in 1 .. n BY <1>4, <3>1, <3>3
      <4> QED BY <1>7, <3>1, <4>1 DEF Claims
    <3> QED BY <3>2, <3>3
  <2>5. ASSUME NEW i, IsHeld(live[l].w, i) PROVE IsHeld(u.w, i)
    <3>1. CASE plugin = "on"
      <4>1. Held(live[l].w) \in Seq(Nat) /\ n + 1 \in Nat BY <1>1, <1>4, LiveParts
      <4>2. /\ Len(Held(u.w)) = Len(Held(live[l].w)) + 1 /\ Len(Held(live[l].w)) \in Nat
            /\ \A j \in 1 .. Len(Held(live[l].w)) : Held(u.w)[j] = Held(live[l].w)[j]
        BY <1>7, <3>1, <4>1, AppendProperties, LenProperties
      <4>3. PICK j \in 1 .. Len(Held(live[l].w)) : Held(live[l].w)[j] = i BY <2>5 DEF IsHeld
      <4>4. j \in 1 .. Len(Held(u.w)) BY <4>2, <4>3
      <4> QED BY <4>2, <4>3, <4>4 DEF IsHeld
    <3>2. CASE plugin # "on" BY <1>7, <2>5, <3>2
    <3> QED BY <3>1, <3>2
  <2>6. plugin = "on" => IsHeld(u.w, n + 1)
    <3> SUFFICES ASSUME plugin = "on" PROVE IsHeld(u.w, n + 1) OBVIOUS
    <3>1. Held(live[l].w) \in Seq(Nat) /\ n + 1 \in Nat BY <1>1, <1>4, LiveParts
    <3>2. /\ Len(Held(u.w)) = Len(Held(live[l].w)) + 1 /\ Len(Held(live[l].w)) \in Nat
          /\ Held(u.w)[Len(Held(live[l].w)) + 1] = n + 1
      BY <1>7, <3>1, AppendProperties, LenProperties
    <3>3. Len(Held(live[l].w)) + 1 \in 1 .. Len(Held(u.w)) BY <3>2
    <3> QED BY <3>2, <3>3 DEF IsHeld
  <2>7. ASSUME NEW i \in 1 .. n, Kept(sessions[l], i, disk.log) PROVE Kept(t, i, disk.log)
    BY <1>5, <1>6, <2>7 DEF Kept
  <2>8. u.init = "pending" => \A i \in Claims(u, t, plugin = "on") : i <= t.born \/ IsHeld(u.w, i)
    BY <1>6, <1>7, <2>1, <2>4, <2>5, <2>6 DEF Safe
  <2>9. u.init = "ok" =>
          \A i \in Claims(u, t, plugin = "on") : Kept(t, i, disk.log) \/ IsHeld(u.w, i)
    BY <1>7, <2>1, <2>4, <2>5, <2>6, <2>7 DEF Safe
  <2>10. /\ u.init = "none" => u = NoLive
         /\ plugin = "on" => u.init # "none"
    BY <1>1, <1>7, <2>1 DEF Safe
  <2> QED BY <1>6, <2>3, <2>8, <2>9, <2>10 DEF Safe
<1>14. ContentInv'
  <2>1. Owns(u, t, states.owner = l) BY <1>1, <1>7 DEF ContentInv, Owns
  <2> QED BY <1>1, <1>8, <1>13, <2>1, ContentStep
<1>15. BornInv' /\ ColdInv' BY <1>1, <1>9, BornSame, ColdSame
<1>16. OrderInv'
  <2>1. SameSteps(chain, chain') BY <1>1, SameSame DEF SameOps
  <2>2. OneFetch(chain') /\ (SomeFetch(chain') => entry'.phase = "loading")
    BY <1>1 DEF OrderInv
  <2> QED BY <1>1, <1>9, <2>1, <2>2, OrderSame
<1>17. EntryInv' BY <1>1 DEF EntryInv, Growing
<1>18. CallInv'
  <2>1. ASSUME NEW r \in Readers
        PROVE  Call(readers[r], entry', disk'.log, states', live', sessions')
    <3>1. Call(readers[r], entry, disk.log, states, live, sessions) BY HolderPhase
    <3>2. Len(readers[r].source.log) \in Nat BY Callers
    <3>3. ASSUME readers[r].at = "live" PROVE Waits(readers[r], live', sessions')
      <4>1. Waits(readers[r], live, sessions) BY <3>1, <3>3 DEF Call
      <4>2. Begins(readers[r].source.log, sessions'[readers[r].of].log)
        BY <1>9, <3>2, <4>1, BeginsTrans DEF Waits
      <4> QED BY <1>9, <4>1, <4>2 DEF Waits
    <3> QED BY <1>1, <3>1, <3>3 DEF Call
  <2> QED BY <1>1, <2>1 DEF CallInv
<1> QED BY <1>10, <1>11, <1>12, <1>14, <1>15, <1>16, <1>17, <1>18

-----------------------------------------------------------------------------
(* Storage work of a life.                                                 *)

\* What is stored of the owner's log.
LEMMA StoredKept ==
  ASSUME Inv, Content, NEW l \in Lives, states.owner = l, NEW n \in 1 .. Len(disk.log)
  PROVE  Kept(sessions[l], n, disk.log)
<1>1. Begins(disk.log, sessions[l].log)
  BY LifeNumbers DEF Content, OwnerInv
<1>2. Len(disk.log) \in Nat BY Typed
<1> QED BY <1>1, <1>2 DEF Begins, Kept

\* A batch that is stored is no longer held.
LEMMA LandedSafe ==
  ASSUME NEW v \in LiveRecs, NEW s, NEW on, NEW stored, WellFormed(v.w), v.init = "ok",
         Safe(v, s, on, stored),
         \A i \in 1 .. Len(v.w.active) : Kept(s, v.w.active[i], stored)
  PROVE  LET u == [v EXCEPT !.w = Landed(v.w)]
         IN  /\ u \in LiveRecs /\ u.init = v.init /\ u.flush = v.flush /\ u.upto = v.upto
             /\ Safe(u, s, on, stored)
<1> DEFINE w == Landed(v.w)
           u == [v EXCEPT !.w = w]
<1>1. w \in Controllers(Nat) /\ Held(w) = v.w.pending BY LiveParts, LandedHolds
<1> HIDE DEF w
<1>2. /\ u \in LiveRecs /\ u.w = w /\ u.init = v.init /\ u.flush = v.flush /\ u.upto = v.upto
  BY <1>1, SetW DEF LiveRecs
<1> HIDE DEF u
<1>3. ASSUME NEW n, IsHeld(v.w, n) PROVE Kept(s, n, stored) \/ IsHeld(u.w, n)
  <2> DEFINE a == v.w.active
             p == v.w.pending
  <2>1. /\ a \in Seq(Nat) /\ p \in Seq(Nat) /\ Len(a) \in Nat /\ Len(p) \in Nat
    BY LiveParts, LenProperties
  <2>2. Held(v.w) = a \o p BY DEF Held
  <2> HIDE DEF a, p
  <2>3. /\ Len(a \o p) = Len(a) + Len(p)
        /\ \A i \in 1 .. Len(a) + Len(p) :
             (a \o p)[i] = IF i <= Len(a) THEN a[i] ELSE p[i - Len(a)]
    BY <2>1, ConcatProperties
  <2>4. PICK i \in 1 .. Len(a) + Len(p) : (a \o p)[i] = n
    BY <1>3, <2>2, <2>3 DEF IsHeld
  <2>5. CASE i <= Len(a)
    <3>1. i \in 1 .. Len(a) /\ a[i] = n BY <2>1, <2>3, <2>4, <2>5
    <3> QED BY <3>1 DEF a
  <2>6. CASE ~(i <= Len(a))
    <3>1. i - Len(a) \in 1 .. Len(p) /\ p[i - Len(a)] = n BY <2>1, <2>3, <2>4, <2>6
    <3>2. Held(u.w) = p BY <1>1, <1>2 DEF p
    <3> QED BY <3>1, <3>2 DEF IsHeld
  <2> QED BY <2>5, <2>6
<1>4. Claims(u, s, on) = Claims(v, s, on) BY <1>2 DEF Claims
<1>5. Safe(u, s, on, stored) BY <1>2, <1>3, <1>4 DEF Safe
<1> QED BY <1>2, <1>5 DEF u, w

\* A write gives its events back.
LEMMA FailedSafe ==
  ASSUME NEW v \in LiveRecs, NEW s, NEW on, NEW stored, WellFormed(v.w), v.init # "none",
         Safe(v, s, on, stored)
  PROVE  LET u == [v EXCEPT !.w = Failed(v.w)]
         IN  /\ u \in LiveRecs /\ u.init = v.init /\ u.flush = v.flush /\ u.upto = v.upto
             /\ Safe(u, s, on, stored)
<1> DEFINE w == Failed(v.w)
           u == [v EXCEPT !.w = w]
<1>1. w \in Controllers(Nat) /\ Held(w) = Held(v.w) BY LiveParts, FailedHolds
<1> HIDE DEF w
<1>2. /\ u \in LiveRecs /\ u.w = w /\ u.init = v.init /\ u.flush = v.flush /\ u.upto = v.upto
  BY <1>1, SetW DEF LiveRecs
<1> HIDE DEF u
<1>3. Claims(u, s, on) = Claims(v, s, on) BY <1>2 DEF Claims
<1>4. \A n : IsHeld(v.w, n) => IsHeld(u.w, n) BY <1>1, <1>2 DEF IsHeld
<1>5. Safe(u, s, on, stored) BY <1>2, <1>3, <1>4 DEF Safe
<1> QED BY <1>2, <1>5 DEF u, w

\* A write is over before anything is stored.
LEMMA WriteOver ==
  ASSUME Inv, Inv', Content, chain # <<>>, Head1.op = "write",
         NEW v \in LiveRecs, live' = [live EXCEPT ![Head1.by] = v],
         v.init = "ok", v.flush = live[Head1.by].flush, v.upto = live[Head1.by].upto,
         Safe(v, sessions[Head1.by], plugin = "on", disk.log),
         chain' = Pop \/ chain' = Enlist(Head1.by, live', Pop), job' = NoJob,
         job.does = "appended" => ~states.made,
         UNCHANGED <<disk, sessions, states, retirement, entry, readers, plugin>>
  PROVE  Content'
<1> USE DEF Content
<1> DEFINE l == Head1.by
<1>1. l \in Lives /\ Stands(Head1, live, sessions, readers) BY HeadLife DEF LifeOps
<1>2. live[l].init = "ok" /\ HasWork(live[l].w) BY <1>1 DEF Stands, HasWork
<1> HIDE DEF l
<1>3. live' = [live EXCEPT ![l] = v] BY DEF l
<1>4. /\ live'[l] = v /\ \A k \in Lives \ {l} : live'[k] = live[k]
  BY <1>1, <1>3 DEF Inv, TypeInv
<1>5. \A k \in Lives : live'[k].init = live[k].init /\ live'[k].flush = live[k].flush
                       /\ live'[k].upto = live[k].upto
  BY <1>2, <1>4 DEF l
<1>6. SameOps(chain, chain')
  <2>1. SameOps(chain, Pop) /\ Pop \in Seq(OpRecs)
    BY Typed, PopSame, Popped DEF Pop, Head1, LifeSteps, Starters
  <2>2. chain' = Enlist(l, live', Pop) => SameOps(Pop, chain')
    BY <1>1, <2>1, EnlistSame DEF l
  <2> QED BY <2>1, <2>2, SameTrans DEF l
<1>7. FileInv' BY <1>5, FileSame DEF Present
<1>8. OwnerInv' BY DEF OwnerInv, NoJob
<1>9. BatchInv' BY DEF BatchInv, NoJob
<1>10. ContentInv'
  <2>1. Owns(live[l], sessions[l], states.owner = l) BY <1>1 DEF ContentInv, l
  <2>2. Owns(v, sessions[l], states.owner = l) BY <1>2, <2>1 DEF Owns
  <2>3. Safe(v, sessions[l], plugin = "on", disk.log) BY DEF l
  <2> QED BY <1>1, <1>4, <2>2, <2>3, ContentStep DEF l
<1>11. BornInv' /\ ColdInv' BY <1>5, BornSame, ColdSame
<1>12. OrderInv'
  <2>1. /\ SameSteps(chain, chain') /\ OneFetch(chain')
        /\ SomeFetch(chain') => entry'.phase = "loading"
    BY <1>6, OpsSame
  <2> QED BY <1>5, <2>1, OrderSame
<1>13. EntryInv'
  <2>1. Growing' <= Growing /\ Growing \in Nat /\ Growing' \in Nat
    BY Typed DEF Growing, NoJob
  <2>2. \A s \in Sources : Len(s.seen.log) \in Nat
    <3>1. \A s \in Sources : s.seen.log \in Seq(Events) BY DEF Sources, Disks, Logs
    <3> QED BY <3>1, LenProperties
  <2>3. entry.source \in Sources BY DEF Inv, TypeInv, Entries
  <2>4. Len(disk.log) \in Nat BY Typed
  <2> HIDE DEF Growing
  <2> QED BY <2>1, <2>2, <2>3, <2>4 DEF EntryInv
<1>14. CallInv'
  <2>1. live[l].upto <= v.upto BY <1>1, Typed DEF l
  <2>2. \A r \in Readers : Call(readers[r], entry', disk'.log, states', live', sessions')
    BY <1>1, <1>3, <2>1, LifeCalls DEF l
  <2> QED BY <2>2 DEF CallInv
<1> QED BY <1>7, <1>8, <1>9, <1>10, <1>11, <1>12, <1>13, <1>14

\* The events of a batch that is not queued again are stored, or in the batch.
LEMMA UnstoredRest ==
  ASSUME NEW ns \in Seq(Nat), NEW cursor \in Nat,
         \A i \in DOMAIN Unstored(ns, cursor) : Unstored(ns, cursor)[i] = cursor + i
  PROVE  \A i \in 1 .. Len(ns) : ns[i] <= cursor + Len(Unstored(ns, cursor))
<1> DEFINE n == Len(ns)
           S == {i \in DOMAIN ns : ns[i] <= cursor}
           k == Cardinality(S)
           u == Unstored(ns, cursor)
           T == 1 .. k
<1>1. n \in Nat /\ DOMAIN ns = 1 .. n BY LenProperties
<1>2. IsFiniteSet(1 .. n) /\ Cardinality(1 .. n) = n
  <2> HIDE DEF n
  <2>1. 1 \in Int /\ n \in Int /\ (1 > n => n = 0) /\ n - 1 + 1 = n BY <1>1
  <2> QED BY <2>1, FS_Interval
<1>3. S \in SUBSET (1 .. n) BY <1>1
<1>4. k \in Nat /\ k <= n /\ IsFiniteSet(S)
  <2> HIDE DEF n, S
  <2>1. IsFiniteSet(S) /\ Cardinality(S) <= Cardinality(1 .. n) BY <1>2, <1>3, FS_Subset
  <2>2. Cardinality(S) \in Nat BY <2>1, FS_CardinalityType
  <2> QED BY <1>2, <2>1, <2>2
<1>5. /\ u \in Seq(Nat) /\ Len(u) \in Nat
      /\ \A i \in 1 .. Len(u) : n - Len(u) + i \in 1 .. n /\ u[i] = ns[n - Len(u) + i]
  BY UnstoredFields
<1>6. Len(u) = n - k
  <2>1. \A i \in 1 .. n : ns[i] \in Nat BY <1>1, ElementOfSeq
  <2>2. u = SubSeq(ns, k + 1, n) BY DEF Unstored
  <2> HIDE DEF k, n, u
  <2>3. k + 1 \in Int /\ n \in Int /\ \A i \in k + 1 .. n : ns[i] \in Nat
    BY <1>1, <1>4, <2>1
  <2>4. Len(SubSeq(ns, k + 1, n)) = IF k + 1 <= n THEN n - (k + 1) + 1 ELSE 0
    BY <2>3, SubSeqProperties
  <2> QED BY <1>1, <1>4, <2>2, <2>4
<1>7. \A i \in 1 .. Len(u) : u[i] = cursor + i BY <1>5, LenProperties
<1> HIDE DEF u
<1>8. \A i \in 1 .. n : i > k => ns[i] = cursor + (i - k) /\ i - k \in 1 .. Len(u)
  <2> HIDE DEF n, k
  <2>1. ASSUME NEW i \in 1 .. n, i > k
        PROVE  i - k \in 1 .. Len(u) /\ n - Len(u) + (i - k) = i
    BY <1>1, <1>4, <1>6, <2>1
  <2> QED BY <1>5, <1>7, <2>1
<1>9. S \subseteq T
  <2>1. ASSUME NEW i \in S PROVE i \in 1 .. n /\ ~(i > k)
    <3>1. i \in 1 .. n /\ ns[i] <= cursor BY <1>1
    <3> HIDE DEF n, S, k
    <3> QED BY <1>8, <3>1
  <2> HIDE DEF S, k
  <2> QED BY <1>1, <1>4, <2>1
<1>10. IsFiniteSet(T) /\ Cardinality(T) = k
  <2>1. k \in Nat BY <1>4
  <2> HIDE DEF k
  <2>2. 1 \in Int /\ k \in Int /\ (1 > k => k = 0) /\ k - 1 + 1 = k BY <2>1
  <2> QED BY <2>2, FS_Interval DEF T
<1>11. S = T
  <2> HIDE DEF T
  <2>1. S \in SUBSET T BY <1>9
  <2>2. Cardinality(T) = Cardinality(S) BY <1>10
  <2> HIDE DEF S, k
  <2> QED BY <1>10, <2>1, <2>2, FS_Subset
<1>12. ASSUME NEW i \in 1 .. n PROVE ns[i] <= cursor + Len(u)
  <2>1. ns[i] \in Nat BY <1>1, ElementOfSeq
  <2>2. i > k \/ i \in S
    <3>1. i \in T \/ i > k
      <4> HIDE DEF k
      <4> QED BY <1>1, <1>4 DEF T
    <3> QED BY <1>11, <3>1
  <2>3. i \in S => ns[i] <= cursor OBVIOUS
  <2> HIDE DEF k, S, n
  <2> QED BY <1>5, <1>8, <2>1, <2>2, <2>3
<1> QED BY <1>12 DEF u

LEMMA StartLiveBatchContent ==
  ASSUME Inv, Inv', Content, StartLiveBatch
  PROVE  Content'
<1> USE DEF Content
<1> DEFINE l == Head1.by
           a == live[l].w.active
           ns == Unstored(a, states.cursor)
<1>1. chain # <<>> /\ job = NoJob /\ Head1.op = "write"
      /\ UNCHANGED <<disk, sessions, states, retirement, entry, readers, plugin>>
  BY DEF StartLiveBatch, Starts, Running
<1>2. /\ l \in Lives /\ live[l] \in LiveRecs /\ Stands(Head1, live, sessions, readers)
      /\ WellFormed(live[l].w) /\ Queues(live[l], sessions[l], plugin = "on")
      /\ Len(sessions[l].log) \in Nat
  BY <1>1, HeadLife, Typed DEF LifeOps, Queues
<1>3. live[l].init = "ok" /\ live[l].w.writing # "no" /\ HasWork(live[l].w)
  BY <1>1, <1>2 DEF Stands, HasWork
<1>4. states.owner = l BY <1>2, <1>3 DEF ContentInv, Owns
<1>5. Safe(live[l], sessions[l], plugin = "on", disk.log) BY <1>2 DEF ContentInv
<1>6. /\ a \in Seq(Nat) /\ Len(a) \in Nat /\ live[l].w.pending \in Seq(Nat)
      /\ states.cursor \in Nat
  BY <1>2, LiveParts, LenProperties, Typed
<1>7. \A i \in 1 .. Len(a) : a[i] \in 1 .. Len(sessions[l].log)
  <2> DEFINE p == live[l].w.pending
  <2>1. Len(p) \in Nat /\ p \in Seq(Nat) BY <1>6, LenProperties
  <2>2. Held(live[l].w) = a \o p BY DEF Held
  <2>3. \A i \in 1 .. Len(Held(live[l].w)) : Held(live[l].w)[i] \in 1 .. Len(sessions[l].log)
    BY <1>2 DEF Queues
  <2> HIDE DEF a, p
  <2>4. /\ Len(a \o p) = Len(a) + Len(p)
        /\ \A i \in 1 .. Len(a) : (a \o p)[i] = a[i]
        /\ \A i \in 1 .. Len(a) : i \in 1 .. Len(a \o p)
    BY <1>6, <2>1, ConcatProperties
  <2> QED BY <2>2, <2>3, <2>4
<1>8. /\ ns \in Seq(Nat) /\ Len(ns) \in Nat
      /\ \A i \in 1 .. Len(ns) : \E j \in 1 .. Len(a) : ns[i] = a[j]
      /\ ns = <<>> => \A i \in 1 .. Len(a) : a[i] <= states.cursor
  <2> HIDE DEF a
  <2>1. /\ ns \in Seq(Nat) /\ Len(ns) \in Nat
        /\ \A i \in 1 .. Len(ns) : /\ Len(a) - Len(ns) + i \in 1 .. Len(a)
                                   /\ ns[i] = a[Len(a) - Len(ns) + i]
        /\ ns = <<>> => \A i \in 1 .. Len(a) : a[i] <= states.cursor
    BY <1>6, UnstoredFields
  <2> HIDE DEF ns
  <2> QED BY <2>1
<1>9. states.cursor <= Len(disk.log) /\ Len(disk.log) \in Nat
  BY Typed DEF Inv, CursorInv
<1> HIDE DEF ns, l, a
<1>10. CASE ns = <<>> /\ live' = With(l, Landed(live[l].w))
            /\ chain' = Enlist(l, live', Pop) /\ UNCHANGED job
  <2> DEFINE v == [live[l] EXCEPT !.w = Landed(live[l].w)]
  <2>1. \A i \in 1 .. Len(a) : Kept(sessions[l], a[i], disk.log)
    <3>1. \A i \in 1 .. Len(a) : a[i] \in 1 .. Len(disk.log)
      BY <1>2, <1>6, <1>7, <1>8, <1>9, <1>10
    <3> QED BY <1>2, <1>4, <3>1, StoredKept
  <2>2. /\ v \in LiveRecs /\ v.init = live[l].init /\ v.flush = live[l].flush
        /\ v.upto = live[l].upto /\ Safe(v, sessions[l], plugin = "on", disk.log)
    BY <1>2, <1>3, <1>5, <2>1, LandedSafe DEF a
  <2>3. live' = [live EXCEPT ![l] = v] BY <1>10 DEF With
  <2> HIDE DEF v
  <2>4. job.does # "appended" BY <1>1 DEF NoJob
  <2> QED BY <1>1, <1>3, <1>10, <2>2, <2>3, <2>4, WriteOver DEF l
<1>11. CASE ns # <<>> /\ Contiguous(ns) /\ job' = AppendJob(l, ns) /\ UNCHANGED <<chain, live>>
  <2>1. DOMAIN ns = 1 .. Len(ns) /\ Len(ns) # 0 BY <1>8, <1>11, LenProperties, EmptySeq
  <2>2. \A i \in 1 .. Len(ns) :
          ns[i] = states.cursor + i /\ ns[i] \in 1 .. Len(sessions[l].log)
    BY <1>7, <1>8, <1>11, <2>1 DEF Contiguous
  <2> DEFINE batch == [i \in DOMAIN ns |-> sessions[l].log[ns[i]]]
  <2>3. job' = [does |-> "append", cut |-> FALSE, batch |-> batch]
    BY <1>11 DEF AppendJob
  <2>4. /\ DOMAIN batch = 1 .. Len(ns)
        /\ \A i \in 1 .. Len(ns) : batch[i] = sessions[l].log[states.cursor + i]
    BY <2>1, <2>2
  <2> HIDE DEF batch
  <2>5. job'.does = "append" /\ job'.batch = batch BY <2>3
  <2>6. batch \in Seq(Events) BY <2>5, Typed DEF Inv, TypeInv, Jobs, Logs
  <2>7. Len(batch) = Len(ns) BY <1>8, <2>4, <2>6, LenProperties
  <2>8. batch # <<>> BY <2>1, <2>6, <2>7, EmptySeq
  <2>9. states.cursor + Len(batch) <= Len(sessions[l].log)
    <3>1. Len(ns) \in 1 .. Len(ns) BY <1>8, <2>1
    <3> QED BY <2>2, <2>7, <3>1
  <2>10. \A i \in DOMAIN a : a[i] <= states.cursor + Len(batch)
    <3>1. DOMAIN a = 1 .. Len(a) BY <1>6, LenProperties
    <3>2. \A i \in DOMAIN ns : ns[i] = states.cursor + i BY <1>11 DEF Contiguous
    <3>3. \A i \in 1 .. Len(a) : a[i] <= states.cursor + Len(ns)
      BY <1>6, <3>2, UnstoredRest DEF ns
    <3> QED BY <2>7, <3>1, <3>3
  <2>11. BatchInv'
    <3>1. Head1' = Head1 /\ Head1.by = l BY <1>11 DEF Head1, l
    <3>2. live' = live /\ sessions' = sessions /\ states' = states BY <1>1, <1>11
    <3> QED BY <1>4, <2>4, <2>5, <2>7, <2>8, <2>9, <2>10, <3>1, <3>2 DEF BatchInv, a
  <2>12. FileInv' BY <1>1, <1>11, FileSame DEF Present
  <2>13. OwnerInv' BY <1>1, <2>5 DEF OwnerInv, NoJob
  <2>14. ContentInv' BY <1>1, <1>11 DEF ContentInv
  <2>15. BornInv' /\ ColdInv' BY <1>1, <1>11, BornSame, ColdSame
  <2>16. OrderInv' BY <1>1, <1>11 DEF OrderInv
  <2>17. EntryInv' BY <1>1, <2>5 DEF EntryInv, Growing, NoJob
  <2>18. CallInv' BY <1>1, <1>11 DEF CallInv
  <2> QED BY <2>11, <2>12, <2>13, <2>14, <2>15, <2>16, <2>17, <2>18
<1>12. CASE chain' = Pop /\ live' = With(l, Failed(live[l].w)) /\ UNCHANGED job
  <2> DEFINE v == [live[l] EXCEPT !.w = Failed(live[l].w)]
  <2>1. /\ v \in LiveRecs /\ v.init = live[l].init /\ v.flush = live[l].flush
        /\ v.upto = live[l].upto /\ Safe(v, sessions[l], plugin = "on", disk.log)
    BY <1>2, <1>3, <1>5, FailedSafe
  <2>2. live' = [live EXCEPT ![l] = v] BY <1>12 DEF With
  <2> HIDE DEF v
  <2>3. job.does # "appended" BY <1>1 DEF NoJob
  <2> QED BY <1>1, <1>3, <1>12, <2>1, <2>2, <2>3, WriteOver DEF l
<1> QED BY <1>10, <1>11, <1>12 DEF StartLiveBatch, ns, a, l

-----------------------------------------------------------------------------
(* Initializations.                                                        *)

\* Nobody holds a reservation while a life is initialized or owns the id.
LEMMA NoneHeld ==
  ASSUME Inv, Content, NEW l \in Lives, live[l].init = "pending" \/ states.owner = l,
         NEW r \in Readers
  PROVE  readers[r].at # "held"
<1> SUFFICES ASSUME readers[r].at = "held" PROVE FALSE OBVIOUS
<1>1. Call(readers[r], entry, disk.log, states, live, sessions) BY HolderPhase
<1>2. entry.phase = "reserved" /\ states.owner = None BY <1>1 DEF Call
<1>3. plugin = "on" BY DEF Inv, PluginInv
<1>4. live[l].init # "pending" BY <1>2, <1>3 DEF Content, ColdInv
<1> QED BY <1>2, <1>4, LifeNumbers

\* Callers that wait for nothing that moves.
LEMMA CallsMove ==
  ASSUME Inv, Inv', Content, UNCHANGED <<entry, readers>>, Begins(disk.log, disk'.log),
         UNCHANGED <<disk, states>> \/ \A r \in Readers : readers[r].at # "held",
         \A l \in Lives : sessions'[l].log = sessions[l].log,
         \A l \in Lives : plugin = "on" /\ live[l].flush \in Flushing =>
           live'[l].flush = live[l].flush /\ live'[l].upto = live[l].upto
  PROVE  CallInv'
<1>1. ASSUME NEW r \in Readers
      PROVE  Call(readers[r], entry, disk'.log, states', live', sessions')
  <2>1. Call(readers[r], entry, disk.log, states, live, sessions) BY HolderPhase
  <2>2. readers[r].at = "live" => Waits(readers[r], live', sessions')
    <3> SUFFICES ASSUME readers[r].at = "live" PROVE Waits(readers[r], live', sessions')
      OBVIOUS
    <3>1. plugin = "on" BY DEF Inv, PluginInv
    <3> QED BY <2>1, <3>1 DEF Call, Waits, Begins
  <2>3. /\ Len(disk.log) \in Nat /\ Len(disk'.log) \in Nat
        /\ Len(readers[r].source.log) \in Nat /\ Len(readers[r].source.seen.log) \in Nat
    <3>1. disk'.log \in Seq(Events) BY DEF Inv, TypeInv, Disks, Logs
    <3> QED BY <3>1, Typed, Callers, LenProperties
  <2>4. readers[r].at = "held" => states'.tracked /\ states'.owner = None /\ disk'.log = disk.log
    BY <2>1 DEF Call
  <2> QED BY <2>1, <2>2, <2>3, <2>4, CallMoves
<1> QED BY <1>1 DEF Content, CallInv

\* The life whose initialization is over.
LEMMA Starter ==
  ASSUME Inv, Content, chain # <<>>, Head1.op \in Starters,
         NEW init \in {"ok", "broken", "refused"}, live' = Initialized(Head1.by, init)
  PROVE  LET l == Head1.by
         IN  /\ l \in Lives /\ live[l].init = "pending" /\ sessions[l].at # "unborn"
             /\ live'[l].init = init /\ live'[l].w = live[l].w
             /\ live'[l].flush = live[l].flush /\ live'[l].upto = live[l].upto
             /\ \A k \in Lives \ {l} : live'[k] = live[k]
             /\ \A op, k : Among(OpOf(op, k), chain) /\ k # l => Among(OpOf(op, k), Pop)
             /\ \A op, k : Among(OpOf(op, k), Pop) => Among(OpOf(op, k), chain)
             /\ \A r \in Readers : readers[r].at # "held"
<1> DEFINE l == Head1.by
           v == [live[l] EXCEPT !.init = init]
<1>1. /\ l \in Lives /\ live[l] \in LiveRecs /\ Stands(Head1, live, sessions, readers)
      /\ sessions[l].at # "unborn"
  BY HeadLife DEF LifeOps, Starters
<1>2. live[l].init = "pending" BY <1>1 DEF Stands, Starters
<1>3. v.init = init /\ v.w = live[l].w /\ v.flush = live[l].flush /\ v.upto = live[l].upto
  BY <1>1 DEF LiveRecs
<1>4. live' = [live EXCEPT ![l] = v] BY DEF Initialized
<1>5. live'[l] = v /\ \A k \in Lives \ {l} : live'[k] = live[k]
  BY <1>1, <1>4 DEF Inv, TypeInv
<1>6. ASSUME NEW op, NEW k, Among(OpOf(op, k), chain), k # l PROVE Among(OpOf(op, k), Pop)
  <2>1. OpOf(op, k).by = k BY DEF OpOf
  <2>2. OpOf(op, k) # chain[1] BY <1>6, <2>1 DEF Head1
  <2> QED BY <1>6, <2>2, Typed, Popped DEF Pop
<1>7. \A op, k : Among(OpOf(op, k), Pop) => Among(OpOf(op, k), chain)
  BY Typed, Popped DEF Pop
<1>8. \A r \in Readers : readers[r].at # "held" BY <1>1, <1>2, NoneHeld
<1> QED BY <1>1, <1>2, <1>3, <1>5, <1>6, <1>7, <1>8

\* ... was the first of those that wait for theirs.
LEMMA Begun ==
  ASSUME Inv, Inv', Content, chain # <<>>, Head1.op \in Starters,
         NEW init \in {"ok", "broken", "refused"}, live' = Initialized(Head1.by, init),
         SameOps(Pop, chain'), UNCHANGED <<sessions, retirement, plugin>>,
         entry'.phase = "none" \/ entry.phase # "none",
         SomeFetch(chain') => entry'.phase = "loading",
         \A k \in Lives : Among(OpOf("suffix", k), Pop) =>
           states'.owner = k /\ states'.made /\ states'.cursor < sessions[k].born
  PROVE  BornInv' /\ OrderInv' /\ ColdInv'
<1> USE DEF Content
<1> DEFINE l == Head1.by
<1>1. /\ l \in Lives /\ live[l].init = "pending" /\ sessions[l].at # "unborn"
      /\ live'[l].init = init /\ live'[l].flush = live[l].flush
      /\ \A k \in Lives \ {l} : live'[k] = live[k]
      /\ \A op, k : Among(OpOf(op, k), chain) /\ k # l => Among(OpOf(op, k), Pop)
      /\ \A op, k : Among(OpOf(op, k), Pop) => Among(OpOf(op, k), chain)
  BY Starter
<1>2. \A k \in Lives : live'[k].init = "pending" => k # l /\ live[k].init = "pending"
  BY <1>1
<1>3. \A k \in Lives : live'[k].flush = live[k].flush BY <1>1
<1>4. ASSUME NEW k \in Lives, live'[k].init = "pending"
      PROVE  l < k /\ \E op \in Starters : Among(OpOf(op, k), Pop)
  <2>1. PICK op \in Starters : Among(OpOf(op, k), chain) BY <1>2, <1>4 DEF OrderInv
  <2>2. Among(OpOf(op, k), Pop) BY <1>1, <1>2, <1>4, <2>1
  <2>3. PICK i \in DOMAIN Pop : Pop[i] = OpOf(op, k) BY <2>2 DEF Among
  <2>4. Pop[i].op \in Starters /\ Pop[i].by = k BY <2>3 DEF OpOf
  <2>5. l < k BY <2>4, Typed, PopFewer DEF OrderInv, Pop, Head1
  <2> QED BY <2>2, <2>5
<1>5. BornInv'
  <2>1. ASSUME NEW k \in Lives, NEW m \in Lives, k < m
        PROVE  /\ sessions'[k].at \in {"unborn", "open"} => sessions'[m].at = "unborn"
               /\ live'[k].init = "pending" => live'[m].init \in {"none", "pending"}
    <3>1. sessions'[k].at \in {"unborn", "open"} => sessions'[m].at = "unborn"
      BY <2>1 DEF BornInv
    <3>2. ASSUME live'[k].init = "pending" PROVE live'[m].init \in {"none", "pending"}
      <4>1. l < k BY <1>4, <3>2
      <4>2. l # m BY <1>1, <2>1, <4>1, LifeNumbers
      <4> QED BY <1>1, <1>2, <2>1, <3>2, <4>2 DEF BornInv
    <3> QED BY <3>1, <3>2
  <2>2. ASSUME plugin = "on", NEW m \in Lives, live'[m].init = "pending"
        PROVE  \/ sessions[m].at = "open" \/ retirement = m
               \/ \E k \in Lives : m < k /\ live'[k].init = "pending"
    <3>1. live[m].init = "pending" BY <1>2, <2>2
    <3>2. CASE sessions[m].at = "open" \/ retirement = m BY <3>2
    <3>3. CASE \E k \in Lives : m < k /\ live[k].init = "pending"
      <4>1. PICK k \in Lives : m < k /\ live[k].init = "pending" BY <3>3
      <4>2. l < m BY <1>4, <2>2
      <4>3. k # l BY <1>1, <4>1, <4>2, LifeNumbers
      <4> QED BY <1>1, <4>1, <4>3
    <3> QED BY <2>2, <3>1, <3>2, <3>3 DEF BornInv
  <2> QED BY <2>1, <2>2 DEF BornInv
<1>6. OrderInv'
  <2>1. Ordered(Pop) /\ OneFetch(Pop) BY Typed, PopFewer DEF OrderInv, Pop
  <2>2. /\ Ordered(chain') /\ OneFetch(chain')
        /\ \A op \in LifeSteps, k \in Lives :
             Among(OpOf(op, k), chain') <=> Among(OpOf(op, k), Pop)
    BY <2>1 DEF SameOps, SameSteps
  <2>3. ASSUME NEW k \in Lives
        PROVE  /\ live'[k].init = "pending" => \E op \in Starters : Among(OpOf(op, k), chain')
               /\ plugin = "on" /\ Among(OpOf("retire", k), chain') => live'[k].flush = "no"
               /\ Among(OpOf("suffix", k), chain') =>
                    states'.owner = k /\ states'.made /\ states'.cursor < sessions[k].born
    <3>1. \A op \in Starters : op \in LifeSteps BY DEF LifeSteps
    <3>2. live'[k].init = "pending" => \E op \in Starters : Among(OpOf(op, k), chain')
      BY <1>4, <2>2, <3>1
    <3>3. "retire" \in LifeSteps /\ "suffix" \in LifeSteps BY DEF LifeSteps, Starters
    <3>4. Among(OpOf("retire", k), chain') => Among(OpOf("retire", k), chain)
      BY <1>1, <2>2, <3>3
    <3> QED BY <1>3, <2>2, <3>2, <3>3, <3>4 DEF OrderInv
  <2> QED BY <2>2, <2>3 DEF OrderInv
<1>7. ColdInv' BY <1>2 DEF ColdInv
<1> QED BY <1>5, <1>6, <1>7

\* What the file and the owner's log are, when only who owns the id changes.
LEMMA FileFree ==
  ASSUME FileInv, UNCHANGED <<disk, sessions>>, disk.torn => ~states'.tracked,
         \A l \in Lives : live'[l].init # "none" => live[l].init # "none"
  PROVE  FileInv'
BY DEF FileInv, Present

\* A life that fails to be initialized answers for nothing.
LEMMA BrokenSafe ==
  ASSUME NEW v, NEW u, NEW s, NEW on, NEW stored, Safe(v, s, on, stored),
         u.init \in {"broken", "refused"}, u.flush = v.flush, u.upto = v.upto
  PROVE  Safe(u, s, on, stored)
BY DEF Safe

\* What has no work and gets none.
Idle(l) ==
  ~(live[l].init \in {"ok", "broken"} /\ (HasWork(live[l].w) \/ sessions[l].at = "open"))

\* Storage work that is over is no longer in the entry's way.
LEMMA EntryShrinks ==
  ASSUME Inv, Inv', EntryInv, UNCHANGED <<disk, entry>>, job' = NoJob
  PROVE  EntryInv'
<1>1. Growing' = 0 /\ Growing \in Nat BY Typed DEF Growing, NoJob
<1>2. entry.source \in Sources BY DEF Inv, TypeInv, Entries
<1>3. \A s \in Sources : s.seen.log \in Seq(Events) BY DEF Sources, Disks, Logs
<1>4. Len(entry.source.seen.log) \in Nat /\ Len(disk.log) \in Nat
  BY <1>2, <1>3, Typed, LenProperties
<1> HIDE DEF Growing
<1> QED BY <1>1, <1>4 DEF EntryInv

\* An initialization that fails.
LEMMA StartFails ==
  ASSUME Inv, Inv', Content, chain # <<>>, Head1.op \in Starters,
         NEW init \in {"broken", "refused"}, live' = Initialized(Head1.by, init),
         chain' = Pop, job' = NoJob,
         \/ /\ UNCHANGED states /\ (job.does = "appended" => ~states.made)
            /\ init = "broken" => states.owner = Head1.by
         \/ /\ states' = Untracked /\ init = "refused"
            /\ \A k \in Lives : states.owner = k => Idle(k)
            /\ \A k \in Lives : ~Among(OpOf("suffix", k), Pop),
         UNCHANGED <<disk, sessions, retirement, entry, readers, plugin>>
  PROVE  Content'
<1> USE DEF Content
<1> DEFINE l == Head1.by
<1>1. /\ l \in Lives /\ live[l].init = "pending" /\ sessions[l].at # "unborn"
      /\ live'[l].init = init /\ live'[l].w = live[l].w
      /\ live'[l].flush = live[l].flush /\ live'[l].upto = live[l].upto
      /\ \A k \in Lives \ {l} : live'[k] = live[k]
      /\ \A op, k : Among(OpOf(op, k), Pop) => Among(OpOf(op, k), chain)
      /\ \A r \in Readers : readers[r].at # "held"
  BY Starter
<1>2. Untracked.owner = None /\ Untracked.cursor = 0 /\ ~Untracked.tracked /\ ~Untracked.made
  BY DEF Untracked
<1>3. FileInv'
  <2>1. disk.torn => ~states'.tracked BY <1>2 DEF FileInv
  <2>2. \A k \in Lives : live'[k].init # "none" => live[k].init # "none" BY <1>1
  <2> QED BY <2>1, <2>2, FileFree
<1>4. OwnerInv'
  <2>1. CASE UNCHANGED states /\ (job.does = "appended" => ~states.made)
    BY <2>1, Typed DEF OwnerInv, NoJob
  <2>2. CASE states' = Untracked BY <1>2, <2>2 DEF OwnerInv
  <2> QED BY <2>1, <2>2
<1>5. BatchInv' BY DEF BatchInv, NoJob
<1>6. ContentInv'
  <2>1. ASSUME NEW k \in Lives
        PROVE  /\ Safe(live'[k], sessions[k], plugin = "on", disk.log)
               /\ Owns(live'[k], sessions[k], states'.owner = k)
    <3>1. /\ Safe(live[k], sessions[k], plugin = "on", disk.log)
          /\ Owns(live[k], sessions[k], states.owner = k)
      BY DEF ContentInv
    <3>2. CASE k = l
      <4>1. Safe(live'[k], sessions[k], plugin = "on", disk.log)
        BY <1>1, <3>1, <3>2, BrokenSafe
      <4>2. Owns(live'[k], sessions[k], states'.owner = k) BY <1>1, <3>2 DEF Owns
      <4> QED BY <4>1, <4>2
    <3>3. CASE k # l
      <4>1. live'[k] = live[k] BY <1>1, <3>3
      <4>2. Owns(live[k], sessions[k], states'.owner = k) BY <3>1 DEF Owns, Idle
      <4> QED BY <3>1, <4>1, <4>2
    <3> QED BY <3>2, <3>3
  <2> QED BY <2>1 DEF ContentInv
<1>7. BornInv' /\ OrderInv' /\ ColdInv'
  <2>1. SameOps(Pop, chain') BY SameSame
  <2>2. SomeFetch(chain') => entry'.phase = "loading"
    BY Typed, PopFewer DEF OrderInv, Pop
  <2>3. ASSUME NEW k \in Lives, Among(OpOf("suffix", k), Pop)
        PROVE  states'.owner = k /\ states'.made /\ states'.cursor < sessions[k].born
    BY <1>1, <2>3 DEF OrderInv
  <2>4. entry'.phase = "none" \/ entry.phase # "none" OBVIOUS
  <2> QED BY <2>1, <2>2, <2>3, <2>4, Begun
<1>8. EntryInv' BY EntryShrinks
<1>9. CallInv'
  <2>1. Begins(disk.log, disk'.log) BY Typed DEF Begins
  <2>2. \A k \in Lives : live'[k].flush = live[k].flush /\ live'[k].upto = live[k].upto
    BY <1>1
  <2> QED BY <1>1, <2>1, <2>2, CallsMove
<1> QED BY <1>3, <1>4, <1>5, <1>6, <1>7, <1>8, <1>9

\* The part of a seed that is not stored.
LEMMA SeedBatch ==
  ASSUME Inv, NEW l \in Lives, NEW cursor \in Nat, SeedSuffix(l, cursor) # <<>>,
         sessions[l].born <= Len(sessions[l].log)
  PROVE  LET j == AppendJob(l, SeedSuffix(l, cursor))
         IN  /\ j.does = "append" /\ j.batch # <<>> /\ j.batch \in Seq(Events)
             /\ cursor + Len(j.batch) = sessions[l].born
             /\ \A i \in 1 .. Len(j.batch) : j.batch[i] = sessions[l].log[cursor + i]
<1> DEFINE born == sessions[l].born
           log == sessions[l].log
           k == born - cursor
           ns == SeedSuffix(l, cursor)
           b == [i \in DOMAIN ns |-> log[ns[i]]]
<1>1. born \in Nat /\ Len(log) \in Nat /\ log \in Seq(Events) BY Typed
<1>2. ns = [i \in 1 .. k |-> cursor + i] BY DEF SeedSuffix
<1>3. cursor < born
  <2> SUFFICES ASSUME ~(cursor < born) PROVE FALSE OBVIOUS
  <2>1. 1 .. k = {}
    <3> HIDE DEF born
    <3> QED BY <1>1
  <2>2. ns = [i \in {} |-> cursor + i] BY <1>2, <2>1
  <2>3. ns \in Seq(Nat) /\ Len(ns) = 0
    <3>1. 1 .. 0 = {} OBVIOUS
    <3> HIDE DEF k
    <3>2. ns \in [1 .. 0 -> Nat] BY <2>2, <3>1
    <3> HIDE DEF ns
    <3>3. ns \in Seq(Nat) BY <3>2, SeqDef
    <3> QED BY <3>2, <3>3, LenProperties
  <2> HIDE DEF ns
  <2>4. ns = <<>> BY <2>3, EmptySeq
  <2> QED BY <2>4 DEF ns
<1>4. k \in Nat /\ k # 0 /\ \A i \in 1 .. k : cursor + i \in 1 .. Len(log)
  <2> HIDE DEF born, log
  <2> QED BY <1>1, <1>3 DEF born, log
<1>5. \A i \in 1 .. Len(log) : log[i] \in Events
  <2> HIDE DEF log
  <2> QED BY <1>1, ElementOfSeq
<1> HIDE DEF k, born, log
<1>6. DOMAIN ns = 1 .. k /\ \A i \in 1 .. k : ns[i] = cursor + i BY <1>2
<1> HIDE DEF ns
<1>7. b \in [1 .. k -> Events] /\ \A i \in 1 .. k : b[i] = log[cursor + i]
  BY <1>4, <1>5, <1>6
<1> HIDE DEF b
<1>8. b \in Seq(Events) /\ Len(b) = k BY <1>4, <1>7, SeqDef, LenProperties
<1>9. b # <<>> BY <1>4, <1>8, EmptySeq
<1>10. cursor + Len(b) = born BY <1>1, <1>3, <1>8 DEF k
<1>11. AppendJob(l, ns) = [does |-> "append", cut |-> FALSE, batch |-> b]
  BY DEF AppendJob, b, log
<1>12. AppendJob(l, ns).does = "append" /\ AppendJob(l, ns).batch = b BY <1>11
<1> QED BY <1>7, <1>8, <1>9, <1>10, <1>12 DEF ns, born, log

\* A seed, or its part that is not stored, is appended by the life that owns the id.
LEMMA SeedStarts ==
  ASSUME Inv, Inv', Content, chain # <<>>, job = NoJob, Head1.op \in Starters,
         NEW s \in StateRecs, states' = s, s.owner = Head1.by, s.tracked,
         s.cursor = Len(disk.log), s.made => disk.made, s.made \/ s.cursor = 0,
         Begins(disk.log, sessions[Head1.by].log), ~disk.torn,
         \A k \in Lives : states.owner = k => Idle(k),
         \A k \in Lives : Among(OpOf("suffix", k), chain) => s = states,
         SeedSuffix(Head1.by, s.cursor) # <<>>,
         job' = AppendJob(Head1.by, SeedSuffix(Head1.by, s.cursor)),
         UNCHANGED <<disk, sessions, live, retirement, chain, entry, readers, plugin>>
  PROVE  Content'
<1> USE DEF Content
<1> DEFINE l == Head1.by
<1>1. /\ l \in Lives /\ sessions[l].at # "unborn" /\ Stands(Head1, live, sessions, readers)
      /\ sessions[l].born <= Len(sessions[l].log) /\ s.cursor \in Nat
  BY HeadLife DEF LifeOps, Starters, Stages, StateRecs
<1>2. /\ live[l].init = "pending" /\ Head1.op # "write" BY <1>1 DEF Stands, Starters
<1>3. /\ job'.does = "append" /\ job'.batch # <<>> /\ Len(job'.batch) \in Nat
      /\ s.cursor + Len(job'.batch) = sessions[l].born
      /\ \A i \in 1 .. Len(job'.batch) : job'.batch[i] = sessions[l].log[s.cursor + i]
  <2>1. SeedSuffix(l, s.cursor) # <<>> OBVIOUS
  <2>2. job' = AppendJob(l, SeedSuffix(l, s.cursor)) OBVIOUS
  <2> DEFINE j == AppendJob(l, SeedSuffix(l, s.cursor))
             n == s.cursor
  <2>3. n \in Nat /\ l \in Lives /\ sessions[l].born <= Len(sessions[l].log) BY <1>1
  <2> HIDE DEF l
  <2>4. /\ j.does = "append" /\ j.batch # <<>> /\ j.batch \in Seq(Events)
        /\ n + Len(j.batch) = sessions[l].born
        /\ \A i \in 1 .. Len(j.batch) : j.batch[i] = sessions[l].log[n + i]
    <3> HIDE DEF n
    <3>1. SeedSuffix(l, n) # <<>> BY <2>1 DEF n
    <3>2. j = AppendJob(l, SeedSuffix(l, n)) BY DEF n
    <3> HIDE DEF j
    <3> QED BY <2>3, <3>1, <3>2, SeedBatch
  <2>5. job' = j BY <2>2
  <2> HIDE DEF j
  <2> QED BY <2>4, <2>5, LenProperties
<1>4. \A r \in Readers : readers[r].at # "held" BY <1>1, <1>2, NoneHeld
<1>5. FileInv' BY FileFree
<1>6. OwnerInv' BY <1>1, <1>3, LifeNumbers DEF OwnerInv
<1>7. BatchInv'
  <2>1. Head1' = Head1 BY DEF Head1
  <2>2. s.cursor + Len(job'.batch) <= Len(sessions[l].log) BY <1>1, <1>3
  <2> QED BY <1>1, <1>2, <1>3, <2>1, <2>2 DEF BatchInv
<1>8. ContentInv'
  <2>1. ASSUME NEW k \in Lives PROVE Owns(live[k], sessions[k], states'.owner = k)
    BY DEF ContentInv, Owns, Idle
  <2> QED BY <2>1 DEF ContentInv
<1>9. BornInv' /\ ColdInv' BY BornSame, ColdSame
<1>10. OrderInv' BY DEF OrderInv
<1>11. EntryInv'
  <2>1. Growing' = Growing BY <1>3 DEF Growing, NoJob
  <2> QED BY <2>1 DEF EntryInv
<1>12. CallInv'
  <2>1. Begins(disk.log, disk'.log) BY Typed DEF Begins
  <2> QED BY <1>4, <2>1, CallsMove
<1> QED BY <1>5, <1>6, <1>7, <1>8, <1>9, <1>10, <1>11, <1>12

\* A life whose seed is stored owns the id.
LEMMA SeedDone ==
  ASSUME Inv, Inv', Content, chain # <<>>, job = NoJob, Head1.op \in Starters,
         NEW s \in StateRecs, states' = s, s.owner = Head1.by, s.tracked,
         s.cursor = Len(disk.log), s.made => disk.made, s.made \/ s.cursor = 0,
         Begins(disk.log, sessions[Head1.by].log), ~disk.torn,
         \A k \in Lives : states.owner = k => Idle(k),
         \A k \in Lives : ~Among(OpOf("suffix", k), chain),
         sessions[Head1.by].born <= s.cursor,
         live' = Initialized(Head1.by, "ok"), chain' = Enlist(Head1.by, live', Pop),
         job' = NoJob,
         UNCHANGED <<disk, sessions, retirement, entry, readers, plugin>>
  PROVE  Content'
<1> USE DEF Content
<1> DEFINE l == Head1.by
<1>1. /\ l \in Lives /\ live[l].init = "pending" /\ sessions[l].at # "unborn"
      /\ live'[l].init = "ok" /\ live'[l].w = live[l].w
      /\ live'[l].flush = live[l].flush /\ live'[l].upto = live[l].upto
      /\ \A k \in Lives \ {l} : live'[k] = live[k]
      /\ \A op, k : Among(OpOf(op, k), Pop) => Among(OpOf(op, k), chain)
      /\ \A r \in Readers : readers[r].at # "held"
  BY Starter
<1>2. Pop \in Seq(OpRecs) BY Typed, Popped DEF Pop
<1>3. SameOps(Pop, chain')
  <2>1. chain' = Enlist(l, live', Pop) OBVIOUS
  <2> HIDE DEF l
  <2> QED BY <1>1, <1>2, <2>1, EnlistSame
<1>4. FileInv' BY <1>1, FileFree
<1>5. OwnerInv' BY <1>1, LifeNumbers DEF OwnerInv, NoJob
<1>6. BatchInv' BY DEF BatchInv, NoJob
<1>7. ContentInv'
  <2>1. ASSUME NEW k \in Lives
        PROVE  /\ Safe(live'[k], sessions[k], plugin = "on", disk.log)
               /\ Owns(live'[k], sessions[k], states'.owner = k)
    <3>1. /\ Safe(live[k], sessions[k], plugin = "on", disk.log)
          /\ Owns(live[k], sessions[k], states.owner = k)
      BY DEF ContentInv
    <3>2. CASE k = l
      <4> DEFINE on == plugin = "on"
      <4>1. Claims(live'[l], sessions[l], on) = Claims(live[l], sessions[l], on)
        BY <1>1 DEF Claims
      <4>2. ASSUME NEW n \in Claims(live[l], sessions[l], on), n <= sessions[l].born
            PROVE  Kept(sessions[l], n, disk.log)
        <5>1. n \in 1 .. Len(sessions[l].log) BY DEF Claims
        <5>2. n <= Len(disk.log) BY <1>1, <4>2, <5>1, Typed
        <5>3. n \in 1 .. Len(disk.log) BY <1>1, <5>1, <5>2, Typed
        <5>4. disk.log[n] = sessions[l].log[n] BY <5>3 DEF Begins
        <5> QED BY <5>2, <5>4 DEF Kept
      <4>3. \A n : IsHeld(live'[l].w, n) <=> IsHeld(live[l].w, n) BY <1>1
      <4>4. \A n \in Claims(live[l], sessions[l], on) :
              n <= sessions[l].born \/ IsHeld(live[l].w, n)
        BY <1>1, <3>1, <3>2 DEF Safe
      <4>5. \A n \in Claims(live'[l], sessions[l], on) :
              Kept(sessions[l], n, disk.log) \/ IsHeld(live'[l].w, n)
        BY <4>1, <4>2, <4>3, <4>4
      <4>6. live'[l].flush \in Flushing => live'[l].upto <= Len(sessions[l].log)
        BY <1>1, <3>1, <3>2 DEF Safe
      <4>7. Safe(live'[l], sessions[l], on, disk.log)
        <5> HIDE DEF on
        <5> QED BY <1>1, <4>5, <4>6 DEF Safe
      <4>8. Owns(live'[l], sessions[l], states'.owner = l) BY DEF Owns
      <4> QED BY <3>2, <4>7, <4>8
    <3>3. CASE k # l
      <4>1. live'[k] = live[k] BY <1>1, <3>3
      <4>2. Owns(live[k], sessions[k], states'.owner = k) BY <3>1 DEF Owns, Idle
      <4> QED BY <3>1, <4>1, <4>2
    <3> QED BY <3>2, <3>3
  <2> QED BY <2>1 DEF ContentInv
<1>8. BornInv' /\ OrderInv' /\ ColdInv'
  <2>1. SomeFetch(chain') => entry'.phase = "loading"
    <3>1. SomeFetch(chain') => SomeFetch(Pop) BY <1>3 DEF SameOps
    <3>2. SomeFetch(Pop) => SomeFetch(chain) BY Typed, PopFewer DEF Pop
    <3> QED BY <3>1, <3>2 DEF OrderInv
  <2>2. \A k \in Lives : ~Among(OpOf("suffix", k), Pop) BY <1>1
  <2>3. entry'.phase = "none" \/ entry.phase # "none" OBVIOUS
  <2> QED BY <1>3, <2>1, <2>2, <2>3, Begun
<1>9. EntryInv' BY EntryShrinks
<1>10. CallInv'
  <2>1. Begins(disk.log, disk'.log) BY Typed DEF Begins
  <2>2. \A k \in Lives : live'[k].flush = live[k].flush /\ live'[k].upto = live[k].upto
    BY <1>1
  <2> QED BY <1>1, <2>1, <2>2, CallsMove
<1> QED BY <1>4, <1>5, <1>6, <1>7, <1>8, <1>9, <1>10

\* The suffix of a resumed life.
LEMMA StartSuffixContent ==
  ASSUME Inv, Inv', Content, StartSuffix
  PROVE  Content'
<1> USE DEF Content
<1> DEFINE l == Head1.by
<1>1. /\ chain # <<>> /\ job = NoJob /\ Head1.op = "suffix" /\ Head1.op \in Starters
      /\ UNCHANGED <<disk, sessions, states, retirement, entry, readers, plugin>>
  BY DEF StartSuffix, Starts, Running, Starters
<1>2. l \in Lives /\ Among(OpOf("suffix", l), chain)
  <2>1. l \in Lives BY <1>1, HeadLife DEF LifeOps
  <2>2. chain[1] \in OpRecs /\ Among(chain[1], chain) BY <1>1, Typed, Popped, OpElement
  <2>3. chain[1] = OpOf("suffix", l) BY <1>1, <2>2, OpRec DEF Head1
  <2> QED BY <2>1, <2>2, <2>3
<1>3. states.owner = l /\ states.made /\ states.cursor < sessions[l].born
  BY <1>2 DEF OrderInv
<1>4. CASE chain' = Pop /\ live' = Initialized(l, "broken") /\ UNCHANGED job
  <2>1. job' = NoJob /\ job.does # "appended" BY <1>1, <1>4 DEF NoJob
  <2> QED BY <1>1, <1>3, <1>4, <2>1, StartFails
<1>5. CASE job' = AppendJob(l, SeedSuffix(l, states.cursor)) /\ UNCHANGED <<chain, live>>
  <2>1. /\ states \in StateRecs /\ states.cursor \in Nat /\ sessions[l].born \in Nat
        /\ Len(sessions[l].log) \in Nat
    BY <1>2, Typed
  <2>2. job.does # "appended" BY <1>1 DEF NoJob
  <2>3. /\ states.tracked /\ disk.made /\ states.cursor = Len(disk.log)
        /\ Begins(disk.log, sessions[l].log)
    BY <1>2, <1>3, <2>2, LifeNumbers DEF OwnerInv
  <2>4. ~disk.torn BY <2>3 DEF FileInv
  <2>5. SeedSuffix(l, states.cursor) # <<>>
    <3>1. sessions[l].born <= Len(sessions[l].log)
      BY <1>1, HeadLife DEF LifeOps, Stages
    <3> HIDE DEF l
    <3>2. SeedSuffix(l, states.cursor) = <<>> => sessions[l].born <= states.cursor
      BY <1>2, <2>1, <3>1, SeedSuffixFields
    <3> QED BY <1>3, <2>1, <3>2
  <2>6. \A k \in Lives : states.owner = k => Idle(k)
    <3>1. Stands(Head1, live, sessions, readers) BY <1>1, HeadLife DEF LifeOps
    <3>2. live[l].init = "pending" BY <1>1, <3>1 DEF Stands
    <3> QED BY <1>3, <3>2 DEF Idle
  <2> QED BY <1>1, <1>3, <1>5, <2>1, <2>3, <2>4, <2>5, <2>6, SeedStarts
<1> QED BY <1>4, <1>5 DEF StartSuffix

\* The stored events begin with the complete ones.
LEMMA StoredFields ==
  ASSUME Inv
  PROVE  /\ Stored(disk) \in Seq(Events) /\ Len(Stored(disk)) \in Nat
         /\ Len(disk.log) <= Len(Stored(disk))
         /\ \A i \in 1 .. Len(disk.log) : Stored(disk)[i] = disk.log[i]
<1> DEFINE a == disk.log
           b == disk.tail
<1>1. a \in Seq(Events) /\ b \in Seq(Events) BY Typed
<1>2. Stored(disk) = a \o b BY DEF Stored
<1> HIDE DEF a, b
<1>3. Len(a) \in Nat /\ Len(b) \in Nat BY <1>1, LenProperties
<1>4. /\ a \o b \in Seq(Events) /\ Len(a \o b) = Len(a) + Len(b)
      /\ \A i \in 1 .. Len(a) + Len(b) :
           (a \o b)[i] = IF i <= Len(a) THEN a[i] ELSE b[i - Len(a)]
  BY <1>1, ConcatProperties
<1>5. \A i \in 1 .. Len(a) : (a \o b)[i] = a[i] BY <1>3, <1>4
<1> QED BY <1>2, <1>3, <1>4, <1>5 DEF a

\* A seed that the stored events begin.
LEMMA SeedBegins ==
  ASSUME Inv, NEW l \in Lives, NEW n \in Nat, Len(disk.log) <= n, n <= Len(Stored(disk)),
         SeedMatches(l, n), sessions[l].born <= Len(sessions[l].log)
  PROVE  Begins(disk.log, sessions[l].log)
<1> DEFINE log == sessions[l].log
           born == sessions[l].born
           d == Stored(disk)
           s == SubSeq(d, 1, n)
           t == SubSeq(log, 1, born)
           m == Len(disk.log)
<1>1. /\ log \in Seq(Events) /\ Len(log) \in Nat /\ born \in Nat /\ born <= Len(log)
      /\ disk.log \in Seq(Events) /\ disk.tail \in Seq(Events) /\ m \in Nat /\ m <= n
  BY Typed
<1>2. d \in Seq(Events) /\ Len(d) \in Nat /\ \A i \in 1 .. m : d[i] = disk.log[i]
  BY StoredFields
<1>3. s \in Seq(Events) /\ Len(s) = n /\ \A i \in 1 .. n : s[i] = d[i]
  <2>1. n <= Len(d) OBVIOUS
  <2> HIDE DEF d
  <2>2. \A i \in 1 .. n : d[i] \in Events BY <1>2, <2>1, ElementOfSeq
  <2> QED BY <2>2, SubSeqProperties
<1>4. t \in Seq(Events) /\ Len(t) = born /\ \A i \in 1 .. born : t[i] = log[i]
  <2> HIDE DEF log, born
  <2>1. \A i \in 1 .. born : log[i] \in Events BY <1>1, ElementOfSeq
  <2> QED BY <1>1, <2>1, SubSeqProperties
<1>5. IsPrefix(s, t) BY DEF SeedMatches, Seed
<1> HIDE DEF log, born, d, s, t, m
<1>6. Begins(s, t) BY <1>3, <1>4, <1>5, PrefixBegins
<1>7. n <= born /\ \A i \in 1 .. n : s[i] = t[i] BY <1>3, <1>4, <1>6 DEF Begins
<1>8. m <= Len(log) BY <1>1, <1>7
<1>9. ASSUME NEW i \in 1 .. m PROVE disk.log[i] = log[i]
  <2>1. i \in 1 .. n /\ i \in 1 .. born BY <1>1, <1>7
  <2> QED BY <1>2, <1>3, <1>4, <1>7, <2>1
<1> QED BY <1>8, <1>9 DEF Begins, m, log

\* Whose id a new life may take has no use for it.
LEMMA OwnerIdle ==
  ASSUME Inv, Content, chain # <<>>, Head1.op \in Starters,
         states.owner = None \/ ~states.tracked \/ Abandoned
  PROVE  /\ \A k \in Lives : states.owner = k => Idle(k)
         /\ \A k \in Lives : ~Among(OpOf("suffix", k), chain)
<1> DEFINE l == Head1.by
<1>1. l \in Lives /\ sessions[l].at # "unborn" /\ live[l].init = "pending"
  <2>1. l \in Lives /\ sessions[l].at # "unborn" /\ Stands(Head1, live, sessions, readers)
    BY HeadLife DEF LifeOps, Starters
  <2> QED BY <2>1 DEF Stands, Starters
<1>2. CASE states.owner = None BY <1>2, LifeNumbers DEF Content, OrderInv
<1>3. CASE states.owner # None
  <2>1. states.tracked BY <1>3 DEF Content, OwnerInv, Untracked
  <2>2. Abandoned BY <1>3, <2>1
  <2>3. \A k \in Lives : ~Among(OpOf("suffix", k), chain)
    BY <2>2 DEF Content, OrderInv, Abandoned
  <2>4. ASSUME NEW k \in Lives, states.owner = k, live[k].init \in {"ok", "broken"},
               sessions[k].at = "open"
        PROVE  FALSE
    <3>1. k # l BY <1>1, <2>4
    <3>2. CASE k < l BY <1>1, <2>4, <3>2 DEF Content, BornInv
    <3>3. CASE l < k BY <1>1, <2>4, <3>3 DEF Content, BornInv
    <3> HIDE DEF l
    <3> QED BY <1>1, <3>1, <3>2, <3>3, LifeNumbers
  <2> QED BY <2>2, <2>3, <2>4 DEF Idle, Abandoned
<1> QED BY <1>2, <1>3

LEMMA OnCreatedContent ==
  ASSUME Inv, Inv', Content, OnCreated
  PROVE  Content'
<1> USE DEF Content
<1> DEFINE l == Head1.by
<1>1. /\ chain # <<>> /\ job = NoJob /\ Head1.op = "create" /\ Head1.op \in Starters
      /\ UNCHANGED <<disk, sessions, retirement, entry, readers, plugin>>
  BY DEF OnCreated, Starts, Running, Starters
<1>2. /\ l \in Lives /\ sessions[l].born <= Len(sessions[l].log) /\ live[l].init = "pending"
      /\ Stands(Head1, live, sessions, readers)
  <2>1. Stands(Head1, live, sessions, readers) BY <1>1, HeadLife DEF LifeOps
  <2> QED BY <1>1, <2>1, HeadLife DEF LifeOps, Stages, Stands
<1>3. /\ states \in StateRecs /\ states.cursor \in Nat /\ Len(disk.log) \in Nat
      /\ disk.log \in Seq(Events) /\ disk.tail \in Seq(Events)
      /\ Len(sessions[l].log) \in Nat /\ sessions[l].born \in Nat
  BY <1>2, Typed
<1>4. Len(disk.log) <= Len(Stored(disk)) /\ Len(Stored(disk)) \in Nat
  BY StoredFields
<1>5. Present(l) BY <1>2 DEF Present
\* the id is bound to the life
<1>6. ASSUME NEW s \in StateRecs, Bind(l, s), s.owner = l, s.tracked,
             s.cursor = Len(disk.log), s.made => disk.made, s.made \/ s.cursor = 0,
             Begins(disk.log, sessions[l].log), ~disk.torn,
             states.owner = None \/ ~states.tracked \/ Abandoned
      PROVE  Content'
  <2>1. states' = s BY <1>6 DEF Bind
  <2>2. /\ \A k \in Lives : states.owner = k => Idle(k)
        /\ \A k \in Lives : ~Among(OpOf("suffix", k), chain)
    BY <1>1, <1>6, OwnerIdle
  <2>3. CASE SeedSuffix(l, s.cursor) = <<>>
    <3>1. live' = Initialized(l, "ok") /\ job' = NoJob /\ chain' = Enlist(l, live', Pop)
      BY <1>6, <2>3 DEF Bind
    <3>2. sessions[l].born <= s.cursor
      <4> HIDE DEF l
      <4> QED BY <1>2, <1>3, <1>6, <2>3, SeedSuffixFields
    <3> QED BY <1>1, <1>6, <2>1, <2>2, <3>1, <3>2, SeedDone
  <2>4. CASE SeedSuffix(l, s.cursor) # <<>>
    <3>1. job' = AppendJob(l, SeedSuffix(l, s.cursor)) /\ UNCHANGED <<chain, live>>
      BY <1>6, <2>4 DEF Bind
    <3> QED BY <1>1, <1>6, <2>1, <2>2, <2>4, <3>1, SeedStarts
  <2> QED BY <2>3, <2>4
\* the life is refused
<1>7. ASSUME Refuse(l, states) PROVE Content'
  <2>1. chain' = Pop /\ live' = Initialized(l, "refused") /\ states' = states /\ job' = NoJob
    BY <1>1, <1>7 DEF Refuse
  <2>2. job.does # "appended" BY <1>1 DEF NoJob
  <2> QED BY <1>1, <2>1, <2>2, StartFails
<1>8. ASSUME Refuse(l, Untracked), states.owner = None \/ ~states.tracked \/ Abandoned
      PROVE  Content'
  <2>1. chain' = Pop /\ live' = Initialized(l, "refused") /\ states' = Untracked /\ job' = NoJob
    BY <1>1, <1>8 DEF Refuse
  <2>2. /\ \A k \in Lives : states.owner = k => Idle(k)
        /\ \A k \in Lives : ~Among(OpOf("suffix", k), chain)
    BY <1>1, <1>8, OwnerIdle
  <2>3. \A k \in Lives : ~Among(OpOf("suffix", k), Pop)
    BY <1>1, <2>2, Typed, Popped DEF Pop
  <2> QED BY <1>1, <2>1, <2>2, <2>3, StartFails
<1> HIDE DEF l
<1>9. CASE states.tracked /\ states.owner = None /\ SeedMatches(l, states.cursor)
           /\ Bind(l, [states EXCEPT !.owner = l])
  <2> DEFINE s == [states EXCEPT !.owner = l]
  <2>1. /\ s \in StateRecs /\ s.owner = l /\ s.tracked /\ s.cursor = states.cursor
        /\ s.made = states.made
    BY <1>2, <1>3, <1>9 DEF StateRecs
  <2>2. Bind(l, s) BY <1>9
  <2> HIDE DEF s
  <2>3. states.made /\ disk.made /\ states.cursor = Len(disk.log)
    <3>1. job.does # "appended" BY <1>1 DEF NoJob
    <3> QED BY <1>9, <3>1 DEF OwnerInv
  <2>4. ~disk.torn BY <1>9 DEF FileInv
  <2>5. Begins(disk.log, sessions[l].log) BY <1>2, <1>3, <1>4, <1>9, <2>3, SeedBegins
  <2> QED BY <1>6, <1>9, <2>1, <2>2, <2>3, <2>4, <2>5
<1>10. CASE (~states.tracked \/ Abandoned) /\ ~disk.made /\ Bind(l, Tracked(l, 0, FALSE))
  <2> DEFINE s == Tracked(l, 0, FALSE)
  <2>1. s \in StateRecs /\ s.owner = l /\ s.tracked /\ s.cursor = 0 /\ ~s.made
    BY <1>2 DEF Tracked, StateRecs
  <2>2. Bind(l, s) BY <1>10
  <2> HIDE DEF s
  <2>3. disk.log = <<>> /\ ~disk.torn BY <1>10 DEF Inv, DiskInv, FileInv
  <2>4. Len(disk.log) = 0 /\ Begins(disk.log, sessions[l].log)
    BY <1>3, <2>3, EmptySeq DEF Begins
  <2> QED BY <1>6, <1>10, <2>1, <2>2, <2>3, <2>4
<1>11. CASE /\ ~states.tracked \/ Abandoned
            /\ disk.made /\ SeedMatches(l, Len(Stored(disk)))
            /\ Bind(l, Tracked(l, Len(disk.log), TRUE))
  <2> DEFINE s == Tracked(l, Len(disk.log), TRUE)
  <2>1. s \in StateRecs /\ s.owner = l /\ s.tracked /\ s.cursor = Len(disk.log) /\ s.made
    BY <1>2, <1>3 DEF Tracked, StateRecs
  <2>2. Bind(l, s) BY <1>11
  <2> HIDE DEF s
  <2>3. Begins(disk.log, sessions[l].log) BY <1>2, <1>4, <1>11, SeedBegins
  <2>4. ~disk.torn
    <3> SUFFICES ASSUME disk.torn PROVE FALSE OBVIOUS
    <3>1. disk.log # <<>> BY <1>11 DEF FileInv
    <3>2. 1 \in 1 .. Len(disk.log) BY <1>3, <3>1, EmptySeq
    <3>3. disk.log[1] = sessions[l].log[1] /\ Len(sessions[l].log) # 0
      BY <1>3, <2>3, <3>2 DEF Begins
    <3>4. sessions[l].log # <<>> BY <3>3, EmptySeq
    <3> QED BY <1>2, <1>5, <3>3, <3>4 DEF FileInv, l
  <2> QED BY <1>6, <1>11, <2>1, <2>2, <2>3, <2>4
<1>12. CASE Refuse(l, states) BY <1>7, <1>12
<1>13. CASE (~states.tracked \/ Abandoned) /\ Refuse(l, Untracked) BY <1>8, <1>13
<1> QED BY <1>9, <1>10, <1>11, <1>12, <1>13 DEF OnCreated, l

-----------------------------------------------------------------------------
(* Retirements, and what storage does.                                     *)

\* A life without work has everything in the file that it answers for.
LEMMA AllStored ==
  ASSUME Inv, Content, NEW l \in Lives, live[l].init = "ok", plugin = "on",
         ~HasWork(live[l].w)
  PROVE  Begins(sessions[l].log, disk.log)
<1>1. Safe(live[l], sessions[l], TRUE, disk.log) BY DEF Content, ContentInv
<1>2. live[l].w.active = <<>> /\ live[l].w.pending = <<>>
  BY DEF HasWork, Inv, LivesInv, Queues, WellFormed
<1>3. Held(live[l].w) = <<>> BY <1>2, ConcatEmptySeq, EmptySeq DEF Held
<1>4. \A n : ~IsHeld(live[l].w, n) BY <1>3, EmptySeq DEF IsHeld
<1>5. ASSUME NEW n \in 1 .. Len(sessions[l].log) PROVE Kept(sessions[l], n, disk.log)
  BY <1>1, <1>4 DEF Safe, Claims
<1>6. Len(sessions[l].log) \in Nat /\ Len(disk.log) \in Nat BY Typed
<1>7. Len(sessions[l].log) <= Len(disk.log)
  <2> DEFINE n == Len(sessions[l].log)
  <2>1. CASE n = 0 BY <1>6, <2>1
  <2>2. CASE n # 0
    <3>1. n \in 1 .. n BY <1>6, <2>2
    <3> QED BY <1>5, <3>1 DEF Kept
  <2> QED BY <2>1, <2>2
<1> QED BY <1>5, <1>7 DEF Begins, Kept

LEMMA RetireContent ==
  ASSUME Inv, Inv', Content, Retire
  PROVE  Content'
<1> USE DEF Content
<1> DEFINE l == Head1.by
<1>1. /\ chain # <<>> /\ job = NoJob /\ Head1.op = "retire"
      /\ live' = [live EXCEPT ![l] = NoLive]
      /\ states' = IF Owned(l) THEN Untracked ELSE states
      /\ retirement' = IF retirement = l THEN None ELSE retirement
      /\ chain' = Pop
      /\ UNCHANGED <<disk, sessions, job, entry, readers, plugin>>
  BY DEF Retire, Starts, Running
<1>2. l \in Lives /\ Stands(Head1, live, sessions, readers)
  BY <1>1, HeadLife DEF LifeOps
<1>3. live[l].init = "ok" /\ ~HasWork(live[l].w) /\ sessions[l].at = "gone"
  BY <1>1, <1>2 DEF Stands
<1>4. Among(OpOf("retire", l), chain)
  <2>1. chain[1] \in OpRecs /\ Among(chain[1], chain) BY <1>1, Typed, Popped, OpElement
  <2>2. chain[1] = OpOf("retire", l) BY <1>1, <2>1, OpRec DEF Head1
  <2> QED BY <2>1, <2>2
<1>5. /\ live'[l] = NoLive /\ \A k \in Lives \ {l} : live'[k] = live[k]
  BY <1>1, <1>2 DEF Inv, TypeInv
<1> HIDE DEF l
<1>6. NoLive.init = "none" /\ NoLive.flush = "no" BY DEF NoLive
<1>7. Untracked.owner = None /\ Untracked.cursor = 0 /\ ~Untracked.tracked /\ ~Untracked.made
  BY DEF Untracked
<1>8. FileInv'
  <2>1. disk.torn => ~states'.tracked BY <1>1, <1>7 DEF FileInv
  <2>2. \A k \in Lives : live'[k].init # "none" => live[k].init # "none" BY <1>5, <1>6
  <2> QED BY <1>1, <2>1, <2>2, FileFree
<1>9. OwnerInv'
  <2>1. CASE Owned(l) BY <1>1, <1>7, <2>1 DEF OwnerInv
  <2>2. CASE ~Owned(l) BY <1>1, <2>2, Typed DEF OwnerInv, NoJob
  <2> QED BY <2>1, <2>2
<1>10. BatchInv' BY <1>1 DEF BatchInv, NoJob
<1>11. ContentInv'
  <2>1. ASSUME NEW k \in Lives
        PROVE  /\ Safe(live'[k], sessions[k], plugin = "on", disk.log)
               /\ Owns(live'[k], sessions[k], states'.owner = k)
    <3>1. /\ Safe(live[k], sessions[k], plugin = "on", disk.log)
          /\ Owns(live[k], sessions[k], states.owner = k)
      BY DEF ContentInv
    <3>2. CASE k = l
      <4>1. plugin = "on" => Begins(sessions[l].log, disk.log) BY <1>2, <1>3, AllStored
      <4>2. Safe(NoLive, sessions[l], plugin = "on", disk.log)
        BY <1>3, <1>6, <4>1 DEF Safe, Flushing
      <4>3. Owns(NoLive, sessions[l], states'.owner = l) BY <1>6 DEF Owns
      <4> QED BY <1>5, <3>2, <4>2, <4>3
    <3>3. CASE k # l
      <4>1. states.owner = k => states'.owner = k BY <1>1, <3>3 DEF Owned
      <4>2. Owns(live[k], sessions[k], states'.owner = k) BY <3>1, <4>1 DEF Owns
      <4> QED BY <1>5, <3>1, <3>3, <4>2
    <3> QED BY <3>2, <3>3
  <2> QED BY <1>1, <2>1 DEF ContentInv
<1>12. /\ \A k \in Lives : live'[k].init = "pending" <=> live[k].init = "pending"
       /\ \A k \in Lives : live[k].init \in {"none", "pending"} => live'[k].init = live[k].init
  BY <1>3, <1>5, <1>6
<1>13. BornInv'
  <2>1. \A k \in Lives : live[k].init = "pending" => k # l BY <1>3
  <2> QED BY <1>1, <1>12, <2>1 DEF BornInv
<1>14. ColdInv'
  <2>1. retirement = None => retirement' = None BY <1>1
  <2> QED BY <1>1, <1>12, <2>1 DEF ColdInv
<1>15. OrderInv'
  <2>1. /\ Ordered(Pop) /\ OneFetch(Pop) /\ (SomeFetch(Pop) => entry.phase = "loading")
    BY <1>1, Typed, PopFewer DEF OrderInv, Pop
  <2>2. \A o : Among(o, Pop) => Among(o, chain) BY <1>1, Typed, Popped DEF Pop
  <2>3. \A k \in Lives : live'[k].init = "pending" =>
          \E op \in Starters : Among(OpOf(op, k), Pop)
    <3> SUFFICES ASSUME NEW k \in Lives, live'[k].init = "pending"
                 PROVE  \E op \in Starters : Among(OpOf(op, k), Pop)
      OBVIOUS
    <3>1. PICK op \in Starters : Among(OpOf(op, k), chain) BY <1>12 DEF OrderInv
    <3>2. OpOf(op, k) # chain[1] BY <1>1, <3>1 DEF OpOf, Head1, Starters
    <3> QED BY <1>1, <3>1, <3>2, Typed, Popped DEF Pop
  <2>4. \A k \in Lives : plugin = "on" /\ Among(OpOf("retire", k), Pop) =>
          live'[k].flush = "no"
    BY <1>5, <1>6, <2>2 DEF OrderInv
  <2>5. ASSUME NEW k \in Lives, Among(OpOf("suffix", k), Pop)
        PROVE  states'.owner = k /\ states'.made /\ states'.cursor < sessions[k].born
    <3>1. Among(OpOf("suffix", k), chain) BY <2>2, <2>5
    <3>2. PICK i \in DOMAIN chain : chain[i] = OpOf("suffix", k) BY <3>1 DEF Among
    <3>3. live[k].init = "pending"
      <4>1. Stands(chain[i], live, sessions, readers) BY DEF Inv, ChainInv, Sound
      <4> QED BY <3>2, <4>1 DEF Stands, OpOf
    <3>4. states.owner = k /\ states.made /\ states.cursor < sessions[k].born
      BY <3>1 DEF OrderInv
    <3>5. ~Owned(l) BY <1>3, <3>3, <3>4 DEF Owned
    <3> QED BY <1>1, <3>4, <3>5
  <2> QED BY <1>1, <2>1, <2>3, <2>4, <2>5 DEF OrderInv
<1>16. EntryInv' BY <1>1 DEF EntryInv, Growing
<1>17. CallInv'
  <2>1. Begins(disk.log, disk'.log) BY <1>1, Typed DEF Begins
  <2>2. UNCHANGED <<disk, states>> \/ \A r \in Readers : readers[r].at # "held"
    BY <1>1, <1>2, NoneHeld DEF Owned
  <2>3. plugin = "on" => live[l].flush = "no" BY <1>2, <1>4 DEF OrderInv
  <2>4. \A k \in Lives : plugin = "on" /\ live[k].flush \in Flushing =>
          live'[k].flush = live[k].flush /\ live'[k].upto = live[k].upto
    BY <1>5, <2>3 DEF Flushing
  <2>5. UNCHANGED <<entry, readers>> /\ \A k \in Lives : sessions'[k].log = sessions[k].log
    BY <1>1
  <2> QED BY <2>1, <2>2, <2>4, <2>5, CallsMove
<1> QED BY <1>8, <1>9, <1>10, <1>11, <1>13, <1>14, <1>15, <1>16, <1>17

LEMMA CutTailContent ==
  ASSUME Inv, Inv', Content, CutTail
  PROVE  Content'
<1> USE DEF Content
<1>1. /\ job.does = "repair"
      /\ disk' = [disk EXCEPT !.tail = <<>>, !.torn = FALSE]
      /\ job' = [job EXCEPT !.cut = FALSE]
      /\ UNCHANGED <<sessions, live, states, retirement, chain, entry, readers, plugin>>
  BY DEF CutTail
<1>2. /\ disk'.log = disk.log /\ disk'.made = disk.made /\ ~disk'.torn
      /\ job'.does = job.does /\ job'.batch = job.batch
  BY <1>1 DEF Inv, TypeInv, Disks, Jobs
<1>3. FileInv' BY <1>1, <1>2 DEF FileInv
<1>4. OwnerInv'
  <2>1. ~states.tracked BY <1>1 DEF BatchInv
  <2> QED BY <1>1, <1>2, <2>1, Typed DEF OwnerInv, Untracked
<1>5. BatchInv'
  <2>1. Head1' = Head1 BY <1>1 DEF Head1
  <2> QED BY <1>1, <1>2, <2>1 DEF BatchInv
<1>6. ContentInv' BY <1>1, <1>2 DEF ContentInv
<1>7. BornInv' /\ ColdInv' BY <1>1, BornSame, ColdSame
<1>8. OrderInv' BY <1>1 DEF OrderInv
<1>9. EntryInv'
  <2>1. Growing' = Growing BY <1>2 DEF Growing
  <2> QED BY <1>1, <1>2, <2>1 DEF EntryInv
<1>10. CallInv' BY <1>1, <1>2 DEF CallInv
<1> QED BY <1>3, <1>4, <1>5, <1>6, <1>7, <1>8, <1>9, <1>10

\* The file with a batch behind it.
LEMMA Grown ==
  ASSUME Inv, disk'.log = disk.log \o job.batch
  PROVE  /\ Begins(disk.log, disk'.log) /\ Len(disk'.log) = Len(disk.log) + Len(job.batch)
         /\ Len(disk'.log) \in Nat /\ disk'.log \in Seq(Events)
         /\ \A i \in 1 .. Len(job.batch) : disk'.log[Len(disk.log) + i] = job.batch[i]
         /\ \A i \in 1 .. Len(disk'.log) : i \in 1 .. Len(disk.log) \/
              \E j \in 1 .. Len(job.batch) : i = Len(disk.log) + j
<1> DEFINE a == disk.log
           b == job.batch
           c == disk'.log
<1>1. a \in Seq(Events) /\ b \in Seq(Events) /\ Len(a) \in Nat /\ Len(b) \in Nat BY Typed
<1>2. c = a \o b OBVIOUS
<1> HIDE DEF a, b, c
<1>3. /\ c \in Seq(Events) /\ Len(c) = Len(a) + Len(b)
      /\ \A i \in 1 .. Len(a) + Len(b) : c[i] = IF i <= Len(a) THEN a[i] ELSE b[i - Len(a)]
  BY <1>1, <1>2, ConcatProperties
<1>4. \A i \in 1 .. Len(a) : c[i] = a[i] BY <1>1, <1>3
<1>5. \A i \in 1 .. Len(b) : c[Len(a) + i] = b[i] BY <1>1, <1>3
<1>6. \A i \in 1 .. Len(c) : i \in 1 .. Len(a) \/ \E j \in 1 .. Len(b) : i = Len(a) + j
  <2>1. ASSUME NEW i \in 1 .. Len(c), ~(i \in 1 .. Len(a))
        PROVE  i - Len(a) \in 1 .. Len(b) /\ i = Len(a) + (i - Len(a))
    BY <1>1, <1>3, <2>1
  <2> QED BY <2>1
<1>7. Begins(a, c) /\ Len(c) \in Nat BY <1>1, <1>3, <1>4 DEF Begins
<1> QED BY <1>3, <1>5, <1>6, <1>7 DEF a, b, c

LEMMA WriteBatchContent ==
  ASSUME Inv, Inv', Content, WriteBatch
  PROVE  Content'
<1> USE DEF Content
<1> DEFINE l == Head1.by
           m == Len(disk.log)
           n == Len(job.batch)
<1>1. /\ job.does \in {"append", "repair"} /\ ~Clobbers
      /\ disk' = [disk EXCEPT !.made = TRUE, !.log = @ \o job.batch]
      /\ job' = [job EXCEPT !.does = IF @ = "append" THEN "appended" ELSE "repaired"]
      /\ UNCHANGED <<sessions, live, states, retirement, chain, entry, readers, plugin>>
  BY DEF WriteBatch
<1>2. /\ disk'.log = disk.log \o job.batch /\ disk'.made /\ disk'.torn = disk.torn
      /\ job'.does = (IF job.does = "append" THEN "appended" ELSE "repaired")
      /\ job'.batch = job.batch
  BY <1>1 DEF Inv, TypeInv, Disks, Jobs
<1>3. /\ Begins(disk.log, disk'.log) /\ Len(disk'.log) = m + n /\ disk'.log \in Seq(Events)
      /\ \A i \in 1 .. n : disk'.log[m + i] = job.batch[i]
      /\ \A i \in 1 .. m + n : i \in 1 .. m \/ \E j \in 1 .. n : i = m + j
  BY <1>2, Grown
<1>4. m \in Nat /\ n \in Nat /\ disk.log \in Seq(Events) BY Typed
<1>5. Head1' = Head1 BY <1>1 DEF Head1
<1> HIDE DEF m, n
<1>6. BornInv' /\ ColdInv' BY <1>1, BornSame, ColdSame
<1>7. OrderInv' BY <1>1 DEF OrderInv
<1>8. ContentInv'
  <2>1. Len(disk.log) \in Nat /\ Len(disk'.log) \in Nat BY <1>3, <1>4 DEF m
  <2>2. /\ UNCHANGED <<live, sessions, plugin>>
        /\ \A k \in Lives : states.owner = k => states'.owner = k
        /\ \A k \in Lives : Len(sessions[k].log) \in Nat
    BY <1>1, Typed
  <2> QED BY <1>3, <2>1, <2>2, ContentKept
<1>9. EntryInv'
  <2>1. Growing = 0 /\ Growing' = (IF job.does = "append" THEN n ELSE 0)
    BY <1>1, <1>2 DEF Growing, n
  <2>2. entry.source \in Sources BY DEF Inv, TypeInv, Entries
  <2>3. \A s \in Sources : s.seen.log \in Seq(Events) BY DEF Sources, Disks, Logs
  <2>4. Len(entry.source.seen.log) \in Nat BY <2>2, <2>3, LenProperties
  <2> HIDE DEF Growing
  <2>5. Len(entry.source.seen.log) + Growing <= Len(disk.log) =>
          Len(entry.source.seen.log) + Growing' <= Len(disk'.log)
    <3>1. Len(disk'.log) = Len(disk.log) + n /\ Len(disk.log) \in Nat BY <1>3, <1>4 DEF m
    <3>2. Growing' \in {0, n} BY <2>1
    <3>3. \A a, b, c, d \in Nat : c \in {0, d} /\ a + 0 <= b => a + c <= b + d OBVIOUS
    <3>4. n \in Nat /\ Growing' \in Nat BY <1>4, <3>2
    <3> QED BY <2>1, <2>4, <3>1, <3>2, <3>3, <3>4
  <2> QED BY <1>1, <2>5 DEF EntryInv
\* the first event of a file stays
<1>10. ASSUME disk.made PROVE 1 \in 1 .. m /\ disk'.log[1] = disk.log[1]
  <2>1. disk.log # <<>> BY <1>10 DEF FileInv
  <2>2. Len(disk.log) # 0 BY <1>4, <2>1, EmptySeq
  <2>3. 1 \in 1 .. Len(disk.log) BY <1>4, <2>2 DEF m
  <2> QED BY <1>3, <2>3 DEF Begins, m
<1>11. CASE job.does = "append"
  <2>1. /\ states.owner = l /\ job.batch # <<>>
        /\ states.cursor + n <= Len(sessions[l].log)
        /\ \A i \in 1 .. n : job.batch[i] = sessions[l].log[states.cursor + i]
        /\ Head1.op = "write" => \A i \in DOMAIN live[l].w.active :
             live[l].w.active[i] <= states.cursor + n
    BY <1>11 DEF BatchInv, n
  <2>2. l \in Lives
    <3>1. chain # <<>> /\ Head1.op \in {"create", "suffix", "write"}
      BY <1>11 DEF Inv, JobInv
    <3> QED BY <3>1, HeadLife DEF LifeOps
  <2>3. states.owner # None /\ states.tracked /\ Begins(disk.log, sessions[l].log)
        /\ sessions[l].at # "unborn"
    BY <2>1, <2>2, LifeNumbers DEF OwnerInv
  <2>4. states.cursor = m
    <3>1. CASE states.made BY <1>11, <3>1 DEF OwnerInv, m
    <3>2. CASE ~states.made
      <4>1. ~disk.made BY <1>1, <1>11, <3>2 DEF Clobbers
      <4>2. disk.log = <<>> BY <4>1 DEF Inv, DiskInv
      <4>3. states.cursor = 0 BY <3>2 DEF OwnerInv
      <4>4. Len(disk.log) = 0 BY <1>4, <4>2, EmptySeq
      <4> QED BY <4>3, <4>4 DEF m
    <3> QED BY <3>1, <3>2
  <2>5. n # 0 BY <2>1, Typed, EmptySeq DEF n
  <2>6. FileInv'
    <3>1. disk'.log # <<>> /\ ~disk'.torn
      <4>1. Len(disk'.log) # 0 BY <1>3, <1>4, <2>5
      <4> QED BY <1>2, <1>3, <2>3, <4>1, EmptySeq DEF FileInv
    <3>2. ASSUME NEW k \in Lives, sessions[k].at = "unborn" PROVE disk'.log[1].by # k
      <4>1. CASE disk.made BY <1>10, <3>2, <4>1 DEF FileInv
      <4>2. CASE ~disk.made
        <5>1. m = 0 BY <1>4, <4>2, EmptySeq DEF Inv, DiskInv, m
        <5>2. 1 \in 1 .. n BY <1>4, <2>5
        <5>3. disk'.log[1] = sessions[l].log[1]
          <6>1. disk'.log[m + 1] = job.batch[1] BY <1>3, <5>2
          <6>2. job.batch[1] = sessions[l].log[states.cursor + 1] BY <2>1, <5>2
          <6> QED BY <2>4, <5>1, <6>1, <6>2
        <5>4. Len(sessions[l].log) # 0 BY <1>4, <2>1, <2>2, <2>4, <2>5, <5>1, Typed
        <5>5. sessions[l].log # <<>> BY <2>2, <5>4, Typed, EmptySeq
        <5> QED BY <2>2, <3>2, <5>3, <5>5 DEF FileInv
      <4> QED BY <4>1, <4>2
    <3>3. ASSUME NEW k \in Lives, NEW i \in 1 .. Len(sessions[k].log),
                 sessions[k].log[i].by = None
          PROVE  i <= Len(disk'.log)
      <4>1. i <= Len(disk.log) BY <3>3 DEF FileInv
      <4> QED BY <1>3, <1>4, <2>2, <3>3, <4>1, Typed DEF m
    <3> QED BY <1>1, <1>2, <3>1, <3>2, <3>3 DEF FileInv
  <2>7. OwnerInv'
    <3>1. Begins(disk'.log, sessions[l].log)
      <4>1. Len(disk'.log) <= Len(sessions[l].log) BY <1>3, <2>1, <2>4
      <4>2. ASSUME NEW i \in 1 .. Len(disk'.log) PROVE disk'.log[i] = sessions[l].log[i]
        <5>1. CASE i \in 1 .. m BY <1>3, <2>3, <5>1 DEF Begins, m
        <5>2. CASE \E j \in 1 .. n : i = m + j BY <1>3, <2>1, <2>4, <5>2
        <5> QED BY <1>3, <5>1, <5>2
      <4> QED BY <4>1, <4>2 DEF Begins
    <3> HIDE DEF l
    <3>2. states'.owner = l /\ states' = states /\ job'.does = "appended" /\ disk'.made
          /\ sessions' = sessions
      BY <1>1, <1>2, <1>11, <2>1
    <3> QED BY <2>3, <3>1, <3>2 DEF OwnerInv
  <2>8. BatchInv'
    <3>1. job'.does = "appended" /\ states'.cursor + Len(job'.batch) = Len(disk'.log)
      BY <1>1, <1>2, <1>3, <1>11, <2>4 DEF n
    <3> QED BY <1>1, <1>2, <1>5, <2>1, <3>1 DEF BatchInv, n
  <2>9. CallInv'
    <3>1. \A r \in Readers : readers[r].at # "held" BY <2>1, <2>2, NoneHeld
    <3> QED BY <1>1, <1>3, <3>1, CallsMove
  <2> QED BY <1>6, <1>7, <1>8, <1>9, <2>6, <2>7, <2>8, <2>9
<1>12. CASE job.does = "repair"
  <2>1. disk.made /\ ~states.tracked /\ readers[l].holds BY <1>12 DEF BatchInv
  <2>2. FileInv'
    <3>1. disk'.log # <<>>
      <4>1. Len(disk'.log) # 0 BY <1>3, <1>4, <1>10, <2>1
      <4> QED BY <1>3, <4>1, EmptySeq
    <3>2. ASSUME NEW k \in Lives, NEW i \in 1 .. Len(sessions[k].log),
                 sessions[k].log[i].by = None
          PROVE  i <= Len(disk'.log)
      <4>1. i <= Len(disk.log) BY <3>2 DEF FileInv
      <4>2. Len(sessions[k].log) \in Nat BY Typed
      <4> QED BY <1>3, <1>4, <4>1, <4>2 DEF m
    <3>3. disk'.log[1] = disk.log[1] BY <1>10, <2>1
    <3>4. live' = live BY <1>1
    <3>5. sessions' = sessions /\ disk'.torn = disk.torn /\ disk'.made /\ disk.made
          /\ ~states'.tracked
      BY <1>1, <1>2, <2>1
    <3>6. \A k \in Lives : sessions[k].at = "unborn" =>
            /\ disk'.log[1].by # k
            /\ \A j \in Lives : sessions[j].log # <<>> => sessions[j].log[1].by # k
      BY <2>1, <3>3 DEF FileInv
    <3>7. disk.torn => \A k \in Lives : Present(k) =>
            /\ disk'.log[1].by # k
            /\ sessions[k].log # <<>> => sessions[k].log[1].by = k
      BY <3>3 DEF FileInv
    <3>8. \A k \in Lives : sessions'[k].at = "unborn" =>
            /\ disk'.made => disk'.log[1].by # k
            /\ \A j \in Lives : sessions'[j].log # <<>> => sessions'[j].log[1].by # k
      BY <3>5, <3>6
    <3>9. disk'.torn => /\ disk'.made /\ ~states'.tracked
                        /\ \A k \in Lives : Present(k)' =>
                             /\ disk'.log[1].by # k
                             /\ sessions'[k].log # <<>> => sessions'[k].log[1].by = k
      BY <3>4, <3>5, <3>7 DEF Present
    <3>10. \A k \in Lives : \A i \in 1 .. Len(sessions'[k].log) :
             sessions'[k].log[i].by = None => i <= Len(disk'.log)
      BY <3>2, <3>5
    <3> QED BY <3>1, <3>8, <3>9, <3>10 DEF FileInv
  <2>3. OwnerInv'
    <3>1. states = Untracked BY <2>1 DEF OwnerInv
    <3>2. /\ states.owner = None /\ states.cursor = 0 /\ ~states.made /\ ~states.tracked
          /\ states' = states
      BY <1>1, <3>1 DEF Untracked
    <3> QED BY <3>1, <3>2 DEF OwnerInv
  <2>4. BatchInv' BY <1>1, <1>2, <1>5, <1>12, <2>1 DEF BatchInv
  <2>5. CallInv'
    <3>1. \A r \in Readers : readers[r].at # "held" BY <1>12, Repairer, HolderPhase
    <3> QED BY <1>1, <1>3, <3>1, CallsMove
  <2> QED BY <1>6, <1>7, <1>8, <1>9, <2>2, <2>3, <2>4, <2>5
<1> QED BY <1>1, <1>11, <1>12

\* Everyone loses the entry; a caller that was to commit it knows less than the file.
LEMMA ReleasedCalls ==
  ASSUME Inv, Content, disk' = disk, NEW r \in Readers, NEW c,
         \/ readers' = Released(readers)
         \/ /\ readers' = [Released(readers) EXCEPT ![r] = c]
            /\ Call(c, entry', disk'.log, states', live', sessions') /\ ~Holder(c),
         \A q \in Readers :
           Holder(readers[q]) /\ (q # r \/ readers' = Released(readers)) =>
             readers[q].at = "commit" /\ Len(readers[q].source.seen.log) < Len(disk.log),
         \A q \in Readers : readers[q].at = "live" => Waits(readers[q], live', sessions')
  PROVE  CallInv'
<1>1. ASSUME NEW q \in Readers, readers'[q] = [readers[q] EXCEPT !.holds = FALSE],
             Holder(readers[q]) =>
               readers[q].at = "commit" /\ Len(readers[q].source.seen.log) < Len(disk.log)
      PROVE  Call(readers'[q], entry', disk'.log, states', live', sessions')
             /\ ~Holder(readers'[q])
  <2> DEFINE d == readers'[q]
             b == readers[q]
  <2>1. /\ d.at = b.at /\ d.holds = FALSE /\ d.call = b.call /\ d.of = b.of
        /\ d.source = b.source
    BY <1>1, Callers DEF CallRecs
  <2>2. Call(b, entry, disk.log, states, live, sessions) BY HolderPhase
  <2>3. b.at # "held" BY <1>1, HolderPhase
  <2>4. b.at = "commit" => Len(b.source.seen.log) < Len(disk.log)
    BY <1>1, <2>2 DEF Call, Holder, Taken
  <2>5. b.at = "live" => Waits(b, live', sessions') OBVIOUS
  <2> HIDE DEF d, b
  <2>6. d.at = "live" => Waits(d, live', sessions') BY <2>1, <2>5 DEF Waits
  <2>7. ~Holder(d) BY <2>1 DEF Holder
  <2>8. Call(d, entry', disk'.log, states', live', sessions')
    BY <2>1, <2>2, <2>3, <2>4, <2>6, <2>7 DEF Call
  <2> QED BY <2>7, <2>8 DEF d
<1>2. ASSUME NEW q \in Readers
      PROVE  Call(readers'[q], entry', disk'.log, states', live', sessions')
             /\ ~Holder(readers'[q])
  <2>1. Released(readers)[q] = [readers[q] EXCEPT !.holds = FALSE] BY DEF Released
  <2>2. q \in DOMAIN Released(readers) BY DEF Released
  <2>3. CASE readers' = Released(readers) BY <1>1, <2>1, <2>3
  <2>4. CASE readers' = [Released(readers) EXCEPT ![r] = c] /\ readers' # Released(readers)
    <3>1. CASE q = r BY <2>2, <2>4, <3>1
    <3>2. CASE q # r
      <4>1. readers'[q] = [readers[q] EXCEPT !.holds = FALSE] BY <2>1, <2>2, <2>4, <3>2
      <4> QED BY <1>1, <3>2, <4>1
    <3> QED BY <3>1, <3>2
  <2> QED BY <2>3, <2>4
<1> QED BY <1>2 DEF CallInv

\* A repair is over, one way or the other.
LEMMA RepairOver ==
  ASSUME Inv, Inv', Content, job.does \in {"repair", "repaired"},
         chain' = Pop, job' = NoJob, entry' = NoEntry,
         NEW c, readers' = [Released(readers) EXCEPT ![Head1.by] = c],
         c.at \in {"idle", "wait"}, ~c.holds,
         UNCHANGED <<disk, sessions, live, states, retirement, plugin>>
  PROVE  Content'
<1> USE DEF Content
<1> DEFINE r == Head1.by
<1>1. r \in Readers /\ Holder(readers[r]) /\ entry.phase = "committing" /\ job # NoJob
  BY Repairer DEF NoJob
<1>2. chain # <<>> /\ Head1.op = "commit" BY DEF Inv, JobInv
<1>3. entry'.phase = "none" BY DEF NoEntry
<1>4. SameOps(chain, chain')
  BY <1>2, Typed, PopSame DEF Pop, Head1, LifeSteps, Starters
<1>5. SameSteps(chain, chain') /\ OneFetch(chain') /\ ~SomeFetch(chain')
  BY <1>1, <1>4, OpsSame
<1>6. FileInv' BY FileSame DEF Present
<1>7. OwnerInv' BY Typed DEF OwnerInv, NoJob
<1>8. BatchInv' BY DEF BatchInv, NoJob
<1>9. ContentInv' BY DEF ContentInv
<1>10. BornInv' /\ ColdInv' BY <1>3, BornSame, ColdSame
<1>11. OrderInv' BY <1>5, OrderSame
<1>12. EntryInv' BY <1>3 DEF EntryInv, NoEntry
<1>13. CallInv'
  <2>1. Call(c, entry', disk'.log, states', live', sessions') /\ ~Holder(c) BY CallIdle
  <2>2. \A q \in Readers : Holder(readers[q]) => q = r BY <1>1 DEF CallInv
  <2>3. readers'[r] = c BY <1>1 DEF Released
  <2>4. readers' # Released(readers)
    <3>1. Released(readers)[r] = [readers[r] EXCEPT !.holds = FALSE] BY <1>1 DEF Released
    <3>2. Released(readers)[r].at = readers[r].at BY <1>1, <3>1, Callers DEF CallRecs
    <3> QED BY <1>1, <2>3, <3>2 DEF Holder, Taken
  <2>5. ASSUME NEW q \in Readers, readers[q].at = "live"
        PROVE  Waits(readers[q], live', sessions')
    <3>1. Waits(readers[q], live, sessions) BY <2>5, HolderPhase DEF Call
    <3> QED BY <3>1
  <2> QED BY <1>1, <2>1, <2>2, <2>3, <2>4, <2>5, ReleasedCalls
<1> QED BY <1>6, <1>7, <1>8, <1>9, <1>10, <1>11, <1>12, <1>13

LEMMA JobFailsContent ==
  ASSUME Inv, Inv', Content, JobFails
  PROVE  Content'
<1> DEFINE x == Head1.by
<1>1. /\ Fault \/ Clobbers
      /\ chain' = Pop /\ job' = NoJob
      /\ UNCHANGED <<disk, sessions, states, retirement, plugin>>
  BY DEF JobFails
<1>2. /\ job # NoJob /\ (job.does = "appended" => ~states.made)
      /\ job.does # "repaired"
  BY <1>1 DEF Fault, Clobbers, NoJob
<1>3. /\ chain # <<>> /\ Head1.op \in {"create", "suffix", "write", "commit"}
      /\ Head1.op = "commit" => job.does \in {"repair", "repaired"}
      /\ Head1.op # "commit" => job.does \in {"append", "appended"}
  BY <1>2, JobHead
<1>4. CASE Head1.op = "write"
  <2> DEFINE v == [live[x] EXCEPT !.w = Failed(live[x].w)]
  <2>1. live' = With(x, Failed(live[x].w)) /\ UNCHANGED <<entry, readers>>
    BY <1>4 DEF JobFails
  <2>2. live' = [live EXCEPT ![x] = v] BY <2>1 DEF With
  <2>3. x \in Lives /\ Stands(Head1, live, sessions, readers)
    BY <1>3, <1>4, HeadLife DEF LifeOps
  <2>4. live[x].init = "ok" BY <1>4, <2>3 DEF Stands
  <2>5. live[x] \in LiveRecs /\ WellFormed(live[x].w)
    BY <2>3, Typed DEF Inv, LivesInv, Queues
  <2>6. Safe(live[x], sessions[x], plugin = "on", disk.log)
    BY <2>3 DEF Content, ContentInv
  <2>7. /\ v \in LiveRecs /\ v.init = live[x].init /\ v.flush = live[x].flush
        /\ v.upto = live[x].upto /\ Safe(v, sessions[x], plugin = "on", disk.log)
    BY <2>4, <2>5, <2>6, FailedSafe
  <2> HIDE DEF v
  <2> QED BY <1>1, <1>2, <1>3, <1>4, <2>1, <2>2, <2>4, <2>7, WriteOver
<1>5. CASE Head1.op \in Starters
  <2>1. live' = Initialized(x, "broken") /\ UNCHANGED <<entry, readers>>
    BY <1>5 DEF JobFails, Starters
  <2>2. states.owner = x BY <1>3, <1>5 DEF Content, BatchInv, Starters
  <2> QED BY <1>1, <1>2, <1>3, <1>5, <2>1, <2>2, StartFails
<1>6. CASE Head1.op = "commit"
  <2>1. x \in Readers /\ readers[x].holds BY <1>3, <1>6, Repairer
  <2>2. entry' = NoEntry /\ readers' = Over(Released(readers), x) /\ UNCHANGED live
    BY <1>6, <2>1 DEF JobFails
  <2>3. readers' = [Released(readers) EXCEPT ![x] = NoCall] BY <2>2 DEF Over
  <2> QED BY <1>1, <1>3, <1>6, <2>2, <2>3, IdleFields, RepairOver
<1> QED BY <1>3, <1>4, <1>5, <1>6 DEF Starters

LEMMA CommitRepairedContent ==
  ASSUME Inv, Inv', Content, CommitRepaired
  PROVE  Content'
<1> DEFINE r == Head1.by
<1>1. /\ job.does = "repaired"
      /\ readers' = Back(Orphaned(r, readers), r) /\ entry' = Removed(r)
      /\ chain' = Pop /\ job' = NoJob
      /\ UNCHANGED <<disk, sessions, live, states, retirement, plugin>>
  BY DEF CommitRepaired
<1>2. readers[r].holds BY <1>1, Repairer
<1>3. entry' = NoEntry /\ readers' = Back(Released(readers), r)
  BY <1>1, <1>2 DEF Removed, Orphaned
<1> DEFINE c == [NoCall EXCEPT !.at = "wait", !.call = Released(readers)[r].call]
<1>4. readers' = [Released(readers) EXCEPT ![r] = c] BY <1>3 DEF Back
<1>5. c.at = "wait" /\ c.holds = FALSE BY IdleFields
<1> HIDE DEF c
<1> QED BY <1>1, <1>3, <1>4, <1>5, RepairOver

\* What a life answers for once its seed is stored.
LEMMA SeedSafe ==
  ASSUME NEW v, NEW u, NEW s, NEW on, NEW stored, Safe(v, s, on, stored),
         v.init = "pending", u.init = "ok", u.w = v.w, u.flush = v.flush, u.upto = v.upto,
         Begins(stored, s.log), s.born <= Len(stored),
         Len(stored) \in Nat, Len(s.log) \in Nat, s.born \in Nat
  PROVE  Safe(u, s, on, stored)
<1>1. Claims(u, s, on) = Claims(v, s, on) BY DEF Claims
<1>2. ASSUME NEW n \in Claims(v, s, on), n <= s.born PROVE Kept(s, n, stored)
  <2>1. n \in 1 .. Len(s.log) BY DEF Claims
  <2>2. n \in 1 .. Len(stored) BY <1>2, <2>1
  <2>3. stored[n] = s.log[n] BY <2>2 DEF Begins
  <2> QED BY <2>2, <2>3 DEF Kept
<1>3. \A n : IsHeld(u.w, n) <=> IsHeld(v.w, n) OBVIOUS
<1>4. \A n \in Claims(v, s, on) : n <= s.born \/ IsHeld(v.w, n) BY DEF Safe
<1>5. \A n \in Claims(u, s, on) : Kept(s, n, stored) \/ IsHeld(u.w, n)
  BY <1>1, <1>2, <1>3, <1>4
<1>6. u.flush \in Flushing => u.upto <= Len(s.log) BY DEF Safe
<1> QED BY <1>5, <1>6 DEF Safe

\* The part of the owner's log that the file has is stored.
LEMMA ActiveNumbers ==
  ASSUME Inv, NEW l \in Lives
  PROVE  LET a == live[l].w.active
         IN  /\ a \in Seq(Nat) /\ Len(a) \in Nat /\ DOMAIN a = 1 .. Len(a)
             /\ \A i \in 1 .. Len(a) : a[i] \in 1 .. Len(sessions[l].log)
<1> DEFINE a == live[l].w.active
           p == live[l].w.pending
<1>1. live[l] \in LiveRecs /\ Queues(live[l], sessions[l], plugin = "on")
  BY Typed DEF Inv, LivesInv
<1>2. a \in Seq(Nat) /\ p \in Seq(Nat) /\ Len(a) \in Nat /\ Len(p) \in Nat
      /\ DOMAIN a = 1 .. Len(a)
  BY <1>1, LiveParts, LenProperties
<1>3. Held(live[l].w) = a \o p BY DEF Held
<1>4. \A i \in 1 .. Len(Held(live[l].w)) : Held(live[l].w)[i] \in 1 .. Len(sessions[l].log)
  BY <1>1 DEF Queues
<1> HIDE DEF a, p
<1>5. /\ Len(a \o p) = Len(a) + Len(p)
      /\ \A i \in 1 .. Len(a) : (a \o p)[i] = a[i]
      /\ \A i \in 1 .. Len(a) : i \in 1 .. Len(a \o p)
  BY <1>2, ConcatProperties
<1>6. \A i \in 1 .. Len(a) : a[i] \in 1 .. Len(sessions[l].log) BY <1>3, <1>4, <1>5
<1> QED BY <1>2, <1>6 DEF a

LEMMA AppendedContent ==
  ASSUME Inv, Inv', Content, Appended
  PROVE  Content'
<1> USE DEF Content
<1> DEFINE l == Head1.by
           n == Len(job.batch)
           m == Len(disk.log)
           on == plugin = "on"
<1>1. /\ job.does = "appended"
      /\ states' = [states EXCEPT !.made = TRUE, !.cursor = @ + n]
      /\ live' = IF Head1.op = "write" THEN With(l, Landed(live[l].w))
                 ELSE Initialized(l, "ok")
      /\ entry' = NoEntry /\ readers' = Released(readers)
      /\ chain' = Enlist(l, live', Orphan(Pop)) /\ job' = NoJob
      /\ UNCHANGED <<disk, sessions, retirement, plugin>>
  BY DEF Appended
<1>2. /\ chain # <<>> /\ Head1.op \in {"create", "suffix", "write"}
      /\ Head1.op \in Starters => sessions[l].born <= states.cursor + n
  BY <1>1 DEF Inv, JobInv, Covers, Starters
<1>3. /\ l \in Lives /\ Stands(Head1, live, sessions, readers) /\ live[l] \in LiveRecs
      /\ sessions[l].at # "unborn"
  BY <1>2, HeadLife DEF LifeOps
<1>4. /\ states.owner = l /\ job.batch # <<>> /\ states.cursor + n = m /\ disk.made
      /\ Head1.op = "write" => \A i \in DOMAIN live[l].w.active :
           live[l].w.active[i] <= m
  BY <1>1 DEF BatchInv
<1>5. /\ n \in Nat /\ m \in Nat /\ n # 0 /\ states \in StateRecs /\ states.cursor \in Nat
      /\ Len(sessions[l].log) \in Nat /\ sessions[l].born \in Nat
  BY <1>3, <1>4, Typed, EmptySeq
<1>6. states'.owner = l /\ states'.made /\ states'.cursor = m /\ states'.tracked = states.tracked
  BY <1>1, <1>4, <1>5 DEF StateRecs
<1>7. states.tracked /\ Begins(disk.log, sessions[l].log)
  BY <1>3, <1>4, LifeNumbers DEF OwnerInv
<1>8. Pop \in Seq(OpRecs) /\ Orphan(Pop) \in Seq(OpRecs)
      /\ SameOps(Pop, Orphan(Pop)) /\ ~SomeFetch(Orphan(Pop))
  <2>1. Pop \in Seq(OpRecs) BY <1>2, Typed, Popped DEF Pop
  <2>2. Sound(Pop, live, sessions, readers)
    BY <1>2, Typed, PopSound DEF Inv, ChainInv, Pop
  <2> QED BY <2>1, <2>2, OrphanSound, OrphanSame
<1>9. SameOps(Pop, chain') /\ ~SomeFetch(chain')
  <2>1. SameOps(Orphan(Pop), chain')
    <3> HIDE DEF l
    <3> QED BY <1>1, <1>3, <1>8, EnlistSame
  <2> QED BY <1>8, <2>1, SameTrans DEF SameOps
<1>10. \A k \in Lives : ~Among(OpOf("suffix", k), Pop)
  <2> SUFFICES ASSUME NEW k \in Lives, Among(OpOf("suffix", k), Pop) PROVE FALSE OBVIOUS
  <2>1. Among(OpOf("suffix", k), chain) BY <1>2, Typed, Popped DEF Pop
  <2>2. k = l BY <1>4, <2>1 DEF OrderInv
  <2>3. PICK i \in DOMAIN Pop : Pop[i] = OpOf("suffix", k) BY DEF Among
  <2>4. ~Kin(Pop[i], chain[1])
    BY <1>2, Typed, PopSound DEF Inv, ChainInv, Pop
  <2> QED BY <1>2, <2>2, <2>3, <2>4 DEF Kin, OpOf, Head1, LifeOps
<1>11. /\ \A k \in Lives \ {l} : live'[k] = live[k]
       /\ live'[l].flush = live[l].flush /\ live'[l].upto = live[l].upto
       /\ live'[l].init = "ok" /\ live[l].init # "none"
       /\ Head1.op = "write" => live[l].init = "ok"
       /\ Safe(live'[l], sessions[l], on, disk.log)
  <2>1. Safe(live[l], sessions[l], on, disk.log) BY <1>3 DEF ContentInv
  <2>2. CASE Head1.op = "write"
    <3> DEFINE v == [live[l] EXCEPT !.w = Landed(live[l].w)]
               a == live[l].w.active
    <3>1. live[l].init = "ok" /\ WellFormed(live[l].w)
      BY <1>3, <2>2 DEF Stands, Inv, LivesInv, Queues
    <3>2. /\ Len(a) \in Nat /\ DOMAIN a = 1 .. Len(a)
          /\ \A i \in 1 .. Len(a) : a[i] \in 1 .. Len(sessions[l].log)
      BY <1>3, ActiveNumbers
    <3>3. \A i \in 1 .. Len(a) : a[i] \in 1 .. m
      <4>1. \A i \in 1 .. Len(a) : a[i] <= m BY <1>4, <2>2, <3>2
      <4>2. \A i \in 1 .. Len(a) : a[i] \in Nat /\ 1 <= a[i] BY <1>5, <3>2
      <4> HIDE DEF a, m
      <4> QED BY <1>5, <4>1, <4>2 DEF m
    <3>4. \A i \in 1 .. Len(a) : Kept(sessions[l], a[i], disk.log)
      BY <1>3, <1>4, <3>3, StoredKept
    <3>5. /\ v \in LiveRecs /\ v.init = live[l].init /\ v.flush = live[l].flush
          /\ v.upto = live[l].upto /\ Safe(v, sessions[l], on, disk.log)
      BY <1>3, <2>1, <3>1, <3>4, LandedSafe
    <3>6. live' = [live EXCEPT ![l] = v] BY <1>1, <2>2 DEF With
    <3> HIDE DEF v
    <3>7. live'[l] = v /\ \A k \in Lives \ {l} : live'[k] = live[k]
      BY <1>3, <3>6 DEF Inv, TypeInv
    <3> QED BY <3>1, <3>5, <3>7
  <2>3. CASE Head1.op \in Starters
    <3>1. live' = Initialized(l, "ok") BY <1>1, <2>3 DEF Starters
    <3>2. /\ live[l].init = "pending" /\ live'[l].init = "ok" /\ live'[l].w = live[l].w
          /\ live'[l].flush = live[l].flush /\ live'[l].upto = live[l].upto
          /\ \A k \in Lives \ {l} : live'[k] = live[k]
      BY <1>2, <2>3, <3>1, Starter
    <3>3. sessions[l].born <= Len(disk.log) BY <1>2, <1>4, <2>3
    <3>4. Safe(live'[l], sessions[l], on, disk.log)
      <4> HIDE DEF on, l
      <4> QED BY <1>5, <1>7, <2>1, <3>2, <3>3, SeedSafe
    <3>5. Head1.op # "write" BY <2>3 DEF Starters
    <3> QED BY <3>2, <3>4, <3>5
  <2> QED BY <1>2, <2>2, <2>3 DEF Starters
<1>12. FileInv'
  <2>1. ~disk.torn BY <1>7 DEF FileInv
  <2>2. \A k \in Lives : live'[k].init # "none" => live[k].init # "none" BY <1>11
  <2> QED BY <1>1, <2>1, <2>2, FileFree
<1>13. OwnerInv'
  <2>1. UNCHANGED <<disk, sessions>> /\ states'.tracked /\ l # None
    BY <1>1, <1>3, <1>6, <1>7, LifeNumbers
  <2> HIDE DEF l
  <2> QED BY <1>3, <1>4, <1>6, <1>7, <2>1 DEF OwnerInv
<1>14. BatchInv' BY <1>1 DEF BatchInv, NoJob
<1>15. ContentInv'
  <2>1. Owns(live'[l], sessions[l], states'.owner = l) BY <1>6 DEF Owns
  <2>2. UNCHANGED <<disk, sessions, plugin>> /\ states'.owner = states.owner
    BY <1>1, <1>4, <1>6
  <2> QED BY <1>3, <1>11, <2>1, <2>2, ContentStep
<1>16. BornInv' /\ OrderInv' /\ ColdInv'
  <2>1. entry'.phase = "none" BY <1>1 DEF NoEntry
  <2>2. CASE Head1.op \in Starters
    <3>1. live' = Initialized(l, "ok") BY <1>1, <2>2 DEF Starters
    <3> QED BY <1>1, <1>2, <1>9, <1>10, <2>1, <2>2, <3>1, Begun
  <2>3. CASE Head1.op = "write"
    <3>1. \A k \in Lives : live'[k].init = live[k].init /\ live'[k].flush = live[k].flush
      BY <1>11, <2>3
    <3>2. BornInv' /\ ColdInv' BY <1>1, <2>1, <3>1, BornSame, ColdSame
    <3>3. SameOps(chain, chain')
      <4>1. SameOps(chain, Pop)
        BY <1>2, <2>3, Typed, PopSame DEF Pop, Head1, LifeSteps, Starters
      <4> QED BY <1>9, <4>1, SameTrans
    <3>4. \A k \in Lives : ~Among(OpOf("suffix", k), chain')
      BY <1>9, <1>10 DEF SameOps, SameSteps, LifeSteps, Starters
    <3>5. OrderInv'
      <4>1. SameSteps(chain, chain') /\ OneFetch(chain') BY <3>3, OpsSame
      <4>2. Ordered(chain') BY <4>1 DEF SameSteps, OrderInv
      <4>3. \A k \in Lives : \A op \in LifeSteps :
              Among(OpOf(op, k), chain') <=> Among(OpOf(op, k), chain)
        BY <4>1 DEF SameSteps
      <4>4. \A op \in Starters : op \in LifeSteps BY DEF LifeSteps
      <4>5. \A k \in Lives : live'[k].init = "pending" =>
              \E op \in Starters : Among(OpOf(op, k), chain')
        BY <3>1, <4>3, <4>4 DEF OrderInv
      <4>6. \A k \in Lives : plugin = "on" /\ Among(OpOf("retire", k), chain') =>
              live'[k].flush = "no"
        BY <3>1, <4>3 DEF OrderInv, LifeSteps
      <4> QED BY <1>1, <1>9, <3>4, <4>1, <4>2, <4>5, <4>6 DEF OrderInv
    <3> QED BY <3>2, <3>5
  <2> QED BY <1>2, <2>2, <2>3 DEF Starters
<1>17. EntryInv' BY <1>1 DEF EntryInv, NoEntry
<1>18. CallInv'
  <2>1. CASE Readers = {} BY <2>1 DEF CallInv
  <2>2. ASSUME NEW r \in Readers PROVE CallInv'
    <3>1. ASSUME NEW q \in Readers, Holder(readers[q])
          PROVE  readers[q].at = "commit"
                 /\ Len(readers[q].source.seen.log) < Len(disk.log)
      <4>1. readers[q].at = "commit" BY <1>3, <1>4, <3>1, NoneHeld DEF Holder, Taken
      <4>2. readers[q].source = entry.source /\ entry.phase = "committing"
        BY <3>1, <4>1, HolderPhase DEF Call, Holder
      <4>3. Len(entry.source.seen.log) + n <= Len(disk.log)
        BY <1>1, <4>2 DEF EntryInv, Growing
      <4>4. Len(readers[q].source.seen.log) \in Nat BY Callers
      <4> DEFINE k == Len(readers[q].source.seen.log)
      <4>5. k \in Nat /\ k + n <= m BY <4>2, <4>3, <4>4
      <4>6. k < m
        <5> HIDE DEF k, m, n
        <5> QED BY <1>5, <4>5
      <4> QED BY <4>1, <4>6
    <3>2. ASSUME NEW q \in Readers, readers[q].at = "live"
          PROVE  Waits(readers[q], live', sessions')
      <4>1. Waits(readers[q], live, sessions) BY <3>2, HolderPhase DEF Call
      <4>2. \A k \in Lives : live'[k].flush = live[k].flush /\ live'[k].upto = live[k].upto
        BY <1>11
      <4> QED BY <1>1, <4>1, <4>2 DEF Waits
    <3> QED BY <1>1, <3>1, <3>2, ReleasedCalls
  <2> QED BY <2>1, <2>2
<1> QED BY <1>12, <1>13, <1>14, <1>15, <1>16, <1>17, <1>18

-----------------------------------------------------------------------------
(* Commits.                                                                *)

\* A log that needs no closers is balanced.
LEMMA NoClosers ==
  ASSUME NEW log, InterruptedTurnClosers(log) = <<>>
  PROVE  Balanced(log)
<1> SUFFICES ASSUME ~Balanced(log) PROVE FALSE OBVIOUS
<1> DEFINE e(kind) == [kind |-> kind, by |-> None]
           x == IF PendingCall(log) THEN <<e("result")>> ELSE <<>>
           y == IF OpenStep(log) THEN <<e("stepEnd")>> ELSE <<>>
           z == <<e("turnEnd")>>
           E == {e("result"), e("stepEnd"), e("turnEnd")}
<1>1. InterruptedTurnClosers(log) = x \o y \o z
  BY DEF InterruptedTurnClosers, Closer
<1>2. <<>> \in Seq(E) BY EmptySeq
<1>3. /\ <<e("result")>> \in Seq(E) /\ <<e("stepEnd")>> \in Seq(E)
      /\ z \in Seq(E) /\ Len(z) = 1
  <2>1. e("result") \in E /\ e("stepEnd") \in E /\ e("turnEnd") \in E OBVIOUS
  <2> HIDE DEF e, E
  <2> QED BY <2>1
<1> HIDE DEF e, E
<1>4. x \in Seq(E) /\ y \in Seq(E) BY <1>2, <1>3
<1> HIDE DEF x, y, z
<1>5. x \o y \in Seq(E) BY <1>4, ConcatProperties
<1> DEFINE w == x \o y
<1>6. w \in Seq(E) /\ w \o z = <<>> BY <1>1, <1>5
<1> HIDE DEF w
<1>7. Len(w \o z) = Len(w) + Len(z) /\ Len(w) \in Nat
  BY <1>3, <1>6, ConcatProperties, LenProperties
<1>8. Len(w \o z) = 0 BY <1>6, EmptySeq
<1> QED BY <1>3, <1>7, <1>8

\* What a sequence gets no longer by is empty.
LEMMA AddsNothing ==
  ASSUME NEW a \in Seq(Events), NEW b \in Seq(Events), Len(a \o b) <= Len(a)
  PROVE  b = <<>> /\ a \o b = a
<1>1. Len(a) \in Nat /\ Len(b) \in Nat /\ Len(a \o b) = Len(a) + Len(b)
  BY ConcatProperties, LenProperties
<1>2. Len(b) = 0 BY <1>1
<1>3. b = <<>> BY <1>2, EmptySeq
<1> QED BY <1>3, ConcatEmptySeq

\* The caller that commits: it holds the entry, or its source is behind the file.
LEMMA Committer ==
  ASSUME Inv, Content, Starts("commit")
  PROVE  LET r == Head1.by
             s == readers[r].source
         IN  /\ chain # <<>> /\ job = NoJob /\ Head1.op = "commit"
             /\ r \in Readers /\ readers[r].at = "commit" /\ plugin = "on"
             /\ s.log \in Seq(Events)
             /\ SameOps(chain, Pop)
             /\ readers[r].holds => Holder(readers[r]) /\ entry.phase = "committing"
                  /\ \A q \in Readers : Holder(readers[q]) => q = r
             /\ s.seen = disk =>
                  /\ readers[r].holds /\ s = entry.source /\ disk.made
                  /\ s.log = Stored(disk) \o InterruptedTurnClosers(Stored(disk))
<1> DEFINE r == Head1.by
           s == readers[r].source
<1>1. chain # <<>> /\ job = NoJob /\ Head1.op = "commit" BY DEF Starts, Running
<1>2. r \in Readers /\ readers[r].at = "commit" /\ plugin = "on"
  BY <1>1, CallerPopped DEF ReaderOps
<1>3. SameOps(chain, Pop)
  BY <1>1, Typed, PopSame DEF Pop, Head1, LifeSteps, Starters
<1>4. s.log \in Seq(Events) BY <1>2, Callers
<1>5. readers[r].holds => Holder(readers[r]) /\ entry.phase = "committing"
        /\ \A q \in Readers : Holder(readers[q]) => q = r
  BY <1>2, HolderPhase DEF Content, CallInv
<1>6. ASSUME s.seen = disk
      PROVE  /\ readers[r].holds /\ s = entry.source /\ disk.made
             /\ s.log = Stored(disk) \o InterruptedTurnClosers(Stored(disk))
  <2>1. Call(readers[r], entry, disk.log, states, live, sessions) BY <1>2, HolderPhase
  <2>2. readers[r].holds
    <3>1. ~(Len(disk.log) < Len(disk.log)) BY Typed
    <3> QED BY <1>2, <1>6, <2>1, <3>1 DEF Call
  <2>3. s = entry.source /\ entry.phase = "committing" BY <1>5, <2>1, <2>2 DEF Call
  <2>4. WellRead(entry.source) BY <2>3 DEF Content, EntryInv
  <2> HIDE DEF s
  <2>5. s.seen.made /\ s.log = Stored(s.seen) \o InterruptedTurnClosers(Stored(s.seen))
    BY <2>3, <2>4 DEF WellRead
  <2> QED BY <1>6, <2>2, <2>3, <2>5 DEF s
<1> QED BY <1>1, <1>2, <1>3, <1>4, <1>5, <1>6

\* It is refused or reads again.
LEMMA CommitGone ==
  ASSUME Inv, Inv', Content, Starts("commit"), NEW c, c.at \in {"idle", "wait"}, ~c.holds,
         chain' = Pop, entry' = Removed(Head1.by),
         readers' = [Orphaned(Head1.by, readers) EXCEPT ![Head1.by] = c],
         UNCHANGED <<disk, sessions, live, states, retirement, job, plugin>>
  PROVE  Content'
<1> DEFINE r == Head1.by
<1>1. /\ job = NoJob /\ r \in Readers /\ readers[r].at = "commit" /\ SameOps(chain, Pop)
      /\ readers[r].holds => entry.phase = "committing"
           /\ \A q \in Readers : Holder(readers[q]) => q = r
  BY Committer
<1>2. Call(c, entry', disk'.log, states', live', sessions') /\ ~Holder(c) BY CallIdle
<1>3. /\ SameSteps(chain, chain') /\ OneFetch(chain')
      /\ SomeFetch(chain') => entry.phase = "loading"
  BY <1>1, OpsSame
<1>4. job.does \notin {"repair", "repaired"} BY <1>1 DEF NoJob
<1> HIDE DEF r
<1>5. CASE readers[r].holds
  <2>1. entry' = NoEntry /\ entry'.phase = "none" BY <1>5 DEF Removed, NoEntry, r
  <2>2. readers' = [Released(readers) EXCEPT ![r] = c] BY <1>5 DEF Orphaned, r
  <2>3. readers' # Released(readers)
    <3>1. Released(readers)[r] = [readers[r] EXCEPT !.holds = FALSE] BY <1>1 DEF Released
    <3>2. Released(readers)[r].at = "commit" BY <1>1, <3>1, Callers DEF CallRecs
    <3>3. readers'[r] = c BY <1>1, <2>2 DEF Released
    <3> QED BY <3>2, <3>3
  <2>4. CallInv'
    <3>1. UNCHANGED <<disk, sessions, live, states>> OBVIOUS
    <3>2. Call(c, entry', disk.log, states, live, sessions) BY <1>2
    <3> QED BY <1>1, <1>2, <1>5, <2>2, <2>3, <3>1, <3>2, EveryoneReleased
  <2>5. EntryInv' BY <2>1, EntrySame DEF Content
  <2>6. ~SomeFetch(chain') BY <1>1, <1>3, <1>5
  <2> QED BY <1>1, <1>3, <1>4, <2>1, <2>4, <2>5, <2>6, CallersStep
<1>6. CASE ~readers[r].holds
  <2>1. entry' = entry /\ readers' = [readers EXCEPT ![r] = c]
    BY <1>6 DEF Removed, Orphaned, r
  <2>2. Call(c, entry', disk.log, states, live, sessions) BY <1>2
  <2>3. CallInv' BY <1>1, <1>2, <2>1, <2>2, OneCaller
  <2>4. EntryInv' BY <2>1 DEF Content, EntryInv, Growing
  <2> QED BY <1>1, <1>3, <1>4, <2>1, <2>3, <2>4, CallersStep
<1> QED BY <1>5, <1>6

LEMMA CommitContent ==
  ASSUME Inv, Inv', Content, Commit
  PROVE  Content'
<1> USE DEF Content
<1> DEFINE r == Head1.by
           s == readers[r].source
           repairs == s.seen.torn \/ Len(s.log) > Len(Stored(s.seen))
<1>1. Starts("commit") /\ UNCHANGED <<disk, sessions, live, retirement, plugin>>
  BY DEF Commit
<1>2. /\ chain # <<>> /\ job = NoJob /\ Head1.op = "commit"
      /\ r \in Readers /\ readers[r].at = "commit" /\ plugin = "on"
      /\ s.log \in Seq(Events) /\ SameOps(chain, Pop)
      /\ readers[r].holds => Holder(readers[r]) /\ entry.phase = "committing"
           /\ \A q \in Readers : Holder(readers[q]) => q = r
      /\ s.seen = disk =>
           /\ readers[r].holds /\ s = entry.source /\ disk.made
           /\ s.log = Stored(disk) \o InterruptedTurnClosers(Stored(disk))
  BY <1>1, Committer
<1>3. CASE states.owner # None /\ entry' = Removed(r)
           /\ readers' = Over(Orphaned(r, readers), r) /\ chain' = Pop /\ UNCHANGED <<states, job>>
  <2>1. readers' = [Orphaned(r, readers) EXCEPT ![r] = NoCall] BY <1>3 DEF Over
  <2> QED BY <1>1, <1>3, <2>1, IdleFields, CommitGone
<1>4. CASE entry' = Removed(r) /\ readers' = Back(Orphaned(r, readers), r)
           /\ chain' = Pop /\ UNCHANGED <<states, job>>
  <2> DEFINE c == [NoCall EXCEPT !.at = "wait", !.call = Orphaned(r, readers)[r].call]
  <2>1. readers' = [Orphaned(r, readers) EXCEPT ![r] = c] BY <1>4 DEF Back
  <2>2. c.at = "wait" /\ c.holds = FALSE BY IdleFields
  <2> HIDE DEF c
  <2> QED BY <1>1, <1>4, <2>1, <2>2, CommitGone
\* the source is the file, and nobody owns the id
<1>5. ASSUME states.owner = None, s.seen = disk
      PROVE  /\ Stored(disk) \in Seq(Events) /\ InterruptedTurnClosers(Stored(disk)) \in Seq(Events)
             /\ states.tracked => ~disk.torn /\ InterruptedTurnClosers(disk.log) = <<>>
             /\ ~disk.torn => Stored(disk) = disk.log
             /\ disk.made /\ readers[r].holds /\ s = entry.source
             /\ s.log = Stored(disk) \o InterruptedTurnClosers(Stored(disk))
             /\ entry.phase = "committing"
  <2>1. Stored(disk) \in Logs BY SourceFields DEF Inv, TypeInv
  <2>2. InterruptedTurnClosers(Stored(disk)) \in Logs BY <2>1, ClosersType
  <2>3. states.tracked => ~disk.torn /\ InterruptedTurnClosers(disk.log) = <<>>
    BY <1>5 DEF FileInv, OwnerInv
  <2>4. ASSUME ~disk.torn PROVE Stored(disk) = disk.log
    <3>1. disk.tail = <<>> BY <2>4 DEF Inv, DiskInv
    <3> QED BY <3>1, Typed, ConcatEmptySeq DEF Stored
  <2> QED BY <1>2, <1>5, <2>1, <2>2, <2>3, <2>4 DEF Logs
<1>6. CASE /\ states.owner = None /\ s.seen = disk /\ repairs
           /\ job' = [does |-> "repair", cut |-> s.seen.torn,
                      batch |-> SubSeq(s.log, Len(disk.log) + 1, Len(s.log))]
           /\ UNCHANGED <<entry, readers, chain, states>>
  <2> HIDE DEF s, r
  <2>1. job'.does = "repair" BY <1>6
  <2>2. Head1' = Head1 BY <1>6 DEF Head1
  <2>3. ~states.tracked
    <3> SUFFICES ASSUME states.tracked PROVE FALSE OBVIOUS
    <3>1. ~disk.torn /\ Stored(disk) = disk.log /\ InterruptedTurnClosers(disk.log) = <<>>
          /\ s.log = Stored(disk) \o InterruptedTurnClosers(Stored(disk))
      BY <1>5, <1>6
    <3>2. s.log = disk.log BY <3>1, Typed, ConcatEmptySeq
    <3>3. Len(s.log) > Len(disk.log) BY <1>6, <3>1
    <3> QED BY <3>2, <3>3, Typed
  <2>4. BatchInv' BY <1>1, <1>5, <1>6, <2>1, <2>2, <2>3 DEF BatchInv, r
  <2>5. FileInv' BY <1>1, <1>6, FileSame DEF Present
  <2>6. OwnerInv'
    <3>1. job.does # "appended" BY <1>2 DEF NoJob
    <3> QED BY <1>1, <1>6, <3>1 DEF OwnerInv
  <2>7. ContentInv' BY <1>1, <1>6 DEF ContentInv
  <2>8. BornInv' /\ ColdInv' BY <1>1, <1>6, BornSame, ColdSame
  <2>9. OrderInv' BY <1>1, <1>6 DEF OrderInv
  <2>10. EntryInv'
    <3>1. Growing' = Growing BY <1>2, <2>1 DEF Growing, NoJob
    <3> QED BY <1>1, <1>6, <3>1 DEF EntryInv
  <2>11. CallInv' BY <1>1, <1>6 DEF CallInv
  <2> QED BY <2>4, <2>5, <2>6, <2>7, <2>8, <2>9, <2>10, <2>11
<1>7. CASE /\ states.owner = None /\ s.seen = disk /\ ~repairs
           /\ states' = Tracked(None, Len(s.log), TRUE)
           /\ IF ~readers[r].holds
              THEN readers' = Back(readers, r) /\ UNCHANGED entry
              ELSE IF readers[r].call = "load"
              THEN /\ readers' = [Released(readers) EXCEPT
                        ![r] = [@ EXCEPT !.at = "done", !.of = None]]
                   /\ entry' = NoEntry
              ELSE /\ readers' = [readers EXCEPT ![r] = [@ EXCEPT !.at = "held"]]
                   /\ entry' = [entry EXCEPT !.phase = "reserved"]
           /\ chain' = Pop /\ UNCHANGED job
  <2>1. /\ ~disk.torn /\ s.log = disk.log /\ InterruptedTurnClosers(disk.log) = <<>>
        /\ Balanced(s.log)
    <3>1. ~disk.torn BY <1>7
    <3>2. /\ Stored(disk) = disk.log
          /\ s.log = Stored(disk) \o InterruptedTurnClosers(Stored(disk))
          /\ InterruptedTurnClosers(Stored(disk)) \in Seq(Events)
      BY <1>5, <1>7, <3>1
    <3> DEFINE b == InterruptedTurnClosers(disk.log)
    <3>3. b \in Seq(Events) /\ s.log = disk.log \o b BY <3>2
    <3>4. Len(s.log) <= Len(disk.log)
      <4> DEFINE k == Len(s.log)
                 m == Len(disk.log)
      <4>1. ~(k > m) BY <1>7, <3>2
      <4>2. k \in Nat /\ m \in Nat BY <1>2, LenProperties, Typed
      <4> HIDE DEF k, m
      <4>3. k <= m BY <4>1, <4>2
      <4> QED BY <4>3 DEF k, m
    <3> HIDE DEF b, s
    <3>5. b = <<>> /\ s.log = disk.log BY <3>3, <3>4, Typed, AddsNothing
    <3>6. InterruptedTurnClosers(disk.log) = <<>> BY <3>5 DEF b
    <3>7. Balanced(disk.log) BY <3>6, NoClosers
    <3> QED BY <3>1, <3>5, <3>6, <3>7
  <2>2. /\ states'.owner = None /\ states'.made /\ states'.tracked
        /\ states'.cursor = Len(disk.log)
    BY <1>7, <2>1 DEF Tracked
  <2>3. disk.made /\ readers[r].holds /\ s = entry.source /\ entry.phase = "committing"
    BY <1>5, <1>7
  <2>4. FileInv' BY <1>1, <2>1, FileFree
  <2>5. OwnerInv' BY <1>1, <2>1, <2>2, <2>3 DEF OwnerInv
  <2>6. BatchInv' BY <1>2, <1>7 DEF BatchInv, NoJob
  <2>7. ContentInv' BY <1>1, <1>7, <2>2 DEF ContentInv
  <2>8. BornInv' BY <1>1, BornSame
  <2>9. ColdInv' BY <1>1, <2>3, ColdSame
  <2>10. OrderInv'
    <3>1. /\ SameSteps(chain, chain') /\ OneFetch(chain') /\ ~SomeFetch(chain')
      BY <1>2, <1>7, <2>3, OpsSame
    <3>2. \A k \in Lives : ~Among(OpOf("suffix", k), chain)
      BY <1>7, LifeNumbers DEF OrderInv
    <3> QED BY <1>1, <3>1, <3>2 DEF OrderInv, SameSteps, LifeSteps, Starters
  <2>11. Len(s.log) \in Nat /\ Begins(s.log, disk.log) BY <2>1, Typed DEF Begins
  <2>12. ASSUME NEW q \in Readers, readers[q].at = "live"
         PROVE  Waits(readers[q], live', sessions')
    <3>1. Waits(readers[q], live, sessions) BY <2>12, HolderPhase DEF Call
    <3> QED BY <1>1, <3>1
  <2>13. CASE /\ readers' = [Released(readers) EXCEPT
                      ![r] = [@ EXCEPT !.at = "done", !.of = None]]
              /\ entry' = NoEntry
    <3> DEFINE c == [Released(readers)[r] EXCEPT !.at = "done", !.of = None]
    <3>1. readers' = [Released(readers) EXCEPT ![r] = c] BY <2>13
    <3>2. Released(readers)[r] = [readers[r] EXCEPT !.holds = FALSE] BY <1>2 DEF Released
    <3>3. c.at = "done" /\ c.holds = FALSE /\ c.source = s
      BY <1>2, <3>2, Callers DEF CallRecs
    <3> HIDE DEF c
    <3>4. Call(c, entry', disk'.log, states', live', sessions') /\ ~Holder(c)
      <4> HIDE DEF s
      <4> QED BY <1>1, <2>1, <2>11, <3>3 DEF Call, Holder
    <3>5. readers' # Released(readers)
      <4>1. readers'[r] = c BY <1>2, <3>1 DEF Released
      <4>2. Released(readers)[r].at = "commit" BY <1>2, <3>2, Callers DEF CallRecs
      <4> QED BY <3>3, <4>1, <4>2
    <3>6. CallInv' BY <1>1, <1>2, <2>3, <2>12, <3>1, <3>4, <3>5, ReleasedCalls
    <3>7. EntryInv' BY <2>13 DEF EntryInv, NoEntry
    <3> QED BY <2>4, <2>5, <2>6, <2>7, <2>8, <2>9, <2>10, <3>6, <3>7
  <2>14. CASE /\ readers' = [readers EXCEPT ![r] = [@ EXCEPT !.at = "held"]]
              /\ entry' = [entry EXCEPT !.phase = "reserved"]
    <3> DEFINE c == [readers[r] EXCEPT !.at = "held"]
    <3>1. /\ readers'[r] = c /\ \A q \in Readers \ {r} : readers'[q] = readers[q]
      BY <1>2, <2>14, Callers
    <3>2. c.at = "held" /\ c.holds /\ c.source = s BY <1>2, <2>3, Callers DEF CallRecs
    <3> HIDE DEF c
    <3>3. entry'.phase = "reserved" /\ entry'.source = entry.source
      BY <2>14 DEF Inv, TypeInv, Entries
    <3>4. ASSUME NEW q \in Readers
          PROVE  Call(readers'[q], entry', disk'.log, states', live', sessions')
                 /\ (Holder(readers'[q]) => q = r)
      <4>1. CASE q = r
        <5> HIDE DEF s
        <5> QED BY <1>1, <2>1, <2>2, <2>3, <3>1, <3>2, <3>3, <4>1 DEF Call, Holder
      <4>2. CASE q # r
        <5>1. ~Holder(readers[q]) BY <1>2, <2>3, <4>2
        <5>2. Call(readers[q], entry, disk.log, states, live, sessions) BY HolderPhase
        <5>3. readers[q].at # "held" BY <5>1, HolderPhase
        <5>4. Call(readers[q], entry', disk.log, states, live, sessions)
          BY <3>3, <5>1, <5>2, CallSame
        <5>5. Call(readers[q], entry', disk'.log, states', live', sessions')
          BY <1>1, <2>12, <5>3, <5>4 DEF Call
        <5> QED BY <3>1, <4>2, <5>1, <5>5
      <4> QED BY <4>1, <4>2
    <3>5. CallInv' BY <3>4 DEF CallInv
    <3>6. EntryInv' BY <1>1, <1>7, <2>3, <3>3, EntrySame
    <3> QED BY <2>4, <2>5, <2>6, <2>7, <2>8, <2>9, <2>10, <3>5, <3>6
  <2> QED BY <1>7, <2>3, <2>13, <2>14
<1> QED BY <1>3, <1>4, <1>6, <1>7 DEF Commit

-----------------------------------------------------------------------------
(* A life is born.                                                         *)

\* A first operation is queued behind those of the lives before.
LEMMA StarterPushed ==
  ASSUME NEW c \in Seq(OpRecs), NEW o \in OpRecs, o.op \in Starters, Ordered(c), OneFetch(c),
         \A i \in DOMAIN c : c[i].op \in Starters => c[i].by < o.by
  PROVE  /\ Ordered(c \o <<o>>) /\ OneFetch(c \o <<o>>)
         /\ SomeFetch(c \o <<o>>) => SomeFetch(c)
         /\ \A x : Among(x, c \o <<o>>) <=> Among(x, c) \/ x = o
<1> DEFINE d == c \o <<o>>
           m == Len(c) + 1
<1>1. /\ DOMAIN d = 1 .. m /\ Len(c) \in Nat /\ DOMAIN c = 1 .. Len(c)
      /\ \A i \in DOMAIN c : d[i] = c[i]
      /\ d[m] = o
  BY PushedFields
<1>2. /\ DOMAIN c \subseteq DOMAIN d /\ m \in DOMAIN d
      /\ \A i \in DOMAIN d : i \in DOMAIN c \/ i = m
      /\ \A i \in DOMAIN c : i < m
      /\ \A i \in DOMAIN d : ~(m < i)
  BY <1>1
<1> HIDE DEF d, m
<1>3. ASSUME NEW i \in DOMAIN d, NEW j \in DOMAIN d, i < j,
             d[i].op \in Starters, d[j].op \in Starters
      PROVE  d[i].by < d[j].by
  <2>1. i \in DOMAIN c BY <1>2, <1>3
  <2>2. CASE j = m BY <1>1, <1>3, <2>1, <2>2
  <2>3. CASE j \in DOMAIN c BY <1>1, <1>3, <2>1, <2>3 DEF Ordered
  <2> QED BY <1>2, <2>2, <2>3
<1>4. \A i \in DOMAIN d : Fetches(d[i]) => i \in DOMAIN c /\ d[i] = c[i]
  BY <1>1, <1>2 DEF Fetches, Starters
<1>5. OneFetch(d) /\ (SomeFetch(d) => SomeFetch(c)) BY <1>4 DEF OneFetch, SomeFetch
<1>6. \A x : Among(x, d) <=> Among(x, c) \/ x = o BY <1>1, <1>2 DEF Among
<1> QED BY <1>3, <1>5, <1>6 DEF Ordered, d

\* The next life comes after all that were born.
LEMMA BeforeNext ==
  ASSUME Inv, Content, Unborn # {}
  PROVE  /\ NextLife \in Lives /\ NextLife \in Nat /\ sessions[NextLife].at = "unborn"
         /\ live[NextLife] = NoLive /\ sessions[NextLife].log = <<>>
         /\ \A k \in Lives : sessions[k].at # "unborn" => k < NextLife
         /\ \A k \in Lives : k < NextLife => sessions[k].at # "unborn"
         /\ \A k \in Lives : NextLife < k => sessions[k].at = "unborn" /\ live[k] = NoLive
         /\ \A i \in DOMAIN chain : chain[i].op \in Starters =>
              chain[i].by \in Lives /\ live[chain[i].by].init = "pending"
              /\ chain[i].by < NextLife
         /\ \A op, l : Among(OpOf(op, l), chain) /\ op \in Starters =>
              l \in Lives /\ live[l].init = "pending" /\ l # NextLife
<1> DEFINE n == NextLife
<1>1. n \in Lives /\ n \in Nat /\ sessions[n].at = "unborn" /\ \A k \in Unborn : n <= k
  BY NextLifeUnborn, LifeNumbers DEF Unborn
<1> HIDE DEF n
<1>2. live[n] = NoLive /\ sessions[n].log = <<>> BY <1>1, SessionParts
<1>3. ASSUME NEW k \in Lives, sessions[k].at # "unborn" PROVE k < n
  <2>1. ~(n < k) BY <1>1, <1>3 DEF Content, BornInv
  <2>2. n # k BY <1>1, <1>3
  <2> QED BY <1>1, <2>1, <2>2, LifeNumbers
<1>4. ASSUME NEW k \in Lives, n < k PROVE sessions[k].at = "unborn" /\ live[k] = NoLive
  <2>1. sessions[k].at = "unborn" BY <1>1, <1>4 DEF Content, BornInv
  <2> QED BY <2>1, SessionParts
<1>5. ASSUME NEW i \in DOMAIN chain, chain[i].op \in Starters
      PROVE  chain[i].by \in Lives /\ live[chain[i].by].init = "pending" /\ chain[i].by < n
  <2>1. Stands(chain[i], live, sessions, readers) BY DEF Inv, ChainInv, Sound
  <2>2. chain[i].by \in Lives /\ live[chain[i].by].init = "pending"
    BY <1>5, <2>1 DEF Stands, Starters, LifeOps
  <2>3. sessions[chain[i].by].at # "unborn" BY <2>2, SessionParts, NoLiveFields
  <2> QED BY <1>3, <2>2, <2>3
<1>6. ASSUME NEW op, NEW l, Among(OpOf(op, l), chain), op \in Starters
      PROVE  l \in Lives /\ live[l].init = "pending" /\ l # n
  <2>1. PICK i \in DOMAIN chain : chain[i] = OpOf(op, l) BY <1>6 DEF Among
  <2>2. chain[i].op = op /\ chain[i].by = l BY <2>1 DEF OpOf
  <2>3. l \in Lives /\ live[l].init = "pending" BY <1>5, <1>6, <2>2
  <2> QED BY <1>2, <2>3, NoLiveFields
<1>7. ASSUME NEW k \in Lives, k < n PROVE sessions[k].at # "unborn"
  BY <1>1, <1>7, LifeNumbers DEF Unborn
<1> QED BY <1>1, <1>2, <1>3, <1>4, <1>5, <1>6, <1>7 DEF n

LEMMA NewBorn ==
  ASSUME Inv, Content, Unborn # {}, Open = {}, NEW t, t.at = "open", NEW v,
         sessions' = [sessions EXCEPT ![NextLife] = t], live' = [live EXCEPT ![NextLife] = v],
         plugin = "on", UNCHANGED <<plugin, retirement>>,
         v.init = "pending" \/ \A l \in Lives : live[l].init # "pending"
  PROVE  /\ BornInv'
         /\ live'[NextLife] = v /\ sessions'[NextLife] = t
         /\ \A k \in Lives \ {NextLife} : live'[k] = live[k] /\ sessions'[k] = sessions[k]
<1> DEFINE n == NextLife
<1>1. /\ n \in Lives /\ n \in Nat /\ sessions[n].at = "unborn" /\ live[n] = NoLive
      /\ \A k \in Lives : k < n => sessions[k].at # "unborn"
      /\ \A k \in Lives : n < k => sessions[k].at = "unborn" /\ live[k] = NoLive
  BY BeforeNext
<1> HIDE DEF n
<1>2. /\ live'[n] = v /\ sessions'[n] = t
      /\ \A k \in Lives \ {n} : live'[k] = live[k] /\ sessions'[k] = sessions[k]
  <2>1. live \in [Lives -> LiveRecs] /\ sessions \in [Lives -> SessionRecs]
    BY DEF Inv, TypeInv
  <2>2. live' = [live EXCEPT ![n] = v] /\ sessions' = [sessions EXCEPT ![n] = t] BY DEF n
  <2> QED BY <1>1, <2>1, <2>2
<1>3. \A k \in Lives : sessions[k].at # "open" BY DEF Open
<1>4. ASSUME NEW k \in Lives, NEW l \in Lives, k < l
      PROVE  /\ sessions'[k].at \in {"unborn", "open"} => sessions'[l].at = "unborn"
             /\ live'[k].init = "pending" => live'[l].init \in {"none", "pending"}
  <2>1. k \in Nat /\ l \in Nat BY LifeNumbers
  <2>2. ASSUME sessions'[k].at \in {"unborn", "open"} PROVE sessions'[l].at = "unborn"
    <3>1. ~(k < n) BY <1>1, <1>2, <1>3, <2>2
    <3>2. n < l BY <1>1, <1>4, <2>1, <3>1
    <3>3. n # l BY <1>1, <2>1, <3>2
    <3> QED BY <1>1, <1>2, <3>2, <3>3
  <2>3. ASSUME live'[k].init = "pending" PROVE live'[l].init \in {"none", "pending"}
    <3>1. CASE n < l
      <4>1. n # l BY <1>1, <2>1, <3>1
      <4> QED BY <1>1, <1>2, <3>1, <4>1, NoLiveFields
    <3>2. CASE ~(n < l)
      <4>1. k # n BY <1>4, <3>2
      <4>2. live[k].init = "pending" BY <1>2, <2>3, <4>1
      <4>3. v.init = "pending" BY <4>2
      <4>4. live[l].init \in {"none", "pending"} BY <1>4, <4>2 DEF Content, BornInv
      <4> QED BY <1>2, <4>3, <4>4
    <3> QED BY <3>1, <3>2
  <2> QED BY <2>2, <2>3
<1>5. ASSUME NEW l \in Lives, live'[l].init = "pending"
      PROVE  \/ sessions'[l].at = "open" \/ retirement = l
             \/ \E k \in Lives : l < k /\ live'[k].init = "pending"
  <2>1. CASE l = n BY <1>2, <2>1
  <2>2. CASE l # n
    <3>1. live[l].init = "pending" /\ v.init = "pending" BY <1>2, <1>5, <2>2
    <3>2. CASE sessions[l].at = "open" \/ retirement = l BY <1>3, <3>2
    <3>3. CASE \E k \in Lives : l < k /\ live[k].init = "pending"
      BY <1>2, <3>1, <3>3
    <3> QED BY <3>1, <3>2, <3>3 DEF Content, BornInv
  <2> QED BY <2>1, <2>2
<1> QED BY <1>2, <1>4, <1>5 DEF BornInv, n

LEMMA CreateContent ==
  ASSUME Inv, Inv', Content, Create
  PROVE  Content'
<1> USE DEF Content
<1> DEFINE n == NextLife
           t == [sessions[n] EXCEPT !.at = "open"]
<1>1. /\ plugin = "on" /\ Open = {} /\ Unborn # {} /\ entry.phase = "none"
      /\ sessions' = [sessions EXCEPT ![n] = t]
      /\ live' = [live EXCEPT ![n] = Starting]
      /\ chain' = chain \o Op("create", n)
      /\ UNCHANGED <<disk, states, retirement, job, entry, readers, plugin>>
  BY DEF Create
<1>2. /\ n \in Lives /\ n \in Nat /\ sessions[n].at = "unborn" /\ live[n] = NoLive
      /\ sessions[n].log = <<>>
      /\ \A i \in DOMAIN chain : chain[i].op \in Starters => chain[i].by < n
      /\ \A op, l : Among(OpOf(op, l), chain) /\ op \in Starters =>
           l \in Lives /\ live[l].init = "pending" /\ l # n
  BY <1>1, BeforeNext
<1>3. t.at = "open" /\ t.log = <<>> /\ t.born = sessions[n].born /\ sessions[n].born \in Nat
  <2>1. sessions[n] \in SessionRecs /\ sessions[n].born \in Nat BY <1>2, Typed
  <2> QED BY <1>2, <2>1 DEF SessionRecs
<1>4. Starting.init = "pending" /\ Starting.flush = "no" BY StartingFields
<1>5. /\ BornInv' /\ live'[n] = Starting /\ sessions'[n] = t
      /\ \A k \in Lives \ {n} : live'[k] = live[k] /\ sessions'[k] = sessions[k]
  BY <1>1, <1>3, <1>4, NewBorn
<1> HIDE DEF n, t
<1>6. \A k \in Lives : sessions'[k].log = sessions[k].log /\ sessions'[k].born = sessions[k].born
  BY <1>2, <1>3, <1>5
<1>7. FileInv'
  <2>1. ASSUME NEW l \in Lives, sessions'[l].at = "unborn" PROVE sessions[l].at = "unborn"
    BY <1>2, <1>5, <2>1
  <2>2. ASSUME disk.torn, NEW l \in Lives, Present(l)'
        PROVE  disk.log[1].by # l /\ (sessions[l].log # <<>> => sessions[l].log[1].by = l)
    <3>1. CASE l = n BY <1>2, <2>2, <3>1 DEF FileInv
    <3>2. CASE l # n
      <4>1. Present(l) BY <1>5, <2>2, <3>2 DEF Present
      <4> QED BY <2>2, <4>1 DEF FileInv
    <3> QED BY <3>1, <3>2
  <2> QED BY <1>1, <1>6, <2>1, <2>2 DEF FileInv
<1>8. OwnerInv'
  <2>1. \A l \in Lives : sessions[l].at # "unborn" => sessions'[l].at # "unborn"
    BY <1>2, <1>5
  <2> QED BY <1>1, <1>6, <2>1, OwnerSame
<1>9. BatchInv'
  <2>1. /\ job # NoJob => chain' # <<>> /\ chain'[1] = chain[1]
        /\ job.does \in {"repair", "repaired"} => readers'[Head1.by].holds
    BY <1>1, <1>2, Pushed, JobHead, Repairer DEF LifeOps
  <2>2. \A l \in Lives : live[l].w.writing # "no" => live'[l].w.active = live[l].w.active
    BY <1>2, <1>5, NoLiveFields
  <2> QED BY <1>1, <1>6, <2>1, <2>2, BatchSame
<1>10. ContentInv'
  <2>1. Len(<<>>) = 0 /\ Claims(Starting, t, TRUE) = {} BY <1>3 DEF Claims
  <2>2. Safe(Starting, t, plugin = "on", disk.log)
    BY <1>1, <1>3, <1>4, <2>1 DEF Safe, Flushing
  <2>3. Owns(Starting, t, states.owner = n) BY <1>4 DEF Owns
  <2> QED BY <1>1, <1>2, <1>5, <2>2, <2>3, ContentStep
<1>11. OrderInv'
  <2> DEFINE o == Op("create", n)[1]
  <2>1. o \in OpRecs /\ o.op = "create" /\ o.by = n /\ chain' = chain \o <<o>>
        /\ o = OpOf("create", n)
    BY <1>1, <1>2, OpFields DEF LifeOps, Op, OpOf
  <2> HIDE DEF o
  <2>2. o.op \in Starters BY <2>1 DEF Starters
  <2>3. /\ Ordered(chain') /\ OneFetch(chain') /\ (SomeFetch(chain') => SomeFetch(chain))
        /\ \A x : Among(x, chain') <=> Among(x, chain) \/ x = o
    BY <1>2, <2>1, <2>2, Typed, StarterPushed DEF OrderInv
  <2>4. ASSUME NEW l \in Lives
        PROVE  /\ live'[l].init = "pending" => \E op \in Starters : Among(OpOf(op, l), chain')
               /\ Among(OpOf("retire", l), chain') => live'[l].flush = "no"
               /\ Among(OpOf("suffix", l), chain') =>
                    states.owner = l /\ states.made /\ states.cursor < sessions[l].born
    <3>1. CASE l = n
      <4>1. Among(OpOf("create", l), chain') BY <2>1, <2>3, <3>1
      <4>2. ~Among(OpOf("suffix", l), chain)
        BY <1>2, <3>1 DEF Starters
      <4>3. ~Among(OpOf("suffix", l), chain') BY <2>1, <2>3, <4>2 DEF OpOf
      <4> QED BY <1>4, <1>5, <3>1, <4>1, <4>3 DEF Starters
    <3>2. CASE l # n
      <4>1. \A op : op # "create" /\ Among(OpOf(op, l), chain') => Among(OpOf(op, l), chain)
        BY <2>1, <2>3 DEF OpOf
      <4> QED BY <1>1, <1>5, <2>3, <3>2, <4>1 DEF OrderInv
    <3> QED BY <3>1, <3>2
  <2> QED BY <1>1, <1>6, <2>3, <2>4 DEF OrderInv
<1>12. ColdInv' BY <1>1 DEF ColdInv
<1>13. EntryInv' BY <1>1 DEF EntryInv, Growing
<1>14. CallInv'
  <2>1. \A l \in Lives : live[l].flush \in Flushing =>
          live'[l].flush = live[l].flush /\ live'[l].upto = live[l].upto
    BY <1>2, <1>5, NoLiveFields DEF Flushing
  <2>2. Begins(disk.log, disk'.log) BY <1>1, Typed DEF Begins
  <2> QED BY <1>1, <1>6, <2>1, <2>2, CallsMove
<1> QED BY <1>5, <1>7, <1>8, <1>9, <1>10, <1>11, <1>12, <1>13, <1>14

LEMMA PublishContent ==
  ASSUME Inv, Inv', Content, NEW r \in Readers, NEW setup \in BOOLEAN, Publish(r, setup)
  PROVE  Content'
<1> USE DEF Content
<1> DEFINE n == NextLife
           log == Published(r, setup)
           t == [at |-> "open", log |-> log, born |-> Len(log)]
           init == IF setup THEN "pending" ELSE "ok"
           v == [NoLive EXCEPT !.init = init]
           m == Len(disk.log)
           e == [kind |-> "note", by |-> n]
<1>1. /\ readers[r].at = "held" /\ Open = {} /\ Unborn # {} /\ states.owner = None
      /\ states.cursor = Len(readers[r].source.log)
      /\ sessions' = [sessions EXCEPT ![n] = t]
      /\ live' = [live EXCEPT ![n] = v]
      /\ states' = [states EXCEPT !.owner = n]
      /\ entry' = NoEntry /\ readers' = Over(Released(readers), r)
      /\ chain' = IF setup THEN Orphan(chain) \o Op("suffix", n) ELSE Orphan(chain)
      /\ UNCHANGED <<disk, retirement, job, plugin>>
  BY DEF Publish, Matches
<1>2. /\ n \in Lives /\ n \in Nat /\ sessions[n].at = "unborn" /\ live[n] = NoLive
      /\ sessions[n].log = <<>>
      /\ \A i \in DOMAIN chain : chain[i].op \in Starters =>
           chain[i].by \in Lives /\ live[chain[i].by].init = "pending"
      /\ \A op, l : Among(OpOf(op, l), chain) /\ op \in Starters =>
           l \in Lives /\ live[l].init = "pending"
  BY <1>1, BeforeNext
<1>3. /\ Holder(readers[r]) /\ entry.phase = "reserved" /\ states.tracked
      /\ readers[r].source.log = disk.log
  BY <1>1, HolderPhase DEF Call
<1>4. plugin = "on" BY <1>1 DEF Inv, PluginInv
<1>5. \A l \in Lives : live[l].init # "pending" BY <1>3, <1>4 DEF ColdInv
<1>6. /\ states.made /\ disk.made /\ ~disk.torn /\ states.cursor = m
      /\ disk.log \in Seq(Events) /\ disk.log # <<>> /\ m \in Nat /\ m # 0
  BY <1>1, <1>3, Typed, EmptySeq DEF OwnerInv, FileInv
<1>7. /\ states' \in StateRecs /\ states'.owner = n /\ states'.tracked /\ states'.made
      /\ states'.cursor = m
  BY <1>1, <1>2, <1>3, <1>6, Typed DEF StateRecs
<1>8. job = NoJob /\ job' = NoJob
  <2>1. job.does \notin {"repair", "repaired"} BY <1>3 DEF BatchInv
  <2>2. job.does \notin {"append", "appended"}
    <3> SUFFICES ASSUME job.does \in {"append", "appended"} PROVE FALSE OBVIOUS
    <3>1. chain # <<>> /\ Head1.op \in LifeOps BY DEF Inv, JobInv, LifeOps
    <3>2. Head1.by \in Lives /\ Head1.by = None BY <1>1, <3>1, HeadLife DEF BatchInv
    <3> QED BY <3>2, LifeNumbers
  <2>3. job.does = "nothing" BY <2>1, <2>2 DEF Inv, TypeInv, Jobs
  <2> QED BY <1>1, <2>3 DEF Inv, JobInv
<1>9. /\ e \in Events /\ e.by = n
      /\ setup => log = disk.log \o <<e>>
      /\ ~setup => log = disk.log
  <2>1. e \in Events /\ e.by = n BY <1>2 DEF Events, Kinds
  <2>2. disk.log \o <<>> = disk.log BY <1>6, ConcatEmptySeq
  <2> HIDE DEF n
  <2> QED BY <1>3, <2>1, <2>2 DEF Published, n
<1> HIDE DEF e
<1>10. /\ log \in Seq(Events) /\ Len(log) = (IF setup THEN m + 1 ELSE m)
       /\ \A i \in 1 .. m : log[i] = disk.log[i]
       /\ setup => log[m + 1] = e
  <2>1. /\ <<e>> \in Seq(Events) /\ Len(<<e>>) = 1 /\ <<e>>[1] = e
    BY <1>9
  <2>2. /\ disk.log \o <<e>> \in Seq(Events) /\ Len(disk.log \o <<e>>) = m + 1
        /\ \A i \in 1 .. m + 1 :
             (disk.log \o <<e>>)[i] = IF i <= m THEN disk.log[i] ELSE e
    BY <1>6, <2>1, ConcatProperties
  <2> HIDE DEF log
  <2>3. CASE setup BY <1>6, <1>9, <2>2, <2>3
  <2>4. CASE ~setup BY <1>6, <1>9, <2>4
  <2> QED BY <2>3, <2>4
<1>11. v \in LiveRecs /\ v.init = init /\ v.w = Fresh /\ v.flush = "no"
       /\ init \in {"ok", "pending"} /\ (init = "pending" <=> setup)
  <2> DEFINE x == NoLive
  <2>1. x \in LiveRecs /\ x.w = Fresh /\ x.flush = "no" BY NoLiveFields
  <2>2. v = [x EXCEPT !.init = init] /\ init \in {"ok", "pending"} OBVIOUS
  <2> HIDE DEF x, v, init
  <2>3. init \in {"none", "pending", "ok", "broken", "refused"} BY <2>2
  <2>4. /\ [x EXCEPT !.init = init] \in LiveRecs /\ [x EXCEPT !.init = init].init = init
        /\ [x EXCEPT !.init = init].w = x.w /\ [x EXCEPT !.init = init].flush = x.flush
    BY <2>1, <2>3, SetInit
  <2>5. v \in LiveRecs /\ v.init = init /\ v.w = x.w /\ v.flush = x.flush
    BY <2>2, <2>4
  <2> QED BY <2>1, <2>2, <2>5 DEF init
<1> HIDE DEF v, init
<1>12. t.at = "open" /\ t.log = log /\ t.born = Len(log) OBVIOUS
<1> HIDE DEF log, t
<1>13. /\ BornInv' /\ live'[n] = v /\ sessions'[n] = t
       /\ \A k \in Lives \ {n} : live'[k] = live[k] /\ sessions'[k] = sessions[k]
  BY <1>1, <1>4, <1>5, <1>12, NewBorn
<1> HIDE DEF n
<1>14. FileInv'
  <2>1. ASSUME NEW l \in Lives, sessions'[l].at = "unborn"
        PROVE  /\ disk.log[1].by # l
               /\ \A k \in Lives : sessions'[k].log # <<>> => sessions'[k].log[1].by # l
    <3>1. l # n BY <1>12, <1>13, <2>1
    <3>2. sessions[l].at = "unborn" BY <1>13, <2>1, <3>1
    <3>3. /\ disk.log[1].by # l
          /\ \A k \in Lives : sessions[k].log # <<>> => sessions[k].log[1].by # l
      BY <1>6, <3>2 DEF FileInv
    <3>4. log[1] = disk.log[1] BY <1>6, <1>10
    <3> QED BY <1>12, <1>13, <3>3, <3>4
  <2>2. ASSUME NEW l \in Lives, NEW i \in 1 .. Len(sessions'[l].log),
               sessions'[l].log[i].by = None
        PROVE  i <= m
    <3>1. CASE l = n
      <4>1. i \in 1 .. Len(log) /\ log[i].by = None BY <1>12, <1>13, <2>2, <3>1
      <4>2. CASE i <= m BY <4>2
      <4>3. CASE ~(i <= m)
        <5>1. setup /\ i = m + 1 BY <1>6, <1>10, <4>1, <4>3
        <5> QED BY <1>2, <1>9, <1>10, <4>1, <5>1, LifeNumbers
      <4> QED BY <4>2, <4>3
    <3>2. CASE l # n BY <1>13, <2>2, <3>2 DEF FileInv
    <3> QED BY <3>1, <3>2
  <2> QED BY <1>1, <1>6, <2>1, <2>2 DEF FileInv
<1>15. Begins(disk.log, log) BY <1>6, <1>10 DEF Begins
<1>16. OwnerInv'
  BY <1>1, <1>2, <1>6, <1>7, <1>8, <1>12, <1>13, <1>15, LifeNumbers DEF OwnerInv
<1>17. BatchInv' BY <1>8 DEF BatchInv, NoJob
<1>18. ContentInv'
  <2>1. ASSUME NEW l \in Lives, l # n
        PROVE  /\ Safe(live'[l], sessions'[l], plugin = "on", disk.log)
               /\ Owns(live'[l], sessions'[l], states'.owner = l)
    <3>1. Safe(live[l], sessions[l], plugin = "on", disk.log) BY DEF ContentInv
    <3>2. Owns(live[l], sessions[l], states.owner = l) /\ states.owner # l
      BY <1>1, LifeNumbers DEF ContentInv
    <3> QED BY <1>13, <2>1, <3>1, <3>2 DEF Owns
  <2>2. Safe(v, t, plugin = "on", disk.log)
    <3>1. ASSUME NEW i \in Claims(v, t, TRUE)
          PROVE  i <= t.born /\ (~setup => Kept(t, i, disk.log))
      <4>1. i \in 1 .. Len(log) BY <1>12 DEF Claims
      <4>2. i <= t.born BY <1>6, <1>10, <1>12, <4>1
      <4>3. ~setup => i \in 1 .. m BY <1>6, <1>10, <4>1
      <4> QED BY <1>10, <1>12, <4>2, <4>3 DEF Kept
    <3> QED BY <1>4, <1>11, <1>12, <3>1 DEF Safe, Flushing
  <2>3. Owns(v, t, states'.owner = n) BY <1>7 DEF Owns
  <2> QED BY <1>1, <1>13, <2>1, <2>2, <2>3 DEF ContentInv
<1>19. chain \in Seq(OpRecs) /\ Orphan(chain) \in Seq(OpRecs)
       /\ SameOps(chain, Orphan(chain)) /\ ~SomeFetch(Orphan(chain))
       /\ \A i \in DOMAIN Orphan(chain) : Orphan(chain)[i].op \notin Starters
  <2>1. chain \in Seq(OpRecs) /\ Sound(chain, live, sessions, readers)
    BY Typed DEF Inv, ChainInv
  <2>2. \A i \in DOMAIN chain : chain[i].op \notin Starters BY <1>2, <1>5
  <2>3. /\ DOMAIN Orphan(chain) = DOMAIN chain
        /\ \A i \in DOMAIN chain : \/ Orphan(chain)[i] = chain[i]
                                   \/ Orphan(chain)[i].op = "read"
        /\ Orphan(chain) \in Seq(OpRecs)
    BY <2>1, OrphanSound
  <2> QED BY <2>1, <2>2, <2>3, OrphanSame DEF Starters
<1>20. OrderInv'
  <2> DEFINE o == Op("suffix", n)[1]
             d == Orphan(chain)
  <2>1. o \in OpRecs /\ o.op = "suffix" /\ o.by = n /\ Op("suffix", n) = <<o>>
        /\ o = OpOf("suffix", n)
    BY <1>2, OpFields DEF LifeOps, Op, OpOf
  <2> HIDE DEF o
  <2>2. /\ Ordered(d) /\ OneFetch(d) /\ ~SomeFetch(d)
        /\ \A op \in LifeSteps, l \in Lives : Among(OpOf(op, l), d) <=> Among(OpOf(op, l), chain)
    BY <1>19 DEF OrderInv, SameOps, SameSteps
  <2>3. \A op \in Starters : \A l : ~Among(OpOf(op, l), d)
    BY <1>19 DEF Among, OpOf
  <2> HIDE DEF d
  <2>4. /\ Ordered(chain') /\ OneFetch(chain') /\ ~SomeFetch(chain')
        /\ \A x : Among(x, chain') <=> Among(x, d) \/ (setup /\ x = o)
    <3>1. CASE setup
      <4>1. chain' = d \o <<o>> BY <1>1, <2>1, <3>1 DEF d
      <4>2. d \in Seq(OpRecs) /\ \A i \in DOMAIN d : d[i].op \notin Starters BY <1>19 DEF d
      <4>3. o.op \in Starters BY <2>1 DEF Starters
      <4> QED BY <2>1, <2>2, <3>1, <4>1, <4>2, <4>3, StarterPushed
    <3>2. CASE ~setup
      <4>1. chain' = d BY <1>1, <3>2 DEF d
      <4> QED BY <2>2, <3>2, <4>1
    <3> QED BY <3>1, <3>2
  <2>5. ASSUME NEW l \in Lives
        PROVE  /\ live'[l].init = "pending" => \E op \in Starters : Among(OpOf(op, l), chain')
               /\ Among(OpOf("retire", l), chain') => live'[l].flush = "no"
               /\ Among(OpOf("suffix", l), chain') =>
                    states'.owner = l /\ states'.made /\ states'.cursor < sessions'[l].born
    <3>1. ASSUME live'[l].init = "pending"
          PROVE  \E op \in Starters : Among(OpOf(op, l), chain')
      <4>1. l = n BY <1>5, <1>13, <3>1
      <4>2. setup BY <1>11, <1>13, <3>1, <4>1
      <4> QED BY <2>1, <2>4, <4>1, <4>2 DEF Starters
    <3>2. ASSUME Among(OpOf("retire", l), chain') PROVE live'[l].flush = "no"
      <4>1. Among(OpOf("retire", l), d) BY <2>1, <2>4, <3>2 DEF OpOf
      <4>2. live[l].flush = "no"
        BY <1>4, <2>2, <4>1 DEF OrderInv, LifeSteps
      <4> QED BY <1>11, <1>13, <4>2
    <3>3. ASSUME Among(OpOf("suffix", l), chain')
          PROVE  states'.owner = l /\ states'.made /\ states'.cursor < sessions'[l].born
      <4>1. setup /\ OpOf("suffix", l) = o BY <2>3, <2>4, <3>3 DEF Starters
      <4>2. l = n BY <2>1, <4>1 DEF OpOf
      <4>3. sessions'[l].born = m + 1 BY <1>10, <1>12, <1>13, <4>1, <4>2
      <4> QED BY <1>6, <1>7, <4>2, <4>3
    <3> QED BY <3>1, <3>2, <3>3
  <2> QED BY <2>4, <2>5 DEF OrderInv
<1>21. entry'.phase = "none" BY <1>1 DEF NoEntry
<1>22. ColdInv' BY <1>21 DEF ColdInv
<1>23. EntryInv' BY <1>1, <1>21 DEF EntryInv, NoEntry
<1>24. CallInv'
  <2>1. readers' = [Released(readers) EXCEPT ![r] = NoCall] BY <1>1 DEF Over
  <2>2. Call(NoCall, entry', disk'.log, states', live', sessions') /\ ~Holder(NoCall)
    BY CallIdle, IdleFields
  <2>3. \A q \in Readers : Holder(readers[q]) => q = r BY <1>3 DEF CallInv
  <2>4. readers' # Released(readers)
    <3>1. Released(readers)[r] = [readers[r] EXCEPT !.holds = FALSE] BY DEF Released
    <3>2. Released(readers)[r].at = "held" BY <1>1, <3>1, Callers DEF CallRecs
    <3>3. readers'[r] = NoCall BY <2>1 DEF Released
    <3> QED BY <3>2, <3>3, IdleFields
  <2>5. ASSUME NEW q \in Readers, readers[q].at = "live"
        PROVE  Waits(readers[q], live', sessions')
    <3>1. Waits(readers[q], live, sessions) BY <2>5, HolderPhase DEF Call
    <3>2. readers[q].of # n BY <1>2, <3>1, NoLiveFields DEF Waits, Flushing
    <3> QED BY <1>13, <3>1, <3>2 DEF Waits
  <2> QED BY <1>1, <2>1, <2>2, <2>3, <2>4, <2>5, ReleasedCalls
<1> QED BY <1>13, <1>14, <1>16, <1>17, <1>18, <1>20, <1>22, <1>23, <1>24

-----------------------------------------------------------------------------
(* The plugin goes and comes.                                              *)

\* Writes are queued behind the others.
LEMMA WritesJoined ==
  ASSUME NEW c \in Seq(OpRecs), NEW d \in Seq(OpRecs), \A i \in DOMAIN d : d[i].op = "write"
  PROVE  /\ SameOps(c, c \o d)
         /\ c # <<>> => c \o d # <<>> /\ (c \o d)[1] = c[1]
<1> DEFINE e == c \o d
<1>1. /\ Len(c) \in Nat /\ Len(d) \in Nat /\ DOMAIN c = 1 .. Len(c) /\ DOMAIN d = 1 .. Len(d)
      /\ e \in Seq(OpRecs) /\ Len(e) = Len(c) + Len(d)
      /\ \A i \in 1 .. Len(c) + Len(d) : e[i] = IF i <= Len(c) THEN c[i] ELSE d[i - Len(c)]
  BY ConcatProperties, LenProperties
<1>2. DOMAIN e = 1 .. Len(c) + Len(d) BY <1>1, LenProperties
<1>3. (c # <<>> => Len(c) # 0) /\ (e = <<>> => Len(e) = 0) BY <1>1, EmptySeq
<1> HIDE DEF e
<1>4. \A i \in DOMAIN c : i \in DOMAIN e /\ e[i] = c[i] BY <1>1, <1>2
<1>5. \A i \in DOMAIN e : (i \in DOMAIN c /\ e[i] = c[i]) \/ e[i].op = "write"
  <2>1. ASSUME NEW i \in DOMAIN e, ~(i <= Len(c)) PROVE e[i].op = "write"
    <3>1. i - Len(c) \in DOMAIN d /\ e[i] = d[i - Len(c)] BY <1>1, <1>2, <2>1
    <3> QED BY <3>1
  <2> QED BY <1>1, <1>2, <2>1
<1>6. Ordered(c) => Ordered(e) BY <1>4, <1>5 DEF Ordered, Starters
<1>7. ASSUME NEW op \in LifeSteps, NEW l \in Lives
      PROVE  Among(OpOf(op, l), e) <=> Among(OpOf(op, l), c)
  <2>1. OpOf(op, l).op = op /\ op # "write" BY DEF OpOf, LifeSteps, Starters
  <2> QED BY <1>4, <1>5, <2>1 DEF Among
<1>8. \A i \in DOMAIN e : Fetches(e[i]) => i \in DOMAIN c /\ e[i] = c[i]
  BY <1>5 DEF Fetches
<1>9. (OneFetch(c) => OneFetch(e)) /\ (SomeFetch(e) => SomeFetch(c))
  BY <1>8 DEF OneFetch, SomeFetch
<1>10. c # <<>> => e # <<>> /\ e[1] = c[1] BY <1>1, <1>3
<1> QED BY <1>6, <1>7, <1>9, <1>10 DEF SameOps, SameSteps, e

\* Nobody calls a plugin that goes.
LEMMA CallsQuiet ==
  ASSUME Inv, Content, \A r \in Readers : readers[r].at \in {"idle", "done"},
         UNCHANGED <<readers, disk>>
  PROVE  CallInv'
<1>1. ASSUME NEW r \in Readers
      PROVE  /\ Call(readers[r], entry', disk.log, states', live', sessions')
             /\ ~Holder(readers[r])
  <2>1. Call(readers[r], entry, disk.log, states, live, sessions) BY HolderPhase
  <2> QED BY <2>1 DEF Call, Holder, Taken
<1> QED BY <1>1 DEF CallInv

LEMMA UnloadContent ==
  ASSUME Inv, Inv', Content, Unload
  PROVE  Content'
<1> USE DEF Content
<1> DEFINE S == {l \in Lives : Enlist(l, live', chain) # chain}
           n == Cardinality(S)
<1>1. /\ plugin = "on" /\ plugin' = "closing"
      /\ \A r \in Readers : readers[r].at \in {"idle", "done"}
      /\ live' = [l \in Lives |-> IF live[l].init = "none" THEN live[l] ELSE Asked(l)]
      /\ UNCHANGED <<disk, sessions, states, retirement, job, entry, readers>>
  BY DEF Unload, Happens
<1>2. PICK flushed \in SetToSeqs(S) :
        chain' = chain \o [i \in DOMAIN flushed |-> Op("write", flushed[i])[1]]
  BY DEF Unload
<1> DEFINE d == [i \in DOMAIN flushed |-> Op("write", flushed[i])[1]]
<1>3. n \in Nat
  <2>1. IsFiniteSet(S) BY SessionConstants, FS_Subset
  <2> QED BY <2>1, FS_CardinalityType
<1>4. flushed \in [1 .. n -> S] BY DEF SetToSeqs
<1>5. \A l \in S : Op("write", l)[1] \in OpRecs /\ Op("write", l)[1].op = "write"
  BY OpFields DEF LifeOps
<1>6. chain' = chain \o d BY <1>2
<1> HIDE DEF S, n
<1>7. d \in Seq(OpRecs) /\ \A i \in DOMAIN d : d[i].op = "write"
  <2>1. DOMAIN flushed = 1 .. n /\ \A i \in 1 .. n : flushed[i] \in S BY <1>4
  <2>2. d \in [1 .. n -> OpRecs] BY <1>5, <2>1
  <2>3. \A i \in 1 .. n : d[i].op = "write" BY <1>5, <2>1
  <2> HIDE DEF d
  <2>4. d \in Seq(OpRecs) BY <1>3, <2>2, SeqDef
  <2> QED BY <2>2, <2>3, <2>4
<1> HIDE DEF d
<1>8. SameOps(chain, chain') /\ (chain # <<>> => chain' # <<>> /\ chain'[1] = chain[1])
  BY <1>6, <1>7, Typed, WritesJoined
<1>9. ASSUME NEW l \in Lives
      PROVE  /\ live'[l].init = live[l].init
             /\ live[l].w.writing # "no" => live'[l].w.active = live[l].w.active
             /\ Safe(live'[l], sessions[l], FALSE, disk.log)
             /\ Owns(live'[l], sessions[l], states.owner = l)
  <2>1. /\ Safe(live[l], sessions[l], TRUE, disk.log)
        /\ Owns(live[l], sessions[l], states.owner = l)
    <3>1. (plugin = "on") = TRUE BY <1>1
    <3> QED BY <3>1 DEF ContentInv
  <2>2. CASE live[l].init = "none"
    <3>1. live'[l] = live[l] BY <1>1, <2>2
    <3> QED BY <2>1, <2>2, <3>1, NoLiveFields DEF Safe, Flushing
  <2>3. CASE live[l].init # "none"
    <3>1. live'[l] = Asked(l) BY <1>1, <2>3
    <3>2. /\ Asked(l).init = live[l].init /\ Held(Asked(l).w) = Held(live[l].w)
          /\ HasWork(Asked(l).w) => HasWork(live[l].w)
          /\ live[l].w.writing # "no" => Asked(l).w.active = live[l].w.active
          /\ Asked(l).upto = Len(sessions[l].log) /\ Len(sessions[l].log) \in Nat
      BY AskedMore
    <3>3. Claims(Asked(l), sessions[l], FALSE) \subseteq Claims(live[l], sessions[l], TRUE)
      BY AllClaimed
    <3>4. Asked(l).upto <= Len(sessions[l].log) BY <3>2
    <3>5. Safe(Asked(l), sessions[l], FALSE, disk.log)
      BY <2>1, <2>3, <3>2, <3>3, <3>4, SafeHolds
    <3>6. Owns(Asked(l), sessions[l], states.owner = l) BY <2>1, <3>2 DEF Owns
    <3> QED BY <3>1, <3>2, <3>5, <3>6
  <2> QED BY <2>2, <2>3
<1>10. FileInv' BY <1>1, <1>9, FileSame DEF Present
<1>11. OwnerInv' BY <1>1, OwnerSame
<1>12. BatchInv'
  <2>1. job # NoJob => chain' # <<>> /\ chain'[1] = chain[1] BY <1>8, JobHead
  <2>2. job.does \in {"repair", "repaired"} => readers'[Head1.by].holds BY <1>1, Repairer
  <2> QED BY <1>1, <1>9, <2>1, <2>2, BatchSame
<1>13. ContentInv'
  <2>1. (plugin' = "on") = FALSE BY <1>1
  <2> QED BY <1>1, <1>9, <2>1 DEF ContentInv
<1>14. BornInv' /\ ColdInv'
  <2>1. plugin' # "on" /\ plugin' # "off" BY <1>1
  <2>2. \A l \in Lives : sessions'[l] = sessions[l] /\ live'[l].init = live[l].init
    BY <1>1, <1>9
  <2>3. BornInv' BY <2>1, <2>2 DEF BornInv
  <2> QED BY <2>1, <2>3 DEF ColdInv
<1>15. OrderInv'
  <2>1. /\ SameSteps(chain, chain') /\ OneFetch(chain')
        /\ SomeFetch(chain') => entry'.phase = "loading"
    BY <1>1, <1>8, OpsSame
  <2>2. plugin' # "on" /\ states' = states /\ sessions' = sessions BY <1>1
  <2>3. \A op \in Starters : op \in LifeSteps BY DEF LifeSteps
  <2>4. ASSUME NEW l \in Lives
        PROVE  /\ live'[l].init = "pending" =>
                    \E op \in Starters : Among(OpOf(op, l), chain')
               /\ Among(OpOf("suffix", l), chain') =>
                    states.owner = l /\ states.made /\ states.cursor < sessions[l].born
    <3>1. live[l].init = "pending" => \E op \in Starters : Among(OpOf(op, l), chain)
      BY DEF OrderInv
    <3>2. "suffix" \in Starters BY DEF Starters
    <3> QED BY <1>9, <2>1, <2>3, <3>1, <3>2 DEF OrderInv, SameSteps
  <2>5. Ordered(chain') BY <2>1 DEF SameSteps, OrderInv
  <2> QED BY <2>1, <2>2, <2>4, <2>5 DEF OrderInv
<1>16. EntryInv' BY <1>1 DEF EntryInv, Growing
<1>17. CallInv' BY <1>1, CallsQuiet
<1> QED BY <1>10, <1>11, <1>12, <1>13, <1>14, <1>15, <1>16, <1>17

LEMMA UnloadedContent ==
  ASSUME Inv, Inv', Content, Unloaded
  PROVE  Content'
<1> USE DEF Content
<1>1. /\ plugin = "closing" /\ plugin' = "off" /\ chain = <<>> /\ chain' = <<>>
      /\ sessions' = Ended(sessions) /\ live' = [l \in Lives |-> NoLive]
      /\ states' = Untracked /\ entry' = NoEntry
      /\ UNCHANGED <<disk, job, readers>>
  BY DEF Unloaded
<1>2. ASSUME NEW l \in Lives
      PROVE  /\ sessions'[l].log = sessions[l].log
             /\ sessions'[l].at # "gone"
             /\ \A at \in {"unborn", "open"} : sessions'[l].at = at <=> sessions[l].at = at
             /\ live'[l] = NoLive
  <2>1. sessions[l] \in SessionRecs BY Typed
  <2>2. sessions'[l] = IF sessions[l].at = "gone" THEN [sessions[l] EXCEPT !.at = "dead"]
                       ELSE sessions[l]
    BY <1>1 DEF Ended
  <2> QED BY <1>1, <2>1, <2>2 DEF SessionRecs
<1>3. /\ Untracked.owner = None /\ Untracked.cursor = 0 /\ ~Untracked.made
      /\ ~Untracked.tracked
  BY DEF Untracked
<1>4. NoLive.init = "none" /\ NoLive.flush = "no" BY NoLiveFields
<1>5. job = NoJob /\ job' = NoJob BY <1>1, JobIdle
<1>6. entry'.phase = "none" BY <1>1 DEF NoEntry
<1>7. FileInv'
  <2>1. \A l \in Lives : Present(l)' => Present(l) BY <1>2, <1>4 DEF Present
  <2> QED BY <1>1, <1>2, <1>3, <2>1 DEF FileInv
<1>8. OwnerInv' BY <1>1, <1>3 DEF OwnerInv
<1>9. BatchInv' BY <1>5 DEF BatchInv, NoJob
<1>10. ContentInv' BY <1>1, <1>2, <1>4 DEF ContentInv, Safe, Owns, Flushing
<1>11. BornInv' BY <1>1, <1>2, <1>4 DEF BornInv
<1>12. OrderInv'
  <2>1. DOMAIN chain' = {} BY <1>1
  <2> QED BY <1>2, <1>4, <2>1 DEF OrderInv, Ordered, OneFetch, SomeFetch, Among
<1>13. ColdInv' BY <1>1, <1>6 DEF ColdInv
<1>14. EntryInv' BY <1>1 DEF EntryInv, NoEntry
<1>15. CallInv' BY <1>1, CallsQuiet DEF Inv, PluginInv
<1> QED BY <1>7, <1>8, <1>9, <1>10, <1>11, <1>12, <1>13, <1>14, <1>15

LEMMA MountContent ==
  ASSUME Inv, Inv', Content, Mount
  PROVE  Content'
<1> USE DEF Content
<1> DEFINE adopted == CHOOSE l \in Open : TRUE
<1>1. /\ plugin = "off" /\ plugin' = "on" /\ chain = <<>>
      /\ \A l \in Lives : live[l] = NoLive
      /\ \A r \in Readers : readers[r].at \in {"idle", "done"}
      /\ sessions' = [l \in Lives |->
           IF l \in Open THEN [sessions[l] EXCEPT !.born = Len(sessions[l].log)]
           ELSE sessions[l]]
      /\ live' = [l \in Lives |-> IF l \in Open THEN Starting ELSE NoLive]
      /\ chain' = IF Open = {} THEN <<>> ELSE Op("create", adopted)
      /\ UNCHANGED <<disk, states, retirement, job, entry, readers>>
  BY DEF Mount, Inv, PluginInv
<1>2. Open # {} => adopted \in Open BY DEF Open
<1> HIDE DEF adopted
<1>3. \A l \in Lives : l \in Open <=> sessions[l].at = "open" BY DEF Open
<1>4. NoLive.init = "none" /\ NoLive.flush = "no"
      /\ Starting.init = "pending" /\ Starting.flush = "no"
  BY NoLiveFields, StartingFields
<1>5. ASSUME NEW l \in Lives
      PROVE  /\ sessions'[l].log = sessions[l].log /\ sessions'[l].at = sessions[l].at
             /\ live'[l] = IF sessions[l].at = "open" THEN Starting ELSE NoLive
             /\ sessions[l].at = "open" => sessions'[l].born = Len(sessions[l].log)
  <2>1. sessions[l] \in SessionRecs BY Typed
  <2> QED BY <1>1, <1>3, <2>1 DEF SessionRecs
<1>6. job = NoJob /\ job' = NoJob BY <1>1, JobIdle
<1>7. \A k, l \in Lives : k < l /\ sessions[k].at = "open" => sessions[l].at = "unborn"
  BY DEF BornInv
<1>8. \A k, l \in Lives : sessions[k].at = "open" /\ sessions[l].at = "open" => k = l
  <2>1. ASSUME NEW k \in Lives, NEW l \in Lives, sessions[k].at = "open",
               sessions[l].at = "open"
        PROVE  k = l
    <3>1. ~(k < l) /\ ~(l < k) BY <1>7, <2>1
    <3> QED BY <3>1, LifeNumbers
  <2> QED BY <2>1
<1>9. FileInv' BY <1>1, <1>4, <1>5, FileSame DEF Present
<1>10. OwnerInv' BY <1>1, <1>5, OwnerSame
<1>11. BatchInv' BY <1>6 DEF BatchInv, NoJob
<1>12. ContentInv'
  <2>1. ASSUME NEW l \in Lives
        PROVE  /\ Safe(live'[l], sessions'[l], TRUE, disk.log)
               /\ Owns(live'[l], sessions'[l], states.owner = l)
    <3>1. CASE sessions[l].at = "open"
      <4>1. \A n \in Claims(live'[l], sessions'[l], TRUE) : n <= sessions'[l].born
        BY <1>5, <3>1 DEF Claims
      <4> QED BY <1>4, <1>5, <3>1, <4>1 DEF Safe, Owns, Flushing
    <3>2. CASE sessions[l].at # "open"
      <4>1. sessions[l].at # "gone" BY <1>1 DEF BornInv
      <4> QED BY <1>4, <1>5, <3>2, <4>1 DEF Safe, Owns, Flushing
    <3> QED BY <3>1, <3>2
  <2>2. (plugin' = "on") = TRUE BY <1>1
  <2> QED BY <1>1, <2>1, <2>2 DEF ContentInv
<1>13. BornInv'
  <2>1. \A k, l \in Lives : k < l =>
          /\ sessions'[k].at \in {"unborn", "open"} => sessions'[l].at = "unborn"
          /\ live'[k].init = "pending" => live'[l].init \in {"none", "pending"}
    BY <1>4, <1>5 DEF BornInv
  <2>2. \A l \in Lives : live'[l].init = "pending" => sessions'[l].at = "open"
    BY <1>4, <1>5
  <2> QED BY <1>1, <2>1, <2>2 DEF BornInv
<1>14. OrderInv'
  <2>1. CASE Open = {}
    <3>1. DOMAIN chain' = {} BY <1>1, <2>1
    <3>2. \A l \in Lives : live'[l] = NoLive BY <1>3, <1>5, <2>1
    <3> QED BY <1>4, <3>1, <3>2 DEF OrderInv, Ordered, OneFetch, SomeFetch, Among
  <2>2. CASE Open # {}
    <3> DEFINE o == OpOf("create", adopted)
    <3>1. chain' = <<o>> BY <1>1, <2>2 DEF Op, OpOf
    <3>2. o.op = "create" /\ o.by = adopted BY DEF OpOf
    <3> HIDE DEF o
    <3>3. DOMAIN chain' = {1} /\ chain'[1] = o BY <3>1
    <3>4. \A i, j \in DOMAIN chain' : ~(i < j) BY <3>3
    <3>5. Ordered(chain') /\ OneFetch(chain') /\ ~SomeFetch(chain')
      BY <3>2, <3>3, <3>4 DEF Ordered, OneFetch, SomeFetch, Fetches
    <3>6. \A op, l : Among(OpOf(op, l), chain') => op = "create"
      BY <3>2, <3>3 DEF Among, OpOf
    <3>7. ASSUME NEW l \in Lives, live'[l].init = "pending"
          PROVE  Among(OpOf("create", l), chain')
      <4>1. sessions[l].at = "open" BY <1>4, <1>5, <3>7
      <4>2. adopted \in Lives /\ sessions[adopted].at = "open" BY <1>2, <2>2 DEF Open
      <4>3. l = adopted BY <1>8, <4>1, <4>2
      <4> QED BY <3>3, <4>3 DEF Among, o
    <3> QED BY <3>5, <3>6, <3>7 DEF OrderInv, Starters
  <2> QED BY <2>1, <2>2
<1>15. ColdInv' BY <1>1 DEF ColdInv
<1>16. EntryInv' BY <1>1 DEF EntryInv, Growing
<1>17. CallInv' BY <1>1, CallsQuiet
<1> QED BY <1>9, <1>10, <1>11, <1>12, <1>13, <1>14, <1>15, <1>16, <1>17

-----------------------------------------------------------------------------
(* The process dies, and the first one starts.                             *)

\* What a crash leaves is what was there, and of an append or a repair a part.
Left(d, n) ==
  /\ d.log \in Seq(Events) /\ Begins(disk.log, d.log) /\ Len(d.log) = Len(disk.log) + n
  /\ n \in 0 .. Len(job.batch)
  /\ \A i \in 1 .. n : d.log[Len(disk.log) + i] = job.batch[i]
  /\ n # 0 => job.does \in {"append", "repair"} /\ ~Clobbers
  /\ disk.made => d.made
  /\ d.made /\ ~disk.made => n # 0
  /\ d.torn => disk.torn \/ disk.made

LEMMA PartLeft ==
  ASSUME Inv, job.does \in {"append", "repair"}, ~Clobbers, NEW n \in 0 .. Len(job.batch),
         NEW d, d.log = disk.log \o SubSeq(job.batch, 1, n), d.made \in BOOLEAN,
         disk.made => d.made, d.made /\ ~disk.made => n # 0,
         d.torn => disk.torn \/ disk.made
  PROVE  Left(d, n)
<1> DEFINE a == disk.log
           b == job.batch
           p == SubSeq(b, 1, n)
           c == a \o p
<1>1. /\ a \in Seq(Events) /\ b \in Seq(Events) /\ Len(a) \in Nat /\ Len(b) \in Nat
      /\ n \in 0 .. Len(b) /\ n \in Nat
  BY Typed
<1> HIDE DEF a, b
<1>2. p \in Seq(Events) /\ Len(p) = n /\ \A i \in 1 .. n : p[i] = b[i]
  <2>1. \A i \in 1 .. n : b[i] \in Events BY <1>1, ElementOfSeq
  <2> QED BY <1>1, <2>1, SubSeqProperties
<1> HIDE DEF p
<1>3. /\ c \in Seq(Events) /\ Len(c) = Len(a) + n
      /\ \A i \in 1 .. Len(a) + n : c[i] = IF i <= Len(a) THEN a[i] ELSE p[i - Len(a)]
  BY <1>1, <1>2, ConcatProperties
<1> HIDE DEF c
<1>4. \A i \in 1 .. Len(a) : c[i] = a[i] BY <1>1, <1>3
<1>5. ASSUME NEW i \in 1 .. n PROVE c[Len(a) + i] = b[i]
  <2> DEFINE j == Len(a) + i
  <2>1. i \in Nat /\ j \in 1 .. Len(a) + n /\ ~(j <= Len(a)) /\ j - Len(a) = i BY <1>1
  <2> HIDE DEF j
  <2>2. c[j] = p[i] BY <1>3, <2>1
  <2> QED BY <1>2, <2>2 DEF j
<1>6. Begins(a, c) BY <1>1, <1>3, <1>4 DEF Begins
<1>7. d.log = c BY DEF c, a, p, b
<1>8. n \in 0 .. Len(job.batch) OBVIOUS
<1> QED BY <1>3, <1>5, <1>6, <1>7, <1>8 DEF Left, a, b

LEMMA RemainsLeft ==
  ASSUME Inv, Content, NEW d \in Remains
  PROVE  \E n \in Nat : Left(d, n)
<1> DEFINE part(n) == SubSeq(job.batch, 1, n)
           N == 0 .. Len(job.batch)
           whole(n) == [disk EXCEPT !.log = @ \o part(n)]
           torn(n) == [disk EXCEPT !.log = @ \o part(n), !.torn = TRUE]
           frame == [disk EXCEPT !.log = @ \o job.batch]
           tails(n) == [disk EXCEPT !.tail = part(n), !.torn = TRUE]
           fresh == [disk EXCEPT !.made = TRUE, !.log = job.batch]
           same == \/ job.does \notin {"append", "repair"} \/ job.cut \/ Clobbers
                   \/ job.batch = <<>>
           parted == {disk}
             \cup (IF "lines" \in Codecs THEN {whole(n) : n \in N} \cup {torn(n) : n \in N} ELSE {})
             \cup (IF "zstd" \in Codecs THEN {frame} \cup {tails(n) : n \in N} ELSE {})
<1>1. /\ disk \in Disks /\ disk.log \in Seq(Events) /\ job.batch \in Seq(Events)
      /\ Len(disk.log) \in Nat /\ Len(job.batch) \in Nat
  BY Typed DEF Inv, TypeInv
<1>2. Remains = IF same THEN {disk} ELSE IF ~disk.made THEN {disk, fresh} ELSE parted
  BY DEF Remains
<1>3. \/ d = disk
      \/ ~same /\ ~disk.made /\ d = fresh
      \/ ~same /\ disk.made /\ d \in parted
  <2> HIDE DEF same, parted, fresh
  <2> QED BY <1>2
<1>4. Left(disk, 0) /\ 0 \in Nat
  <2>1. Begins(disk.log, disk.log) BY <1>1 DEF Begins
  <2>2. disk.torn => disk.made BY DEF Content, FileInv
  <2> QED BY <1>1, <2>1, <2>2 DEF Left
<1>5. SubSeq(job.batch, 1, Len(job.batch)) = job.batch BY <1>1, SubSeqFull
<1>6. CASE ~same /\ ~disk.made /\ d = fresh
  <2>1. d.made = TRUE /\ d.log = job.batch /\ d.torn = disk.torn BY <1>1, <1>6 DEF Disks
  <2>2. Len(job.batch) # 0 BY <1>1, <1>6, EmptySeq
  <2>3. disk.log = <<>> BY <1>6 DEF Inv, DiskInv
  <2>4. d.log = disk.log \o SubSeq(job.batch, 1, Len(job.batch))
    BY <1>1, <1>5, <2>1, <2>3, ConcatEmptySeq
  <2> DEFINE n == Len(job.batch)
  <2>5. n \in 0 .. Len(job.batch) BY <1>1
  <2>6. Left(d, n) BY <1>6, <2>1, <2>2, <2>4, <2>5, PartLeft
  <2> QED BY <1>1, <2>6
<1>7. CASE ~same /\ disk.made /\ \E n \in N : d = whole(n) \/ d = torn(n)
  <2>1. PICK n \in N : d = whole(n) \/ d = torn(n) BY <1>7
  <2>2. d.log = disk.log \o SubSeq(job.batch, 1, n) /\ d.made = disk.made
    BY <1>1, <2>1 DEF Disks
  <2>3. Left(d, n) BY <1>7, <2>2, PartLeft
  <2> QED BY <2>3
<1>8. CASE ~same /\ disk.made /\ d = frame
  <2>1. d.log = disk.log \o job.batch /\ d.made = disk.made BY <1>1, <1>8 DEF Disks
  <2> DEFINE n == Len(job.batch)
  <2>2. n \in 0 .. Len(job.batch) BY <1>1
  <2>3. d.log = disk.log \o SubSeq(job.batch, 1, n)
    <3> HIDE DEF frame, same
    <3> QED BY <1>5, <2>1
  <2>4. disk.torn => disk.made BY DEF Content, FileInv
  <2>5. d.torn = disk.torn BY <1>1, <1>8 DEF Disks
  <2>6. job.does \in {"append", "repair"} /\ ~Clobbers BY <1>8
  <2>7. d.made /\ disk.made BY <1>8, <2>1
  <2> HIDE DEF n, frame, same
  <2>8. Left(d, n) BY <2>2, <2>3, <2>5, <2>6, <2>7, PartLeft
  <2> QED BY <1>1, <2>8 DEF n
<1>9. CASE disk.made /\ \E n \in N : d = tails(n)
  <2>1. d.log = disk.log /\ d.made = disk.made BY <1>1, <1>9 DEF Disks
  <2> QED BY <1>4, <1>9, <2>1 DEF Left
<1>10. d \in parted =>
         d = disk \/ (\E n \in N : d = whole(n) \/ d = torn(n)) \/ d = frame
         \/ \E n \in N : d = tails(n)
  <2> HIDE DEF whole, torn, frame, tails
  <2> QED OBVIOUS
<1> HIDE DEF same, parted, whole, torn, frame, tails, fresh, N
<1> QED BY <1>3, <1>4, <1>6, <1>7, <1>8, <1>9, <1>10

\* The batch of an append continues the owner's log behind the file.
LEMMA AppendContinues ==
  ASSUME Inv, Content, job.does = "append", ~Clobbers
  PROVE  /\ Head1.by \in Lives /\ states.cursor = Len(disk.log)
         /\ \A i \in 1 .. Len(job.batch) :
              /\ Len(disk.log) + i \in 1 .. Len(sessions[Head1.by].log)
              /\ job.batch[i] = sessions[Head1.by].log[Len(disk.log) + i]
              /\ job.batch[i].by # None
<1> DEFINE l == Head1.by
           m == Len(disk.log)
           n == Len(job.batch)
<1>1. l \in Lives
  <2>1. chain # <<>> /\ Head1.op \in LifeOps BY DEF Inv, JobInv, LifeOps
  <2> QED BY <2>1, HeadLife
<1>2. /\ m \in Nat /\ n \in Nat /\ states.cursor \in Nat /\ Len(sessions[l].log) \in Nat
      /\ disk.log \in Seq(Events)
  BY <1>1, Typed
<1>3. /\ states.cursor + n <= Len(sessions[l].log)
      /\ \A i \in 1 .. n : job.batch[i] = sessions[l].log[states.cursor + i]
  BY DEF Content, BatchInv
<1>4. states.cursor = m
  <2>1. CASE states.made BY <2>1 DEF Content, OwnerInv
  <2>2. CASE ~states.made
    <3>1. ~disk.made BY <2>2 DEF Clobbers
    <3>2. disk.log = <<>> /\ states.cursor = 0 BY <2>2, <3>1 DEF Inv, DiskInv, Content, OwnerInv
    <3> QED BY <3>2, EmptySeq
  <2> QED BY <2>1, <2>2
<1> HIDE DEF l, m, n
<1>5. ASSUME NEW i \in 1 .. n
      PROVE  /\ m + i \in 1 .. Len(sessions[l].log)
             /\ job.batch[i] = sessions[l].log[m + i] /\ job.batch[i].by # None
  <2>1. m + i \in 1 .. Len(sessions[l].log) /\ ~(m + i <= m) BY <1>2, <1>3, <1>4
  <2>2. job.batch[i] = sessions[l].log[m + i] BY <1>3, <1>4
  <2>3. sessions[l].log[m + i].by # None
    BY <1>1, <2>1 DEF Content, FileInv, m
  <2> QED BY <2>1, <2>2, <2>3
<1> QED BY <1>1, <1>4, <1>5 DEF l, m, n

LEMMA CrashContent ==
  ASSUME Inv, Inv', Content, Crash
  PROVE  Content'
<1> USE DEF Content
<1> DEFINE m == Len(disk.log)
<1>1. /\ disk' \in Remains /\ chain' = <<>> /\ job' = NoJob /\ plugin' = "on"
      /\ sessions' = [l \in Lives |->
           IF sessions[l].at = "unborn" THEN sessions[l] ELSE [sessions[l] EXCEPT !.at = "dead"]]
      /\ live' = [l \in Lives |-> NoLive]
      /\ states' = Untracked /\ entry' = NoEntry
      /\ readers' = [r \in Readers |-> NoCall]
  BY DEF Crash, Happens
<1>2. ASSUME NEW l \in Lives
      PROVE  /\ sessions'[l].log = sessions[l].log
             /\ sessions'[l].at = IF sessions[l].at = "unborn" THEN "unborn" ELSE "dead"
             /\ live'[l] = NoLive
  <2>1. sessions[l] \in SessionRecs BY Typed
  <2> QED BY <1>1, <2>1 DEF SessionRecs
<1>3. /\ Untracked.owner = None /\ Untracked.cursor = 0 /\ ~Untracked.made
      /\ ~Untracked.tracked
  BY DEF Untracked
<1>4. NoLive.init = "none" /\ NoLive.flush = "no" BY NoLiveFields
<1>5. PICK n \in Nat : Left(disk', n) BY <1>1, RemainsLeft
<1>6. /\ disk'.log \in Seq(Events) /\ Len(disk'.log) = m + n /\ m \in Nat
      /\ Begins(disk.log, disk'.log) /\ disk.log \in Seq(Events)
  BY <1>5, Typed DEF Left
<1> HIDE DEF m
<1>7. disk.made => 1 \in 1 .. m /\ disk'.log[1] = disk.log[1]
  <2> SUFFICES ASSUME disk.made PROVE 1 \in 1 .. m /\ disk'.log[1] = disk.log[1] OBVIOUS
  <2>1. Len(disk.log) # 0 BY <1>6, EmptySeq DEF FileInv
  <2>2. 1 \in 1 .. Len(disk.log) BY <1>6, <2>1 DEF m
  <2> QED BY <1>6, <2>2 DEF Begins, m
<1>8. FileInv'
  <2>1. disk'.made => disk'.log # <<>>
    <3>1. disk'.made => m # 0 \/ n # 0 BY <1>5, <1>6, <1>7 DEF Left
    <3>2. disk'.made => Len(disk'.log) # 0 BY <1>6, <3>1
    <3> QED BY <1>6, <3>2, EmptySeq
  <2>2. ASSUME NEW l \in Lives, sessions[l].at = "unborn", disk'.made
        PROVE  disk'.log[1].by # l
    <3>1. CASE disk.made BY <1>7, <2>2, <3>1 DEF FileInv
    <3>2. CASE ~disk.made
      <4>1. m = 0 BY <3>2, EmptySeq DEF Inv, DiskInv, m
      <4>2. n # 0 /\ job.does \in {"append", "repair"} /\ ~Clobbers /\ n <= Len(job.batch)
        BY <1>5, <2>2, <3>2 DEF Left
      <4>3. job.does = "append" BY <3>2, <4>2 DEF BatchInv
      <4>4. 1 \in 1 .. n /\ 1 \in 1 .. Len(job.batch) BY <4>2, Typed
      <4>5. disk'.log[m + 1] = job.batch[1] BY <1>5, <4>4 DEF Left, m
      <4>6. /\ Head1.by \in Lives /\ m + 1 \in 1 .. Len(sessions[Head1.by].log)
            /\ job.batch[1] = sessions[Head1.by].log[m + 1]
        BY <4>2, <4>3, <4>4, AppendContinues DEF m
      <4>7. disk'.log[1] = sessions[Head1.by].log[1] /\ Len(sessions[Head1.by].log) # 0
        BY <4>1, <4>5, <4>6, Typed
      <4>8. sessions[Head1.by].log # <<>> BY <4>7, EmptySeq
      <4> QED BY <2>2, <4>6, <4>7, <4>8 DEF FileInv
    <3> QED BY <3>1, <3>2
  <2>3. disk'.torn => disk'.made BY <1>5 DEF Left, FileInv
  <2>4. \A l \in Lives : ~Present(l)' BY <1>2, <1>4 DEF Present
  <2>5. ASSUME NEW l \in Lives, NEW i \in 1 .. Len(sessions[l].log),
               sessions[l].log[i].by = None
        PROVE  i <= Len(disk'.log)
    <3>1. i <= m BY <2>5 DEF FileInv, m
    <3> QED BY <1>6, <3>1, Typed
  <2>6. ~states'.tracked BY <1>1, <1>3
  <2>7. \A l \in Lives : sessions'[l].log = sessions[l].log
          /\ (sessions'[l].at = "unborn" => sessions[l].at = "unborn")
    BY <1>2
  <2> QED BY <2>1, <2>2, <2>3, <2>4, <2>5, <2>6, <2>7 DEF FileInv
<1>9. OwnerInv' BY <1>1, <1>3 DEF OwnerInv
<1>10. BatchInv' BY <1>1 DEF BatchInv, NoJob
<1>11. ContentInv'
  <2>1. \A l \in Lives : sessions'[l].at \notin {"open", "gone"} /\ live'[l] = NoLive
    BY <1>2
  <2> QED BY <1>4, <2>1 DEF ContentInv, Safe, Owns, Flushing
<1>12. BornInv'
  <2>1. \A l \in Lives : live'[l].init = "none" /\ sessions'[l].at # "open"
          /\ (sessions'[l].at = "unborn" <=> sessions[l].at = "unborn")
    BY <1>2, <1>4
  <2> QED BY <1>1, <2>1 DEF BornInv
<1>13. OrderInv'
  <2>1. DOMAIN chain' = {} BY <1>1
  <2> QED BY <1>2, <1>4, <2>1 DEF OrderInv, Ordered, OneFetch, SomeFetch, Among
<1>14. entry'.phase = "none" BY <1>1 DEF NoEntry
<1>15. ColdInv' BY <1>1, <1>14 DEF ColdInv
<1>16. EntryInv' BY <1>1 DEF EntryInv, NoEntry
<1>17. CallInv'
  <2>1. \A r \in Readers : readers'[r] = NoCall BY <1>1
  <2>2. NoCall.at = "idle" /\ NoCall.holds = FALSE BY IdleFields
  <2> QED BY <2>1, <2>2, CallIdle DEF CallInv
<1> QED BY <1>8, <1>9, <1>10, <1>11, <1>12, <1>13, <1>15, <1>16, <1>17

LEMMA InitContent ==
  ASSUME Init
  PROVE  Content
<1>1. /\ disk = NoDisk
      /\ sessions = [l \in Lives |-> [at |-> "unborn", log |-> <<>>, born |-> 0]]
      /\ live = [l \in Lives |-> NoLive]
      /\ states = Untracked /\ retirement = None
      /\ chain = <<>> /\ job = NoJob /\ entry = NoEntry
      /\ readers = [r \in Readers |-> NoCall] /\ plugin = "on"
  BY DEF Init
<1>2. /\ disk.made = FALSE /\ disk.torn = FALSE /\ disk.log = <<>> /\ Len(disk.log) = 0
      /\ states.owner = None /\ states.cursor = 0 /\ ~states.made /\ ~states.tracked
      /\ entry.phase = "none" /\ entry.source = NoSource /\ job.does = "nothing"
      /\ DOMAIN chain = {}
  BY <1>1 DEF NoDisk, Untracked, NoEntry, NoJob
<1>3. \A l \in Lives : /\ sessions[l].at = "unborn" /\ sessions[l].log = <<>>
                       /\ Len(sessions[l].log) = 0 /\ live[l] = NoLive
  BY <1>1
<1>4. NoLive.init = "none" /\ NoLive.flush = "no" BY NoLiveFields
<1>5. FileInv BY <1>2, <1>3 DEF FileInv
<1>6. OwnerInv BY <1>1, <1>2 DEF OwnerInv
<1>7. BatchInv BY <1>2 DEF BatchInv
<1>8. ContentInv BY <1>3, <1>4 DEF ContentInv, Safe, Owns, Flushing
<1>9. BornInv BY <1>1, <1>3, <1>4 DEF BornInv
<1>10. OrderInv BY <1>2, <1>3, <1>4 DEF OrderInv, Ordered, OneFetch, SomeFetch, Among
<1>11. ColdInv /\ EntryInv BY <1>2 DEF ColdInv, EntryInv
<1>12. CallInv
  <2>1. \A r \in Readers : readers[r] = NoCall BY <1>1
  <2> QED BY <2>1, CallIdle, IdleFields DEF CallInv
<1> QED BY <1>5, <1>6, <1>7, <1>8, <1>9, <1>10, <1>11, <1>12 DEF Content

-----------------------------------------------------------------------------
(* The theorems.                                                           *)

LEMMA ContentNext ==
  ASSUME Inv, Inv', Content, [Next]_vars
  PROVE  Content'
<1>1. CASE UNCHANGED vars
  <2> USE <1>1 DEF vars, Content
  <2>1. FileInv' BY DEF FileInv, Present
  <2>2. OwnerInv' BY DEF OwnerInv
  <2>3. BatchInv' BY DEF BatchInv, Head1
  <2>4. ContentInv' BY DEF ContentInv
  <2>5. BornInv' /\ ColdInv' BY DEF BornInv, ColdInv
  <2>6. OrderInv' BY DEF OrderInv
  <2>7. EntryInv' /\ CallInv' BY DEF EntryInv, CallInv, Growing
  <2> QED BY <2>1, <2>2, <2>3, <2>4, <2>5, <2>6, <2>7
<1>2. CASE StorageStep
  <2>1. CASE OnCreated BY <2>1, OnCreatedContent
  <2>2. CASE StartLiveBatch BY <2>2, StartLiveBatchContent
  <2>3. CASE StartSuffix BY <2>3, StartSuffixContent
  <2>4. CASE Retire BY <2>4, RetireContent
  <2>5. CASE Read BY <2>5, ReadContent
  <2>6. CASE Check BY <2>6, CheckContent
  <2>7. CASE Commit BY <2>7, CommitContent
  <2>8. CASE CutTail BY <2>8, CutTailContent
  <2>9. CASE WriteBatch BY <2>9, WriteBatchContent
  <2>10. CASE JobFails BY <2>10, JobFailsContent
  <2>11. CASE Appended BY <2>11, AppendedContent
  <2>12. CASE CommitRepaired BY <2>12, CommitRepairedContent
  <2> QED BY <1>2, <2>1, <2>2, <2>3, <2>4, <2>5, <2>6, <2>7, <2>8, <2>9, <2>10, <2>11, <2>12
       DEF StorageStep
<1>3. ASSUME NEW l \in Lives, ControllerStep(l) \/ Window(l) PROVE Content'
  <2>1. CASE FlushGo(l) BY <2>1, FlushContent
  <2>2. CASE FlushOver(l) BY <2>2, FlushOverContent
  <2>3. CASE FlushFails(l) BY <2>3, FlushFailsContent
  <2>4. CASE DrainStep(l) \/ Window(l) BY <2>4, ControllerContent
  <2>5. CASE WriteRefused(l) BY <2>5, WriteRefusedContent
  <2> QED BY <1>3, <2>1, <2>2, <2>3, <2>4, <2>5 DEF ControllerStep
<1>4. ASSUME NEW r \in Readers, ReaderStep(r) PROVE Content'
  <2>1. CASE LookAtLive(r) BY <2>1, LookAtLiveContent
  <2>2. CASE Join(r) BY <2>2, JoinContent
  <2>3. CASE AskCheck(r) BY <2>3, AskCheckContent
  <2>4. CASE Reserve(r) BY <2>4, ReserveContent
  <2>5. ASSUME NEW setup \in BOOLEAN, Publish(r, setup) PROVE Content'
    BY <2>5, PublishContent
  <2>6. CASE Release(r) BY <2>6, ReleaseContent
  <2> QED BY <1>4, <2>1, <2>2, <2>3, <2>4, <2>5, <2>6 DEF ReaderStep
<1>5. CASE Unloaded BY <1>5, UnloadedContent
<1>6. CASE Environment
  <2>1. CASE Create BY <2>1, CreateContent
  <2>2. ASSUME NEW l \in Lives, (\E k \in Kinds : Emit(l, k)) \/ Flush(l) \/ Dispose(l)
        PROVE  Content'
    <3>1. ASSUME NEW k \in Kinds, Emit(l, k) PROVE Content' BY <3>1, EmitContent
    <3>2. CASE Flush(l) BY <3>2, FlushContent
    <3>3. CASE Dispose(l) BY <3>3, DisposeContent
    <3> QED BY <2>2, <3>1, <3>2, <3>3
  <2>3. ASSUME NEW r \in Readers, NEW c \in Calls, StartCall(r, c) PROVE Content'
    BY <2>3, StartCallContent
  <2>4. CASE Evict BY <2>4, EvictContent
  <2>5. CASE Unload BY <2>5, UnloadContent
  <2>6. CASE Mount BY <2>6, MountContent
  <2>7. CASE Crash BY <2>7, CrashContent
  <2> QED BY <1>6, <2>1, <2>2, <2>3, <2>4, <2>5, <2>6, <2>7 DEF Environment
<1> QED BY <1>1, <1>2, <1>3, <1>4, <1>5, <1>6 DEF Next

\* The file begins its owner's log, every event of a life is stored, queued or
\* of its seed, and only an id that is not live is prepared, in every state.
THEOREM ContentInvariance == Spec => []Content
<1>1. Init => Content BY InitContent
<1>2. Inv /\ Inv' /\ Content /\ [Next]_vars => Content' BY ContentNext
<1> QED BY <1>1, <1>2, Invariance, PTL DEF Spec

\* A load that returned has a balanced log that is, and stays, the beginning of
\* what is stored: of a live session (load flushes it first) as of a cold one.
THEOREM LoadsAlwaysDurable == Spec => []LoadsAreDurable
<1>1. ASSUME Inv, Content PROVE LoadsAreDurable
  <2> SUFFICES ASSUME NEW r \in Readers, readers[r].at = "done", readers[r].call = "load"
               PROVE  /\ Balanced(readers[r].source.log)
                      /\ IsPrefix(readers[r].source.log, Stored(disk))
    BY DEF LoadsAreDurable
  <2> DEFINE s == readers[r].source.log
  <2>1. Balanced(s) /\ Begins(s, disk.log) BY <1>1 DEF Content, CallInv, Call
  <2>2. s \in Seq(Events)
    <3>1. readers[r] \in CallRecs BY <1>1 DEF Inv, TypeInv
    <3> QED BY <3>1 DEF CallRecs, Sources, Logs
  <2>3. disk.log \in Seq(Events) /\ disk.tail \in Seq(Events) BY <1>1, Typed
  <2>4. Begins(s, disk.log \o disk.tail) BY <2>1, <2>2, <2>3, BeginsConcat
  <2>5. disk.log \o disk.tail \in Seq(Events) BY <2>3, ConcatProperties
  <2> QED BY <2>1, <2>2, <2>4, <2>5, PrefixBegins DEF Stored
<1> QED BY <1>1, Invariance, ContentInvariance, PTL

\* A step of the storage ends no flush, but that of a life it forgets.
LEMMA StorageFlushes ==
  ASSUME Inv, StorageStep, NEW l \in Lives, live'[l].init # "none"
  PROVE  live'[l].flush = live[l].flush
<1>1. live \in [Lives -> LiveRecs] /\ live[l] \in LiveRecs BY DEF Inv, TypeInv
<1>2. ASSUME NEW k, NEW w, live' = With(k, w) PROVE live'[l].flush = live[l].flush
  BY <1>1, <1>2 DEF With, LiveRecs
<1>3. ASSUME NEW k, NEW init, live' = Initialized(k, init)
      PROVE  live'[l].flush = live[l].flush
  BY <1>1, <1>3 DEF Initialized, LiveRecs
<1>4. CASE OnCreated BY <1>3, <1>4 DEF OnCreated, Bind, Refuse
<1>5. CASE StartLiveBatch BY <1>2, <1>5 DEF StartLiveBatch
<1>6. CASE StartSuffix BY <1>3, <1>6 DEF StartSuffix
<1>7. CASE Retire
  <2>1. live' = [live EXCEPT ![Head1.by] = NoLive] BY <1>7 DEF Retire
  <2>2. l # Head1.by BY <1>1, <2>1, NoLiveFields
  <2> QED BY <1>1, <2>1, <2>2
<1>8. CASE JobFails
  <2>1. job # NoJob BY <1>8 DEF JobFails, Fault, Clobbers, NoJob
  <2>2. Head1.op \in {"create", "suffix", "write", "commit"} BY <2>1, JobHead
  <2>3. CASE Head1.op = "write" BY <1>2, <1>8, <2>3 DEF JobFails
  <2>4. CASE Head1.op \in {"create", "suffix"} BY <1>3, <1>8, <2>4 DEF JobFails
  <2>5. CASE Head1.op = "commit" BY <1>8, <2>5 DEF JobFails
  <2> QED BY <2>2, <2>3, <2>4, <2>5
<1>9. CASE Appended BY <1>2, <1>3, <1>9 DEF Appended
<1>10. CASE Read \/ Check \/ Commit \/ CutTail \/ WriteBatch \/ CommitRepaired
  BY <1>10 DEF Read, Check, Commit, CutTail, WriteBatch, CommitRepaired
<1> QED BY <1>4, <1>5, <1>6, <1>7, <1>8, <1>9, <1>10 DEF StorageStep

\* A flush of a life that stays ends well by its barrier only.
LEMMA FlushesEnd ==
  ASSUME Inv, Content, [Next]_vars, NEW l \in Lives,
         live[l].flush = "draining", live'[l].flush = "no", live'[l].init # "none"
  PROVE  FlushOver(l)
<1>1. live \in [Lives -> LiveRecs] /\ live[l] \in LiveRecs BY DEF Inv, TypeInv
<1>2. live'[l] # live[l]  OBVIOUS
<1>3. \A k \in Lives : Asked(k).flush # "no" BY AskedFields DEF Inv
<1>4. ASSUME NEW k \in Lives, live' = [live EXCEPT ![k] = Asked(k)] PROVE FALSE
  BY <1>1, <1>2, <1>3, <1>4
<1>5. ASSUME NEW k, NEW w, live' = With(k, w) PROVE FALSE
  BY <1>1, <1>5 DEF With, LiveRecs
<1>6. CASE UNCHANGED vars BY <1>2, <1>6 DEF vars
<1>7. CASE StorageStep BY <1>7, StorageFlushes
<1>8. ASSUME NEW k \in Lives, ControllerStep(k) \/ Window(k) PROVE FlushOver(l)
  <2>1. CASE FlushGo(k)
    <3>1. live' = [live EXCEPT ![k] = [@ EXCEPT !.w = Drain(live[k].w), !.flush = "draining"]]
      BY <2>1 DEF FlushGo
    <3> QED BY <1>1, <3>1 DEF LiveRecs
  <2>2. CASE FlushOver(k)
    <3>1. live' = [live EXCEPT ![k] = FlushEnds(@, "no")] BY <2>2 DEF FlushOver
    <3>2. k = l BY <1>1, <1>2, <3>1
    <3> QED BY <2>2, <3>2
  <2>3. CASE FlushFails(k)
    <3> DEFINE v == [live[k] EXCEPT !.w = CancelWait(live[k].w)]
    <3>1. live' = [live EXCEPT ![k] = FlushEnds(v, "failed")] BY <2>3 DEF FlushFails
    <3>2. k = l BY <1>1, <1>2, <3>1
    <3>3. live'[l].flush = "failed" BY <1>1, <3>1, <3>2 DEF FlushEnds, LiveRecs
    <3> QED BY <3>3
  <2>4. CASE DrainStep(k) \/ Window(k) \/ WriteRefused(k)
    BY <1>5, <2>4 DEF DrainStep, Window, WriteRefused
  <2> QED BY <1>8, <2>1, <2>2, <2>3, <2>4 DEF ControllerStep
<1>9. ASSUME NEW r \in Readers, ReaderStep(r) PROVE FlushOver(l)
  <2>1. CASE LookAtLive(r)
    <3> DEFINE k == CHOOSE k \in Open : TRUE
    <3>1. k \in Lives BY <2>1 DEF LookAtLive, Open
    <3>2. live' = live \/ live' = [live EXCEPT ![k] = Asked(k)]
      <4>1. CASE readers[r].call = "prepare" BY <2>1, <4>1 DEF LookAtLive
      <4>2. CASE readers[r].call = "load" BY <2>1, <4>2 DEF LookAtLive
      <4>3. CASE readers[r].call \notin {"prepare", "load"} BY <2>1, <4>3 DEF LookAtLive
      <4> QED BY <4>1, <4>2, <4>3
    <3> HIDE DEF k
    <3> QED BY <1>2, <1>4, <3>1, <3>2
  <2>2. ASSUME NEW setup \in BOOLEAN, Publish(r, setup) PROVE FALSE
    <3>1. Unborn # {} /\ \E v : live' = [live EXCEPT ![NextLife] = v] BY <2>2 DEF Publish
    <3>2. live[NextLife] = NoLive BY <3>1, BeforeNext
    <3> QED BY <1>1, <1>2, <3>1, <3>2, NoLiveFields
  <2>3. CASE Join(r) \/ AskCheck(r) \/ Reserve(r) \/ Release(r)
    BY <1>2, <2>3 DEF Join, AskCheck, Reserve, Release
  <2> QED BY <1>9, <2>1, <2>2, <2>3 DEF ReaderStep
<1>10. CASE Unloaded BY <1>10, NoLiveFields DEF Unloaded
<1>11. CASE Environment
  <2>1. CASE Create
    <3>1. Unborn # {} /\ live' = [live EXCEPT ![NextLife] = Starting] BY <2>1 DEF Create
    <3>2. live[NextLife] = NoLive BY <3>1, BeforeNext
    <3> QED BY <1>1, <1>2, <3>1, <3>2, NoLiveFields
  <2>2. ASSUME NEW k \in Lives, (\E kind \in Kinds : Emit(k, kind)) \/ Flush(k) \/ Dispose(k)
        PROVE  FALSE
    <3>1. ASSUME NEW kind \in Kinds, Emit(k, kind) PROVE FALSE BY <1>2, <1>5, <3>1 DEF Emit
    <3>2. CASE Flush(k) \/ Dispose(k) BY <1>2, <1>4, <3>2 DEF Flush, Dispose
    <3> QED BY <2>2, <3>1, <3>2
  <2>3. CASE \E r \in Readers, c \in Calls : StartCall(r, c) BY <1>2, <2>3 DEF StartCall
  <2>4. CASE Evict BY <1>2, <2>4 DEF Evict
  <2>5. CASE Unload
    <3>1. live'[l] = IF live[l].init = "none" THEN live[l] ELSE Asked(l)
      BY <2>5 DEF Unload
    <3> QED BY <1>2, <1>3, <3>1
  <2>6. CASE Mount
    <3>1. live[l] = NoLive BY <2>6 DEF Mount, Inv, PluginInv
    <3> QED BY <3>1, NoLiveFields
  <2>7. CASE Crash BY <2>7, NoLiveFields DEF Crash
  <2> QED BY <1>11, <2>1, <2>2, <2>3, <2>4, <2>5, <2>6, <2>7 DEF Environment
<1> QED BY <1>6, <1>7, <1>8, <1>9, <1>10, <1>11 DEF Next

\* A flush that ends well leaves every event in the file that the session held
\* when it was called, whatever was queued, failed or retried in between.
THEOREM FlushAlwaysDurable == Spec => FlushIsDurable
<1>1. ASSUME Inv, Content, [Next]_vars, NEW l \in Lives,
             live[l].flush = "draining", live'[l].flush = "no", live'[l].init # "none"
      PROVE  IsPrefix(SubSeq(sessions[l].log, 1, live[l].upto), disk.log)
  <2> DEFINE log == sessions[l].log
             n == live[l].upto
             s == SubSeq(log, 1, n)
  <2>1. live[l].init = "ok" /\ ~HasWork(live[l].w)
    <3>1. FlushOver(l) BY <1>1, FlushesEnd
    <3>2. live[l].init = "ok" BY <1>1 DEF Inv, LivesInv, Stages
    <3>3. ~HasWork(live[l].w) BY <3>1 DEF FlushOver, Drained
    <3> QED BY <3>2, <3>3
  <2>2. n <= Len(log) /\ \A i \in 1 .. n : i <= Len(disk.log) /\ disk.log[i] = log[i]
    BY <1>1, <2>1, Flushed DEF Flushing
  <2>3. /\ log \in Seq(Events) /\ Len(log) \in Nat /\ n \in Nat
        /\ disk.log \in Seq(Events) /\ Len(disk.log) \in Nat
    BY <1>1, Typed
  <2> HIDE DEF log, n
  <2>4. \A i \in 1 .. n : log[i] \in Events BY <2>2, <2>3, ElementOfSeq
  <2>5. s \in Seq(Events) /\ Len(s) = n /\ \A i \in 1 .. n : s[i] = log[i]
    BY <2>3, <2>4, SubSeqProperties
  <2> HIDE DEF s
  <2>6. n <= Len(disk.log) BY <2>2, <2>3
  <2>7. Begins(s, disk.log) BY <2>2, <2>5, <2>6 DEF Begins
  <2> QED BY <2>3, <2>5, <2>7, PrefixBegins DEF s, log, n
<1>2. Inv /\ Content /\ [Next]_vars =>
        \A l \in Lives :
          live[l].flush = "draining" /\ live'[l].flush = "no" /\ live'[l].init # "none" =>
            IsPrefix(SubSeq(sessions[l].log, 1, live[l].upto), disk.log)
  BY <1>1
<1> QED BY <1>2, Invariance, ContentInvariance, PTL DEF Spec, FlushIsDurable

\* A step that publishes a stored log is one of Publish.
LEMMA ResumesPublish ==
  ASSUME Inv, [Next]_vars, NEW l \in Lives,
         sessions[l].at = "unborn", sessions'[l].at = "open", sessions'[l].born > 0
  PROVE  \E r \in Readers, setup \in BOOLEAN : Publish(r, setup) /\ l = NextLife
<1>1. /\ sessions \in [Lives -> SessionRecs] /\ sessions[l] \in SessionRecs
      /\ sessions[l].born = 0
  <2>1. /\ sessions[l].log = <<>> /\ sessions[l].born \in Nat
        /\ sessions[l].born <= Len(sessions[l].log)
    BY SessionParts
  <2> QED BY <2>1 DEF Inv, TypeInv
<1>2. sessions'[l] # sessions[l] /\ l \notin Open BY DEF Open
<1>3. CASE UNCHANGED vars BY <1>2, <1>3 DEF vars
<1>4. CASE StorageStep
  <2>1. UNCHANGED sessions
    BY <1>4 DEF StorageStep, OnCreated, StartLiveBatch, StartSuffix, Retire, Read, Check, Commit,
                CutTail, WriteBatch, JobFails, Appended, CommitRepaired
  <2> QED BY <1>2, <2>1
<1>5. CASE \E k \in Lives : ControllerStep(k) \/ Window(k)
  <2>1. UNCHANGED sessions
    BY <1>5 DEF ControllerStep, FlushGo, FlushOver, FlushFails, DrainStep, WriteRefused, Window
  <2> QED BY <1>2, <2>1
<1>6. ASSUME NEW r \in Readers, ReaderStep(r)
      PROVE  \E setup \in BOOLEAN : Publish(r, setup) /\ l = NextLife
  <2>1. CASE LookAtLive(r) \/ Join(r) \/ AskCheck(r) \/ Reserve(r) \/ Release(r)
    <3>1. UNCHANGED sessions BY <2>1 DEF LookAtLive, Join, AskCheck, Reserve, Release
    <3> QED BY <1>2, <3>1
  <2>2. ASSUME NEW setup \in BOOLEAN, Publish(r, setup) PROVE l = NextLife
    <3>1. \E t : sessions' = [sessions EXCEPT ![NextLife] = t] BY <2>2 DEF Publish
    <3> QED BY <1>1, <1>2, <3>1
  <2> QED BY <1>6, <2>1, <2>2 DEF ReaderStep
<1>7. CASE Unloaded
  <2>1. sessions'[l] = sessions[l] BY <1>7 DEF Unloaded, Ended
  <2> QED BY <1>2, <2>1
<1>8. CASE Environment
  <2>1. CASE Create
    <3>1. sessions' = [sessions EXCEPT ![NextLife] = [@ EXCEPT !.at = "open"]]
      BY <2>1 DEF Create
    <3>2. sessions'[l].born = 0 BY <1>1, <3>1 DEF SessionRecs
    <3> QED BY <3>2
  <2>2. ASSUME NEW k \in Lives, (\E kind \in Kinds : Emit(k, kind)) \/ Flush(k) \/ Dispose(k)
        PROVE  FALSE
    <3>1. UNCHANGED sessions \/ \E t : sessions' = [sessions EXCEPT ![k] = t] /\ k \in Open
      <4>1. ASSUME NEW kind \in Kinds, Emit(k, kind)
            PROVE  \E t : sessions' = [sessions EXCEPT ![k] = t] /\ k \in Open
        BY <4>1 DEF Emit
      <4>2. CASE Flush(k) BY <4>2 DEF Flush
      <4>3. CASE Dispose(k) BY <4>3 DEF Dispose
      <4> QED BY <2>2, <4>1, <4>2, <4>3
    <3> QED BY <1>1, <1>2, <3>1
  <2>3. CASE \E r \in Readers, c \in Calls : StartCall(r, c) BY <1>2, <2>3 DEF StartCall
  <2>4. CASE Evict \/ Unload BY <1>2, <2>4 DEF Evict, Unload
  <2>5. CASE Mount BY <1>2, <2>5 DEF Mount
  <2>6. CASE Crash BY <1>2, <2>6 DEF Crash
  <2> QED BY <1>8, <2>1, <2>2, <2>3, <2>4, <2>5, <2>6 DEF Environment
<1> QED BY <1>3, <1>4, <1>5, <1>6, <1>7, <1>8 DEF Next

\* What a session that left had accepted is in the log a reservation holds.
LEMMA GoneStored ==
  ASSUME Inv, Content, NEW r \in Readers, readers[r].at = "held", Open = {},
         states.owner = None, NEW k \in Lives, sessions[k].at = "gone",
         live[k].init # "refused", live[k].init = "broken" => HasWork(live[k].w)
  PROVE  /\ readers[r].source.log = disk.log
         /\ Begins(sessions[k].log, disk.log)
<1>1. /\ entry.phase = "reserved" /\ readers[r].source.log = disk.log
  BY HolderPhase DEF Content, CallInv, Call
<1>2. plugin = "on" BY DEF Inv, PluginInv
<1>3. live[k].init # "pending" BY <1>1, <1>2 DEF Content, ColdInv
<1>4. states.owner # k BY LifeNumbers
<1>5. Safe(live[k], sessions[k], TRUE, disk.log) /\ Owns(live[k], sessions[k], FALSE)
  BY <1>2, <1>4 DEF Content, ContentInv
<1>6. CASE live[k].init = "none" BY <1>1, <1>5, <1>6 DEF Safe
<1>7. CASE live[k].init = "ok"
  <2>1. ~HasWork(live[k].w) BY <1>5, <1>7 DEF Owns
  <2> QED BY <1>1, <1>2, <1>7, <2>1, AllStored
<1>8. live[k].init # "broken" BY <1>5 DEF Owns
<1>9. live[k].init \in {"none", "pending", "ok", "broken", "refused"} BY Typed, LiveParts
<1> QED BY <1>3, <1>6, <1>7, <1>8, <1>9

\* A resumed session continues every life that left before it: whatever a
\* disposed session accepted is in the log that is published.
THEOREM ResumeAlwaysContinues == Spec => ResumeContinues
<1>1. ASSUME Inv, Inv', Content, [Next]_vars, NEW k \in Lives, NEW l \in Lives,
             sessions[l].at = "unborn", sessions'[l].at = "open", sessions'[l].born > 0,
             sessions[k].at = "gone", live[k].init # "refused",
             live[k].init = "broken" => HasWork(live[k].w)
      PROVE  IsPrefix(sessions[k].log, sessions'[l].log)
  <2>1. PICK r \in Readers, setup \in BOOLEAN : Publish(r, setup) /\ l = NextLife
    BY <1>1, ResumesPublish
  <2> DEFINE more == IF setup THEN <<[kind |-> "note", by |-> l]>> ELSE <<>>
  <2>2. /\ readers[r].at = "held" /\ Open = {} /\ states.owner = None
        /\ sessions' = [sessions EXCEPT
             ![l] = [at |-> "open", log |-> Published(r, setup), born |-> Len(Published(r, setup))]]
        /\ Published(r, setup) = readers[r].source.log \o more
    BY <2>1 DEF Publish, Matches, Published
  <2>3. sessions'[l].log = readers[r].source.log \o more
    BY <1>1, <2>2 DEF Inv, TypeInv
  <2>4. readers[r].source.log = disk.log /\ Begins(sessions[k].log, disk.log)
    BY <1>1, <2>2, GoneStored
  <2>5. /\ sessions[k].log \in Seq(Events) /\ disk.log \in Seq(Events)
        /\ sessions'[l].log \in Seq(Events)
    BY <1>1, Typed, SessionParts DEF Inv, TypeInv, SessionRecs, Logs
  <2>6. more \in Seq(Events)
    <3>1. [kind |-> "note", by |-> l] \in Events BY <1>1 DEF Events, Kinds
    <3> QED BY <3>1
  <2> HIDE DEF more
  <2>7. Begins(sessions[k].log, disk.log \o more) BY <2>4, <2>5, <2>6, BeginsConcat
  <2> QED BY <2>3, <2>4, <2>5, <2>7, PrefixBegins
<1>2. Inv /\ Inv' /\ Content /\ [Next]_vars =>
        \A k, l \in Lives :
          sessions[l].at = "unborn" /\ sessions'[l].at = "open" /\ sessions'[l].born > 0
            /\ sessions[k].at = "gone" /\ live[k].init # "refused"
            /\ (live[k].init = "broken" => HasWork(live[k].w))
            => IsPrefix(sessions[k].log, sessions'[l].log)
  BY <1>1
<1> QED BY <1>2, Invariance, ContentInvariance, PTL DEF Spec, ResumeContinues

\* The log grows by a batch only, or by a part of it.
LEMMA LogGrows ==
  ASSUME Inv, [Next]_vars, disk'.log # disk.log
  PROVE  WriteBatch \/ Crash
<1>1. disk' # disk OBVIOUS
<1>2. CASE UNCHANGED vars BY <1>1, <1>2 DEF vars
<1>3. CASE StorageStep
  <2>1. CASE CutTail
    <3>1. disk' = [disk EXCEPT !.tail = <<>>, !.torn = FALSE] BY <2>1 DEF CutTail
    <3>2. disk \in Disks BY DEF Inv, TypeInv
    <3> QED BY <3>1, <3>2 DEF Disks
  <2>2. CASE OnCreated \/ StartLiveBatch \/ StartSuffix \/ Retire \/ Read \/ Check \/ Commit
             \/ JobFails \/ Appended \/ CommitRepaired
    BY <1>1, <2>2 DEF OnCreated, StartLiveBatch, StartSuffix, Retire, Read, Check, Commit,
                      JobFails, Appended, CommitRepaired
  <2> QED BY <1>3, <2>1, <2>2 DEF StorageStep
<1>4. CASE \E k \in Lives : ControllerStep(k) \/ Window(k)
  BY <1>1, <1>4 DEF ControllerStep, FlushGo, FlushOver, FlushFails, DrainStep, WriteRefused, Window
<1>5. CASE \E r \in Readers : ReaderStep(r)
  BY <1>1, <1>5 DEF ReaderStep, LookAtLive, Join, AskCheck, Reserve, Publish, Release
<1>6. CASE Unloaded BY <1>1, <1>6 DEF Unloaded
<1>7. CASE Environment
  <2>1. CASE \E l \in Lives : (\E k \in Kinds : Emit(l, k)) \/ Flush(l) \/ Dispose(l)
    BY <1>1, <2>1 DEF Emit, Flush, Dispose
  <2>2. CASE Create \/ Evict \/ Unload \/ Mount
    BY <1>1, <2>2 DEF Create, Evict, Unload, Mount
  <2>3. CASE \E r \in Readers, c \in Calls : StartCall(r, c) BY <1>1, <2>3 DEF StartCall
  <2> QED BY <1>7, <2>1, <2>2, <2>3 DEF Environment
<1> QED BY <1>2, <1>3, <1>4, <1>5, <1>6, <1>7 DEF Next

\* A batch with a closer in it is a repair's, and then nothing is live.
LEMMA ClosersCold ==
  ASSUME Inv, Content, job.does \in {"append", "repair"}, ~Clobbers,
         NEW i \in 1 .. Len(job.batch), job.batch[i].by = None
  PROVE  Open = {} /\ states.owner = None /\ retirement = None
<1>1. job.does = "repair" BY AppendContinues
<1>2. entry.phase = "committing" /\ plugin = "on" BY <1>1, Repairer
<1>3. retirement = None /\ Open = {} BY <1>2 DEF Content, ColdInv, Open
<1>4. states.owner = None BY <1>1 DEF Content, BatchInv, OwnerInv, Untracked
<1> QED BY <1>3, <1>4

\* Crash repair closes turns of a cold session only: no session is open, nobody
\* owns the id and no retirement is under way.
THEOREM RepairsAlwaysCold == Spec => RepairsOnlyCold
<1>1. ASSUME Inv, Content, [Next]_vars,
             NEW i \in (Len(disk.log) + 1) .. Len(disk'.log), disk'.log[i].by = None
      PROVE  Open = {} /\ states.owner = None /\ retirement = None
  <2> DEFINE m == Len(disk.log)
             b == job.batch
             j == i - m
  <2>1. m \in Nat /\ disk.log \in Seq(Events) /\ b \in Seq(Events) /\ Len(b) \in Nat
    BY <1>1, Typed
  <2>2. disk'.log # disk.log BY <1>1, <2>1
  <2>3. CASE WriteBatch
    <3>1. job.does \in {"append", "repair"} /\ ~Clobbers /\ disk'.log = disk.log \o b
      BY <1>1, <2>3 DEF WriteBatch, Inv, TypeInv, Disks
    <3>2. /\ Len(disk.log \o b) = m + Len(b)
          /\ \A n \in 1 .. m + Len(b) :
               (disk.log \o b)[n] = IF n <= m THEN disk.log[n] ELSE b[n - m]
      BY <2>1, ConcatProperties
    <3>3. Len(disk'.log) = m + Len(b) /\ i \in (m + 1) .. Len(disk'.log) BY <1>1, <3>1, <3>2
    <3> HIDE DEF m, b
    <3>4. i \in 1 .. m + Len(b) /\ ~(i <= m) /\ j \in 1 .. Len(b) BY <2>1, <3>3 DEF m
    <3>5. b[j].by = None BY <1>1, <3>1, <3>2, <3>4
    <3> QED BY <1>1, <3>1, <3>4, <3>5, ClosersCold DEF b
  <2>4. CASE Crash
    <3>1. disk' \in Remains BY <2>4 DEF Crash
    <3>2. PICK n \in Nat : Left(disk', n) BY <1>1, <3>1, RemainsLeft
    <3>3. /\ Len(disk'.log) = m + n /\ n \in 0 .. Len(b)
          /\ \A h \in 1 .. n : disk'.log[m + h] = b[h]
          /\ n # 0 => job.does \in {"append", "repair"} /\ ~Clobbers
      BY <3>2 DEF Left
    <3> HIDE DEF m, b
    <3>4. n # 0 /\ j \in 1 .. n /\ j \in 1 .. Len(b) /\ m + j = i
      BY <1>1, <2>1, <3>3 DEF m
    <3>5. b[j].by = None BY <1>1, <3>3, <3>4
    <3> QED BY <1>1, <3>3, <3>4, <3>5, ClosersCold DEF b
  <2> QED BY <1>1, <2>2, <2>3, <2>4, LogGrows
<1>2. Inv /\ Content /\ [Next]_vars =>
        ((\E i \in (Len(disk.log) + 1) .. Len(disk'.log) : disk'.log[i].by = None)
          => Open = {} /\ states.owner = None /\ retirement = None)
  BY <1>1
<1> QED BY <1>2, Invariance, ContentInvariance, PTL DEF Spec, RepairsOnlyCold

LEMMA LogKept ==
  ASSUME Inv, Content, [Next]_vars
  PROVE  Begins(disk.log, disk'.log)
<1>1. /\ disk.log \in Seq(Events) /\ Len(disk.log) \in Nat
      /\ job.batch \in Seq(Events) /\ Len(job.batch) \in Nat
  BY Typed
<1>2. Begins(disk.log, disk.log) BY <1>1 DEF Begins
<1>3. CASE WriteBatch
  <2>1. disk'.log = disk.log \o job.batch BY <1>3 DEF WriteBatch, Inv, TypeInv, Disks
  <2> QED BY <1>1, <1>2, <2>1, BeginsConcat
<1>4. CASE Crash
  <2>1. disk' \in Remains BY <1>4 DEF Crash
  <2>2. PICK n \in Nat : Left(disk', n) BY <2>1, RemainsLeft
  <2> QED BY <2>2 DEF Left
<1> QED BY <1>2, <1>3, <1>4, LogGrows

\* The file is append-only: no step, not even a crash, a failed publication or
\* the truncation of a torn tail, takes or changes a whole event.
THEOREM LogOnlyGrows == Spec => [][Begins(disk.log, disk'.log)]_vars
<1>1. Inv /\ Content /\ [Next]_vars => Begins(disk.log, disk'.log) BY LogKept
<1> QED BY <1>1, Invariance, ContentInvariance, PTL DEF Spec

\* The coordinator never binds an id to a session the file does not belong to:
\* what is stored is the beginning of the owner's log.
THEOREM StoredIsOwners ==
  Spec => [](states.owner # None => Begins(disk.log, sessions[states.owner].log))
<1>1. Content => (states.owner # None => Begins(disk.log, sessions[states.owner].log))
  BY DEF Content, OwnerInv
<1> QED BY <1>1, ContentInvariance, PTL

\* Crash repair converges: what it appends ends the turn, the step and the call
\* that were open, and of the closed log nothing is left to be closed.
THEOREM RepairConverges ==
  \A log \in Seq(Events) :
    LET closers == InterruptedTurnClosers(log)
        closed  == log \o closers
    IN  /\ Balanced(closed) /\ InterruptedTurnClosers(closed) = <<>>
        /\ closers # <<>> => ~OpenStep(closed) /\ ~PendingCall(closed)
<1> SUFFICES ASSUME NEW log \in Seq(Events)
             PROVE  LET closers == InterruptedTurnClosers(log)
                        closed  == log \o closers
                    IN  /\ Balanced(closed) /\ InterruptedTurnClosers(closed) = <<>>
                        /\ closers # <<>> => ~OpenStep(closed) /\ ~PendingCall(closed)
  OBVIOUS
<1> DEFINE c == InterruptedTurnClosers(log)
           d == log \o c
<1>1. CASE Balanced(log)
  <2>1. c = <<>> BY <1>1 DEF InterruptedTurnClosers
  <2>2. d = log BY <2>1, ConcatEmptySeq
  <2> QED BY <1>1, <2>1, <2>2
<1>2. CASE ~Balanced(log)
  <2> DEFINE e(kind) == [kind |-> kind, by |-> None]
             x == IF PendingCall(log) THEN <<e("result")>> ELSE <<>>
             y == IF OpenStep(log) THEN <<e("stepEnd")>> ELSE <<>>
             z == <<e("turnEnd")>>
             p == x \o y
  <2>1. c = x \o y \o z BY <1>2 DEF InterruptedTurnClosers, Closer
  <2>2. c = p \o z BY <2>1
  <2>3. \A kind \in Kinds : e(kind) \in Events BY DEF Events
  <2>4. e("result") \in Events /\ e("stepEnd") \in Events /\ e("turnEnd") \in Events
    BY <2>3 DEF Kinds
  <2>5. /\ z \in Seq(Events) /\ Len(z) = 1 /\ z[1] = e("turnEnd")
        /\ <<e("result")>> \in Seq(Events) /\ <<e("stepEnd")>> \in Seq(Events)
    <3> HIDE DEF e
    <3> QED BY <2>4
  <2>6. x \in Seq(Events) /\ y \in Seq(Events)
    <3>1. <<>> \in Seq(Events) BY EmptySeq
    <3> QED BY <2>5, <3>1
  <2> HIDE DEF x, y, z
  <2>7. p \in Seq(Events) /\ Len(p) \in Nat BY <2>6, ConcatProperties, LenProperties
  <2> HIDE DEF p
  <2>8. /\ c \in Seq(Events) /\ Len(c) = Len(p) + 1 /\ c[Len(p) + 1] = z[1]
    <3> HIDE DEF c
    <3>1. /\ p \o z \in Seq(Events) /\ Len(p \o z) = Len(p) + 1
          /\ \A i \in 1 .. Len(p) + 1 : (p \o z)[i] = IF i <= Len(p) THEN p[i] ELSE z[i - Len(p)]
      <4>1. z \in Seq(Events) /\ Len(z) = 1 BY <2>5
      <4> HIDE DEF e
      <4> QED BY <2>7, <4>1, ConcatProperties
    <3> DEFINE j == Len(p) + 1
    <3>2. j \in 1 .. Len(p) + 1 /\ ~(j <= Len(p)) /\ j - Len(p) = 1 BY <2>7
    <3> HIDE DEF j
    <3>3. (p \o z)[j] = z[1] BY <3>1, <3>2
    <3> QED BY <2>2, <3>1, <3>3 DEF j
  <2> HIDE DEF c
  <2> DEFINE n == Len(log) + Len(c)
  <2>9. /\ Len(log) \in Nat /\ Len(c) \in Nat /\ Len(c) # 0
    BY <2>7, <2>8, LenProperties
  <2>10. d \in Seq(Events) /\ Len(d) = n /\ n \in Nat /\ DOMAIN d = 1 .. n /\ d[n] = c[Len(c)]
    <3>1. /\ d \in Seq(Events) /\ Len(d) = n /\ DOMAIN d = 1 .. Len(d)
          /\ \A i \in 1 .. n : d[i] = IF i <= Len(log) THEN log[i] ELSE c[i - Len(log)]
      BY <2>8, <2>9, ConcatProperties, LenProperties
    <3>2. n \in Nat /\ n \in 1 .. n /\ ~(n <= Len(log)) /\ n - Len(log) = Len(c) BY <2>9
    <3> HIDE DEF d, n
    <3>3. d[n] = c[Len(c)] BY <3>1, <3>2
    <3> QED BY <3>1, <3>2, <3>3
  <2>11. d[n].kind = "turnEnd" BY <2>5, <2>7, <2>8, <2>10
  <2> HIDE DEF d, n
  <2>12. ASSUME NEW kind, NEW kinds, kind # "turnEnd", "turnEnd" \in kinds
         PROVE  ~OpenedBy(d, kind, kinds)
    <3> SUFFICES ASSUME NEW i \in DOMAIN d, d[i].kind = kind PROVE After(d, i, kinds)
      BY DEF OpenedBy
    <3>1. i # n BY <2>11, <2>12
    <3>2. n \in (i + 1) .. Len(d) BY <2>10, <3>1
    <3> QED BY <2>11, <2>12, <3>2 DEF After
  <2>13. ~OpenTurn(d) /\ ~OpenStep(d) /\ ~PendingCall(d)
    BY <2>12 DEF OpenTurn, OpenStep, PendingCall
  <2>14. InterruptedTurnClosers(d) = <<>> BY <2>13 DEF InterruptedTurnClosers, Balanced
  <2> QED BY <2>13, <2>14 DEF Balanced, d, c
<1> QED BY <1>1, <1>2

-----------------------------------------------------------------------------
(* The refinement of DurableLog.                                           *)

LEMMA DurablePrefix ==
  ASSUME NEW s \in Seq(Events), NEW t \in Seq(Events)
  PROVE  Durable!IsPrefix(s, t) <=> Begins(s, t)
BY PrefixBegins DEF IsPrefix, Durable!IsPrefix

\* What a repair stores, and what it has stored, is balanced.
Closing ==
  /\ job.does = "repair" => Balanced(disk.log \o job.batch)
  /\ job.does = "repaired" => Balanced(disk.log)

\* Who touches the file or the storage work.
LEMMA JobChanges ==
  ASSUME [Next]_vars
  PROVE  \/ UNCHANGED <<disk, job>>
         \/ OnCreated \/ StartLiveBatch \/ StartSuffix \/ Commit \/ CutTail \/ WriteBatch
         \/ JobFails \/ Appended \/ CommitRepaired \/ Crash
<1>1. CASE UNCHANGED vars BY <1>1 DEF vars
<1>2. CASE StorageStep
  <2>1. CASE Retire \/ Read \/ Check BY <2>1 DEF Retire, Read, Check
  <2> QED BY <1>2, <2>1 DEF StorageStep
<1>3. CASE \E k \in Lives : ControllerStep(k) \/ Window(k)
  BY <1>3 DEF ControllerStep, FlushGo, FlushOver, FlushFails, DrainStep, WriteRefused, Window
<1>4. CASE \E r \in Readers : ReaderStep(r)
  BY <1>4 DEF ReaderStep, LookAtLive, Join, AskCheck, Reserve, Publish, Release
<1>5. CASE Unloaded BY <1>5 DEF Unloaded
<1>6. CASE Environment
  <2>1. CASE \E l \in Lives : (\E k \in Kinds : Emit(l, k)) \/ Flush(l) \/ Dispose(l)
    BY <2>1 DEF Emit, Flush, Dispose
  <2>2. CASE Create \/ Evict \/ Unload \/ Mount BY <2>2 DEF Create, Evict, Unload, Mount
  <2>3. CASE \E r \in Readers, c \in Calls : StartCall(r, c) BY <2>3 DEF StartCall
  <2> QED BY <1>6, <2>1, <2>2, <2>3 DEF Environment
<1> QED BY <1>1, <1>2, <1>3, <1>4, <1>5, <1>6 DEF Next

\* A commit that repairs stores the rest of its source, which is balanced.
LEMMA CommitCloses ==
  ASSUME Inv, Content, Commit
  PROVE  Closing'
<1> DEFINE r == Head1.by
           s == readers[r].source
           m == Len(disk.log)
           rest == SubSeq(s.log, m + 1, Len(s.log))
<1>1. Starts("commit") /\ UNCHANGED disk BY DEF Commit
<1>2. /\ job = NoJob /\ s.log \in Seq(Events)
      /\ s.seen = disk => s.log = Stored(disk) \o InterruptedTurnClosers(Stored(disk))
  BY <1>1, Committer
<1>3. CASE UNCHANGED job BY <1>2, <1>3 DEF Closing, NoJob
<1>4. CASE s.seen = disk /\ job' = [does |-> "repair", cut |-> s.seen.torn, batch |-> rest]
  <2>1. Stored(disk) \in Seq(Events) BY SourceFields DEF Inv, TypeInv, Logs
  <2>2. s.log = Stored(disk) \o InterruptedTurnClosers(Stored(disk)) BY <1>2, <1>4
  <2>3. Balanced(s.log) BY <2>1, <2>2, RepairConverges
  <2>4. disk.log \o rest = s.log
    <3>1. /\ disk.log \in Seq(Events) /\ disk.tail \in Seq(Events)
          /\ InterruptedTurnClosers(Stored(disk)) \in Seq(Events)
      BY <2>1, Typed, ClosersType DEF Logs
    <3>2. Begins(disk.log, disk.log) BY <3>1, LenProperties DEF Begins
    <3>3. Begins(disk.log, Stored(disk)) BY <3>1, <3>2, BeginsConcat DEF Stored
    <3>4. Begins(disk.log, s.log) BY <2>1, <2>2, <3>1, <3>3, BeginsConcat
    <3> HIDE DEF s, r
    <3>5. IsPrefix(disk.log, s.log) BY <1>2, <3>1, <3>4, PrefixBegins
    <3>6. m \in Nat /\ m <= Len(s.log) /\ Len(s.log) \in Nat
      BY <1>2, <3>1, <3>4, LenProperties DEF Begins
    <3>7. /\ rest \in Seq(Events) /\ Len(rest) = Len(s.log) - m
          /\ \A i \in 1 .. Len(s.log) - m : rest[i] = s.log[m + i]
      <4>1. \A i \in (m + 1) .. Len(s.log) : i \in DOMAIN s.log /\ s.log[i] \in Events
        BY <1>2, <3>6, LenProperties, ElementOfSeq
      <4>2. /\ rest \in Seq(Events)
            /\ Len(rest) = IF m + 1 <= Len(s.log) THEN Len(s.log) - (m + 1) + 1 ELSE 0
            /\ \A i \in 1 .. Len(s.log) - (m + 1) + 1 : rest[i] = s.log[m + 1 + i - 1]
        <5>1. m + 1 \in Int /\ Len(s.log) \in Int BY <3>6
        <5> HIDE DEF m
        <5>2. \A i \in (m + 1) .. Len(s.log) : s.log[i] \in Events BY <4>1
        <5> QED BY ONLY <5>1, <5>2, SubSeqProperties
      <4> HIDE DEF rest, m
      <4>3. \A i \in 1 .. Len(s.log) - m : m + 1 + i - 1 = m + i BY <3>6
      <4> QED BY <3>6, <4>2, <4>3
    <3> HIDE DEF rest, m
    <3>8. /\ disk.log \o rest \in Seq(Events) /\ Len(disk.log \o rest) = m + Len(rest)
          /\ \A i \in 1 .. m + Len(rest) :
               (disk.log \o rest)[i] = IF i <= m THEN disk.log[i] ELSE rest[i - m]
      BY <3>1, <3>7, ConcatProperties DEF m
    <3>9. Len(disk.log \o rest) = Len(s.log) BY <3>6, <3>7, <3>8
    <3>10. ASSUME NEW i \in 1 .. Len(s.log) PROVE (disk.log \o rest)[i] = s.log[i]
      <4>1. CASE i <= m BY <3>4, <3>6, <3>7, <3>8, <3>10, <4>1 DEF Begins, m
      <4>2. CASE ~(i <= m)
        <5>1. i - m \in 1 .. Len(s.log) - m /\ m + (i - m) = i BY <3>6, <3>10, <4>2
        <5> QED BY <3>6, <3>7, <3>8, <3>10, <4>2, <5>1
      <4> QED BY <4>1, <4>2
    <3> QED BY <1>2, <3>8, <3>9, <3>10, SeqEqual
  <2>5. job'.does = "repair" /\ job'.batch = rest BY <1>4
  <2> QED BY <1>1, <2>3, <2>4, <2>5 DEF Closing
<1> QED BY <1>3, <1>4 DEF Commit

LEMMA ClosingNext ==
  ASSUME Inv, Content, Closing, [Next]_vars
  PROVE  Closing'
<1>1. CASE UNCHANGED <<disk, job>> BY <1>1 DEF Closing
<1>2. CASE OnCreated \/ StartLiveBatch \/ StartSuffix
  <2>1. job = NoJob BY <1>2 DEF OnCreated, StartLiveBatch, StartSuffix, Starts
  <2>2. job' = job \/ job' = NoJob \/ \E l, ns : job' = AppendJob(l, ns)
    BY <1>2 DEF OnCreated, StartLiveBatch, StartSuffix, Bind, Refuse
  <2>3. job'.does \in {"nothing", "append"} BY <2>1, <2>2 DEF NoJob, AppendJob
  <2> QED BY <2>3 DEF Closing
<1>3. CASE Commit BY <1>3, CommitCloses
<1>4. CASE CutTail
  <2>1. disk'.log = disk.log /\ job'.does = job.does /\ job'.batch = job.batch
    BY <1>4 DEF CutTail, Inv, TypeInv, Disks, Jobs
  <2> QED BY <2>1 DEF Closing
<1>5. CASE WriteBatch
  <2>1. /\ disk'.log = disk.log \o job.batch
        /\ job'.does = (IF job.does = "append" THEN "appended" ELSE "repaired")
        /\ job.does \in {"append", "repair"}
    BY <1>5 DEF WriteBatch, Inv, TypeInv, Disks, Jobs
  <2> QED BY <2>1 DEF Closing
<1>6. CASE JobFails \/ Appended \/ CommitRepaired \/ Crash
  <2>1. job' = NoJob BY <1>6 DEF JobFails, Appended, CommitRepaired, Crash
  <2> QED BY <2>1 DEF Closing, NoJob
<1> QED BY <1>1, <1>2, <1>3, <1>4, <1>5, <1>6, JobChanges

\* A step that leaves the file, what is reported and the owner's events alone.
LEMMA NothingDurable ==
  ASSUME disk'.log = disk.log, acked' = acked, states'.owner = states.owner,
         states.owner # None =>
           /\ states'.made = states.made
           /\ sessions'[states.owner].log = sessions[states.owner].log
  PROVE  UNCHANGED Durable!vars
BY DEF Durable!vars, OwnersLog

\* The owner goes; of its events a part may have been stored.
LEMMA OwnerGone ==
  ASSUME states'.owner = None, acked' = acked
  PROVE  Durable!Lost
BY DEF Durable!Lost, OwnersLog

LEMMA OwnersTyped ==
  ASSUME Inv, Inv', Content, Content'
  PROVE  /\ OwnersLog \in Seq(Events) /\ OwnersLog' \in Seq(Events)
         /\ disk.log \in Seq(Events) /\ disk'.log \in Seq(Events)
         /\ states.owner # None => Begins(disk.log, OwnersLog)
         /\ states'.owner # None => Begins(disk'.log, OwnersLog')
         /\ disk.made <=> disk.log # <<>>
<1>1. /\ states.owner \in Lives \cup {None} /\ disk.log \in Seq(Events)
      /\ \A l \in Lives : sessions[l].log \in Seq(Events)
  BY Typed
<1>2. disk'.log \in Seq(Events) BY DEF Inv, TypeInv, Disks, Logs
<1>3. /\ states'.owner \in Lives \cup {None}
      /\ \A l \in Lives : sessions'[l].log \in Seq(Events)
  BY DEF Inv, TypeInv, StateRecs, SessionRecs, Logs
<1>4. OwnersLog \in Seq(Events) /\ OwnersLog' \in Seq(Events) BY <1>1, <1>3 DEF OwnersLog
<1>5. states.owner # None => Begins(disk.log, OwnersLog) BY DEF Content, OwnerInv, OwnersLog
<1>6. states'.owner # None => Begins(disk'.log, OwnersLog')
  BY DEF Content, OwnerInv, OwnersLog
<1>7. disk.made <=> disk.log # <<>> BY DEF Content, FileInv, Inv, DiskInv
<1> QED BY <1>1, <1>2, <1>4, <1>5, <1>6, <1>7

\* A life becomes the owner; the file begins its log.
LEMMA LifeClaims ==
  ASSUME Inv, Inv', Content, Content', disk' = disk, acked' = acked,
         states.owner = None \/ ~states.made,
         states'.owner # None, states'.made = disk.made
  PROVE  Durable!Claim
<1>1. Durable!IsPrefix(disk.log, OwnersLog') BY OwnersTyped, DurablePrefix
<1>2. states'.made = (disk.log # <<>>) BY OwnersTyped, Typed
<1> QED BY <1>1, <1>2 DEF Durable!Claim

LEMMA CreatedDurable ==
  ASSUME Inv, Inv', Content, Content', OnCreated
  PROVE  Durable!Next \/ UNCHANGED Durable!vars
<1> DEFINE l == Head1.by
<1>1. /\ Starts("create") /\ UNCHANGED <<disk, sessions, acked>> BY DEF OnCreated
<1>2. l \in Lives /\ l # None
  <2>1. chain # <<>> /\ Head1.op \in LifeOps BY <1>1 DEF Starts, Running, LifeOps
  <2> QED BY <2>1, HeadLife, LifeNumbers
<1>3. /\ states \in StateRecs /\ states.made \in BOOLEAN /\ disk.made \in BOOLEAN BY Typed
<1>4. CASE states' = states BY <1>1, <1>4, NothingDurable
<1>5. CASE states' = Untracked
  <2>1. Durable!Forget BY <1>1, <1>5, OwnerGone DEF Untracked, Durable!Forget
  <2> QED BY <2>1 DEF Durable!Next
<1>6. ASSUME states.owner = None \/ ~states.made, states'.owner = l, states'.made = disk.made
      PROVE  Durable!Next
  BY <1>1, <1>2, <1>6, LifeClaims DEF Durable!Next
<1>7. CASE states.tracked /\ states.owner = None
  <2>1. states.made /\ disk.made BY <1>7 DEF Content, OwnerInv
  <2>2. CASE states' = [states EXCEPT !.owner = l]
    <3>1. states'.owner = l /\ states'.made = states.made BY <1>3, <2>2 DEF StateRecs
    <3> QED BY <1>3, <1>6, <1>7, <2>1, <3>1
  <2>3. states' = [states EXCEPT !.owner = l] \/ states' = states
    BY <1>7 DEF OnCreated, Bind, Refuse, Abandoned
  <2> QED BY <1>4, <2>2, <2>3
<1>8. CASE states.owner # None /\ ~Abandoned
  <2>1. states' = states BY <1>8 DEF OnCreated, Refuse, Content, OwnerInv, Untracked
  <2> QED BY <1>4, <2>1
<1>9. CASE ~states.tracked \/ Abandoned
  <2>1. states.owner = None \/ ~states.made
    BY <1>9 DEF Abandoned, Content, OwnerInv, Untracked
  <2>2. \/ states' = Untracked
        \/ states' = Tracked(l, 0, FALSE) /\ ~disk.made
        \/ states' = Tracked(l, Len(disk.log), TRUE) /\ disk.made
    <3>1. ~(states.tracked /\ states.owner = None) /\ ~(states.owner # None /\ ~Abandoned)
      BY <1>9 DEF Abandoned, Content, OwnerInv, Untracked
    <3> QED BY <3>1 DEF OnCreated, Bind, Refuse
  <2>3. ASSUME NEW n, NEW made, states' = Tracked(l, n, made)
        PROVE  states'.owner = l /\ states'.made = made
    BY <2>3 DEF Tracked
  <2>4. CASE states' = Tracked(l, 0, FALSE) /\ ~disk.made
    <3>1. states'.owner = l /\ states'.made = FALSE BY <2>3, <2>4
    <3> QED BY <1>3, <1>6, <2>1, <2>4, <3>1
  <2>5. CASE states' = Tracked(l, Len(disk.log), TRUE) /\ disk.made
    <3>1. states'.owner = l /\ states'.made = TRUE BY <2>3, <2>5
    <3> QED BY <1>3, <1>6, <2>1, <2>5, <3>1
  <2> QED BY <1>5, <2>2, <2>4, <2>5
<1> QED BY <1>7, <1>8, <1>9 DEF Abandoned

LEMMA WriteDurable ==
  ASSUME Inv, Inv', Content, Content', Closing, WriteBatch
  PROVE  Durable!Next
<1>1. /\ job.does \in {"append", "repair"} /\ disk'.log = disk.log \o job.batch
      /\ UNCHANGED <<states, sessions, acked>>
  BY DEF WriteBatch, Inv, TypeInv, Disks
<1>2. OwnersLog' = OwnersLog BY <1>1 DEF OwnersLog
<1>3. Durable!IsPrefix(disk.log, disk'.log) BY <1>1, Grown, OwnersTyped, DurablePrefix
<1>4. CASE job.does = "append"
  <2>1. states.owner # None
    <3>1. job # NoJob BY <1>4 DEF NoJob
    <3>2. chain # <<>> /\ Head1.op \in LifeOps BY <1>4, <3>1, JobHead DEF LifeOps
    <3>3. Head1.by \in Lives BY <3>2, HeadLife
    <3> QED BY <1>4, <3>3, LifeNumbers DEF Content, BatchInv
  <2>2. Durable!IsPrefix(disk'.log, OwnersLog)
    BY <1>1, <1>2, <2>1, OwnersTyped, DurablePrefix
  <2>3. Durable!Store BY <1>1, <1>2, <1>3, <2>1, <2>2 DEF Durable!Store
  <2> QED BY <2>3 DEF Durable!Next
<1>5. CASE job.does = "repair"
  <2>1. states.owner = None BY <1>5 DEF Content, BatchInv, OwnerInv, Untracked
  <2>2. Balanced(disk'.log) BY <1>1, <1>5 DEF Closing
  <2>3. Durable!Repair BY <1>1, <1>2, <1>3, <2>1, <2>2 DEF Durable!Repair
  <2> QED BY <2>3 DEF Durable!Next
<1> QED BY <1>1, <1>4, <1>5

LEMMA ReportDurable ==
  ASSUME Inv, Inv', Content, Content', Closing, Appended \/ CommitRepaired
  PROVE  Durable!Next
<1>1. UNCHANGED <<disk, sessions>> /\ acked' = disk.log BY DEF Appended, CommitRepaired
<1>2. CASE Appended
  <2>1. states'.owner = states.owner /\ states'.made = TRUE
    BY <1>2, Typed DEF Appended, StateRecs
  <2>2. states.owner # None
    <3>1. job.does = "appended" BY <1>2 DEF Appended
    <3>2. job # NoJob BY <3>1 DEF NoJob
    <3>3. chain # <<>> /\ Head1.op \in LifeOps BY <3>1, <3>2, JobHead DEF LifeOps
    <3>4. Head1.by \in Lives BY <3>3, HeadLife
    <3> QED BY <3>1, <3>4, LifeNumbers DEF Content, BatchInv
  <2>3. OwnersLog' = OwnersLog BY <1>1, <2>1 DEF OwnersLog
  <2>4. Durable!Report BY <1>1, <2>1, <2>2, <2>3 DEF Durable!Report
  <2> QED BY <2>4 DEF Durable!Next
<1>3. CASE CommitRepaired
  <2>1. job.does = "repaired" /\ states' = states BY <1>3 DEF CommitRepaired
  <2>2. states.owner = None /\ Balanced(disk.log)
    BY <2>1 DEF Closing, Content, BatchInv, OwnerInv, Untracked
  <2>3. OwnersLog' = OwnersLog BY <1>1, <2>1 DEF OwnersLog
  <2>4. Durable!Report BY <1>1, <2>1, <2>2, <2>3 DEF Durable!Report
  <2> QED BY <2>4 DEF Durable!Next
<1> QED BY <1>2, <1>3

LEMMA CrashDurable ==
  ASSUME Inv, Inv', Content, Content', Crash
  PROVE  Durable!Next
<1>1. states' = Untracked /\ acked' = acked /\ disk' \in Remains BY DEF Crash
<1>2. PICK n \in Nat : Left(disk', n) BY <1>1, RemainsLeft
<1>3. Durable!Lost BY <1>1, OwnerGone DEF Untracked
<1>4. Durable!IsPrefix(disk.log, disk'.log) BY <1>2, OwnersTyped, DurablePrefix DEF Left
<1>5. ASSUME states.owner # None PROVE Durable!IsPrefix(disk'.log, OwnersLog)
  <2> DEFINE m == Len(disk.log)
             own == OwnersLog
  <2>1. Begins(disk.log, own) /\ own \in Seq(Events) BY <1>5, OwnersTyped
  <2>2. m \in Nat /\ Len(own) \in Nat BY <2>1, Typed, LenProperties
  <2>3. CASE n = 0
    <3>1. Len(disk'.log) = m /\ \A i \in 1 .. m : disk'.log[i] = disk.log[i]
      BY <1>2, <2>2, <2>3 DEF Left, Begins
    <3>2. Begins(disk'.log, own) BY <2>1, <3>1 DEF Begins
    <3> QED BY <3>2, OwnersTyped, DurablePrefix
  <2>4. CASE n # 0
    <3>1. job.does = "append" /\ ~Clobbers
      BY <1>2, <1>5, <2>4 DEF Left, Content, BatchInv, OwnerInv, Untracked
    <3>2. /\ Head1.by \in Lives /\ states.owner = Head1.by
          /\ \A i \in 1 .. Len(job.batch) :
               m + i \in 1 .. Len(sessions[Head1.by].log)
               /\ job.batch[i] = sessions[Head1.by].log[m + i]
      BY <3>1, AppendContinues DEF Content, BatchInv
    <3>3. own = sessions[Head1.by].log BY <1>5, <3>2 DEF OwnersLog
    <3> HIDE DEF own, m
    <3>4. /\ Len(disk'.log) = m + n /\ n \in 1 .. Len(job.batch)
          /\ \A i \in 1 .. m : disk'.log[i] = disk.log[i]
          /\ \A i \in 1 .. n : disk'.log[m + i] = job.batch[i]
      BY <1>2, <2>4, Typed DEF Left, Begins, m
    <3>5. m + n <= Len(own) BY <2>2, <3>2, <3>3, <3>4
    <3>6. ASSUME NEW i \in 1 .. m + n PROVE disk'.log[i] = own[i]
      <4>1. CASE i <= m BY <2>1, <2>2, <3>4, <3>6, <4>1 DEF Begins, m
      <4>2. CASE ~(i <= m)
        <5>1. i - m \in 1 .. n /\ m + (i - m) = i /\ i - m \in 1 .. Len(job.batch)
          BY <2>2, <3>4, <3>6, <4>2
        <5> QED BY <3>2, <3>3, <3>4, <5>1
      <4> QED BY <4>1, <4>2
    <3>7. Begins(disk'.log, own) BY <3>4, <3>5, <3>6 DEF Begins
    <3> QED BY <2>1, <3>7, OwnersTyped, DurablePrefix DEF own
  <2> QED BY <2>3, <2>4
<1>6. Durable!Crash BY <1>3, <1>4, <1>5 DEF Durable!Crash
<1> QED BY <1>6 DEF Durable!Next

LEMMA EmitDurable ==
  ASSUME Inv, Inv', Content, Content', NEW l \in Lives, NEW kind \in Kinds, Emit(l, kind)
  PROVE  Durable!Next \/ UNCHANGED Durable!vars
<1> DEFINE event == [kind |-> kind, by |-> l]
           log == sessions[l].log
<1>1. /\ sessions' = [sessions EXCEPT ![l] = [@ EXCEPT !.log = Append(log, event)]]
      /\ UNCHANGED <<disk, states, acked>>
  BY DEF Emit
<1>2. sessions \in [Lives -> SessionRecs] /\ sessions[l] \in SessionRecs
  BY DEF Inv, TypeInv
<1>3. sessions'[l].log = Append(log, event) BY <1>1, <1>2 DEF SessionRecs
<1>4. CASE states.owner = l
  <2>1. l # None BY LifeNumbers
  <2>2. OwnersLog = log /\ OwnersLog' = Append(log, event)
    BY <1>1, <1>3, <1>4, <2>1 DEF OwnersLog
  <2>3. event \in Events BY DEF Events
  <2>4. log \in Seq(Events) BY <1>2 DEF SessionRecs, Logs
  <2> HIDE DEF event, log
  <2>5. /\ Append(log, event) \in Seq(Events) /\ Len(Append(log, event)) = Len(log) + 1
        /\ \A i \in 1 .. Len(log) : Append(log, event)[i] = log[i]
        /\ Len(log) \in Nat
    BY <2>3, <2>4, AppendProperties, LenProperties
  <2>6. Begins(log, Append(log, event)) BY <2>5 DEF Begins
  <2>7. Durable!IsPrefix(log, Append(log, event)) BY <2>4, <2>5, <2>6, DurablePrefix
  <2>8. Durable!Emit BY <1>1, <1>4, <2>1, <2>2, <2>5, <2>7 DEF Durable!Emit
  <2> QED BY <2>8 DEF Durable!Next
<1>5. CASE states.owner # l
  <2>1. states.owner # None => sessions'[states.owner] = sessions[states.owner]
    BY <1>1, <1>2, <1>5, Typed
  <2> QED BY <1>1, <2>1, NothingDurable
<1> QED BY <1>4, <1>5

LEMMA PublishDurable ==
  ASSUME Inv, Inv', Content, Content', NEW r \in Readers, NEW setup \in BOOLEAN,
         Publish(r, setup)
  PROVE  Durable!Next
<1>1. /\ readers[r].at = "held" /\ Unborn # {} /\ states.owner = None
      /\ states' = [states EXCEPT !.owner = NextLife] /\ UNCHANGED <<disk, acked>>
  BY DEF Publish, Matches
<1>2. NextLife \in Lives /\ NextLife # None BY <1>1, BeforeNext, LifeNumbers
<1>3. states'.owner = NextLife /\ states'.made = states.made BY <1>1, Typed DEF StateRecs
<1>4. states.made /\ disk.made
  <2>1. states.tracked BY <1>1 DEF Content, CallInv, Call
  <2> QED BY <1>1, <2>1 DEF Content, OwnerInv
<1>5. states'.made = disk.made BY <1>3, <1>4, Typed
<1>6. Durable!Claim BY <1>1, <1>2, <1>3, <1>5, LifeClaims
<1> QED BY <1>6 DEF Durable!Next

\* Steps that keep the coordinator's state, and the events of every life born.
LEMMA QuietDurable ==
  ASSUME Inv, Content, disk'.log = disk.log, UNCHANGED <<states, acked>>,
         \A l \in Lives : sessions[l].at # "unborn" => sessions'[l].log = sessions[l].log
  PROVE  UNCHANGED Durable!vars
<1>1. states.owner # None => sessions[states.owner].at # "unborn" /\ states.owner \in Lives
  BY Typed DEF Content, OwnerInv
<1> QED BY <1>1, NothingDurable

LEMMA StorageDurable ==
  ASSUME Inv, Inv', Content, Content', Closing, StorageStep
  PROVE  Durable!Next \/ UNCHANGED Durable!vars
<1>1. CASE OnCreated BY <1>1, CreatedDurable
<1>2. CASE WriteBatch BY <1>2, WriteDurable
<1>3. CASE Appended \/ CommitRepaired BY <1>3, ReportDurable
<1>4. CASE StartLiveBatch \/ StartSuffix \/ Read \/ Check \/ JobFails
  BY <1>4, QuietDurable DEF StartLiveBatch, StartSuffix, Read, Check, JobFails
<1>5. CASE CutTail
  <2>1. disk'.log = disk.log /\ UNCHANGED <<sessions, states, acked>>
    BY <1>5 DEF CutTail, Inv, TypeInv, Disks
  <2> QED BY <2>1, QuietDurable
<1>6. CASE Commit
  <2>1. /\ states' = states \/ (states.owner = None /\ \E n : states' = Tracked(None, n, TRUE))
        /\ UNCHANGED <<disk, sessions, acked>>
    BY <1>6 DEF Commit
  <2>2. CASE states' = states BY <2>1, <2>2, QuietDurable
  <2>3. CASE states.owner = None /\ \E n : states' = Tracked(None, n, TRUE)
    <3>1. states'.owner = None BY <2>3 DEF Tracked
    <3> QED BY <2>1, <2>3, <3>1, NothingDurable
  <2> QED BY <2>1, <2>2, <2>3
<1>7. CASE Retire
  <2>1. states' \in {states, Untracked} /\ UNCHANGED <<disk, sessions, acked>>
    BY <1>7 DEF Retire
  <2>2. CASE states' = states BY <2>1, <2>2, QuietDurable
  <2>3. CASE states' = Untracked
    <3>1. Durable!Forget BY <2>1, <2>3, OwnerGone DEF Untracked, Durable!Forget
    <3> QED BY <3>1 DEF Durable!Next
  <2> QED BY <2>1, <2>2, <2>3
<1> QED BY <1>1, <1>2, <1>3, <1>4, <1>5, <1>6, <1>7 DEF StorageStep

LEMMA EnvironmentDurable ==
  ASSUME Inv, Inv', Content, Content', Environment
  PROVE  Durable!Next \/ UNCHANGED Durable!vars
<1>1. ASSUME NEW l \in Lives, (\E k \in Kinds : Emit(l, k)) \/ Flush(l) \/ Dispose(l)
      PROVE  Durable!Next \/ UNCHANGED Durable!vars
  <2>1. ASSUME NEW k \in Kinds, Emit(l, k) PROVE Durable!Next \/ UNCHANGED Durable!vars
    BY <2>1, EmitDurable
  <2>2. CASE Flush(l) BY <2>2, QuietDurable DEF Flush
  <2>3. CASE Dispose(l)
    <3>1. \A k \in Lives : sessions'[k].log = sessions[k].log
      BY <2>3 DEF Dispose, Inv, TypeInv, SessionRecs
    <3>2. UNCHANGED <<disk, states, acked>> BY <2>3 DEF Dispose
    <3> QED BY <3>1, <3>2, QuietDurable
  <2> QED BY <1>1, <2>1, <2>2, <2>3
<1>2. CASE Create
  <2>1. /\ sessions' = [sessions EXCEPT ![NextLife] = [@ EXCEPT !.at = "open"]]
        /\ UNCHANGED <<disk, states, acked>>
    BY <1>2 DEF Create
  <2>2. \A k \in Lives : sessions'[k].log = sessions[k].log
    BY <2>1 DEF Inv, TypeInv, SessionRecs
  <2> QED BY <2>1, <2>2, QuietDurable
<1>3. CASE Mount
  <2>1. \A k \in Lives : sessions'[k].log = sessions[k].log
    BY <1>3 DEF Mount, Inv, TypeInv, SessionRecs
  <2>2. UNCHANGED <<disk, states, acked>> BY <1>3 DEF Mount
  <2> QED BY <2>1, <2>2, QuietDurable
<1>4. CASE (\E r \in Readers, c \in Calls : StartCall(r, c)) \/ Evict \/ Unload
  BY <1>4, QuietDurable DEF StartCall, Evict, Unload
<1>5. CASE Crash BY <1>5, CrashDurable
<1> QED BY <1>1, <1>2, <1>3, <1>4, <1>5 DEF Environment

LEMMA DurableNext ==
  ASSUME Inv, Inv', Content, Content', Closing, [Next]_vars
  PROVE  Durable!Next \/ UNCHANGED Durable!vars
<1>1. CASE UNCHANGED vars BY <1>1, QuietDurable DEF vars
<1>2. CASE StorageStep BY <1>2, StorageDurable
<1>3. CASE \E l \in Lives : ControllerStep(l) \/ Window(l)
  <2>1. UNCHANGED <<disk, sessions, states, acked>>
    BY <1>3 DEF ControllerStep, FlushGo, FlushOver, FlushFails, DrainStep, WriteRefused, Window
  <2> QED BY <2>1, QuietDurable
<1>4. ASSUME NEW r \in Readers, ReaderStep(r)
      PROVE  Durable!Next \/ UNCHANGED Durable!vars
  <2>1. CASE LookAtLive(r) \/ Join(r) \/ AskCheck(r) \/ Reserve(r) \/ Release(r)
    BY <2>1, QuietDurable DEF LookAtLive, Join, AskCheck, Reserve, Release
  <2>2. ASSUME NEW setup \in BOOLEAN, Publish(r, setup) PROVE Durable!Next
    BY <2>2, PublishDurable
  <2> QED BY <1>4, <2>1, <2>2 DEF ReaderStep
<1>5. CASE Unloaded
  <2>1. states' = Untracked /\ UNCHANGED <<disk, acked>> BY <1>5 DEF Unloaded
  <2>2. Durable!Forget BY <2>1, OwnerGone DEF Untracked, Durable!Forget
  <2> QED BY <2>2 DEF Durable!Next
<1>6. CASE Environment BY <1>6, EnvironmentDurable
<1> QED BY <1>1, <1>2, <1>3, <1>4, <1>5, <1>6 DEF Next

\* Crash repair leaves nothing open: what it is about to store, and what it has
\* stored when it reports it, is a balanced log.
THEOREM RepairsLeaveBalanced == Spec => []Closing
<1>1. Init => Closing BY DEF Init, Closing, NoJob
<1>2. Inv /\ Content /\ Closing /\ [Next]_vars => Closing' BY ClosingNext
<1> QED BY <1>1, <1>2, Invariance, ContentInvariance, PTL DEF Spec

\* The coordinator implements the durable log: whatever interleaves, fails or
\* crashes, every step appends, stores, repairs, reports, claims or forgets as
\* DurableLog allows, or changes nothing of it.
THEOREM SessionImplementsDurableLog == Spec => ImplementsDurableLog
<1>1. Init => Durable!Init
  BY DEF Init, Durable!Init, NoDisk, Untracked, OwnersLog
<1>2. Inv /\ Inv' /\ Content /\ Content' /\ Closing /\ [Next]_vars
        => [Durable!Next]_(Durable!vars)
  BY DurableNext
<1> QED BY <1>1, <1>2, Invariance, ContentInvariance, RepairsLeaveBalanced, PTL
    DEF Spec, ImplementsDurableLog, Durable!Spec
=============================================================================
