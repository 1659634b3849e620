------------------------- MODULE AgentConfigProofs -------------------------
(***************************************************************************)
(* That a run saves what it replaces, for any files, any plan and any      *)
(* number of runs, whatever other programs write and wherever runs stop;   *)
(* that a plan keeps what UserKept names, for files of any length: from    *)
(* what the editors do to a text (the second part of the module), and from *)
(* the invariant that the disk holds documents there are editors for and   *)
(* the plan is what they make of them; and that a file a run has been      *)
(* through points to the proxy and is left alone by the next run: from     *)
(* what the editors find in a text they made (the third part).             *)
(***************************************************************************)
EXTENDS AgentConfig, SequenceTheorems, WellFoundedInduction, TLAPS

Name == <<Change.file, stamp>>
Counts(r) == r.planned /\ r.doc # Missing

(* Between its backup and its rename a run holds a whole backup of what it  *)
(* read.                                                                    *)
BackupHeld ==
  /\ pc = "saving" => Name \in DOMAIN backups /\ Saves(Change)
  /\ pc = "replace" /\ Saves(Change) => Name \in DOMAIN backups /\ backups[Name] = Change.old

(* A name that is being written is new to the history, or counted as used   *)
(* twice.                                                                   *)
NameFree ==
  pc = "saving" => \A r \in replaced : Counts(r) /\ <<r.file, r.stamp>> = Name
                                         => Name \in reused

Function == backups = [n \in DOMAIN backups |-> backups[n]]

IInv == Function /\ BackupHeld /\ NameFree /\ SavedFirst

-----------------------------------------------------------------------------
(* The steps that neither save nor replace. *)
LEMMA Elsewhere ==
  ASSUME IInv,
         \/ \E chosen \in Selections, o \in OptionChoices : Begin(chosen, o)
         \/ Decline \/ Confirm \/ Skip \/ Finish \/ Stop
         \/ \E file \in Files : Edit(file)
         \/ Tick \/ UNCHANGED vars
  PROVE  IInv'
<1>1. CASE \/ \E chosen \in Selections, o \in OptionChoices : Begin(chosen, o)
           \/ Decline \/ Confirm \/ Skip \/ Finish \/ Stop
  <2>1. /\ UNCHANGED <<backups, replaced, reused>>
        /\ pc' \in {"idle", "review", "apply"}
    BY <1>1 DEF Begin, Decline, Confirm, Skip, Finish, Stop, Ended
  <2>. QED  BY <2>1 DEF IInv, Function, BackupHeld, NameFree, SavedFirst
<1>2. CASE (\E file \in Files : Edit(file)) \/ Tick \/ UNCHANGED vars
  <2>1. UNCHANGED <<backups, replaced, reused, pc, plan, at, stamp>>
    BY <1>2 DEF Edit, Tick, vars, run
  <2>. QED  BY <2>1 DEF IInv, Function, BackupHeld, NameFree, SavedFirst, Name, Change, Saves
<1>. QED  BY <1>1, <1>2

(* A backup that begins takes a name no replaced file relies on, or makes   *)
(* the name one that is used twice.                                         *)
LEMMA Begins ==
  ASSUME IInv, StartBackup
  PROVE  IInv'
<1>. DEFINE new == <<Change.file, clock>>
<1>1. /\ UNCHANGED <<plan, at, replaced>> /\ stamp' = clock /\ pc' = "saving"
      /\ Saves(Change)
      /\ backups' = Begun(new, Part(Change.old))
      /\ reused' = IF new \in DOMAIN backups THEN reused \cup {new} ELSE reused
  BY DEF StartBackup
<1>2. Name' = new /\ Saves(Change)'
  BY <1>1 DEF Name, Change, Saves
<1>3. backups' = [n \in {new} \cup DOMAIN backups |->
                    IF n = new THEN Part(Change.old) ELSE backups[n]]
  BY <1>1 DEF Begun
<1>4. Function' /\ DOMAIN backups' = {new} \cup DOMAIN backups
  BY <1>3 DEF Function
<1>5. ASSUME NEW r \in replaced, Counts(r), <<r.file, r.stamp>> \notin reused'
      PROVE  /\ <<r.file, r.stamp>> # new
             /\ <<r.file, r.stamp>> \in DOMAIN backups
             /\ backups[<<r.file, r.stamp>>] = r.doc
  <2>1. <<r.file, r.stamp>> \notin reused
    BY <1>1, <1>5
  <2>2. <<r.file, r.stamp>> \in DOMAIN backups /\ backups[<<r.file, r.stamp>>] = r.doc
    BY <1>5, <2>1 DEF IInv, SavedFirst, Counts
  <2>. QED  BY <1>1, <1>5, <2>2
<1>6. SavedFirst'
  BY <1>1, <1>3, <1>5 DEF SavedFirst, Counts
<1>7. NameFree'
  BY <1>1, <1>2, <1>5 DEF NameFree, Counts
<1>8. BackupHeld'
  BY <1>1, <1>2, <1>4 DEF BackupHeld
<1>. QED  BY <1>4, <1>6, <1>7, <1>8 DEF IInv

(* When it is complete it is the content the plan read. *)
LEMMA Completes ==
  ASSUME IInv, EndBackup
  PROVE  IInv'
<1>1. /\ UNCHANGED <<plan, at, stamp, replaced, reused>>
      /\ pc = "saving" /\ pc' = "replace"
      /\ backups' = [backups EXCEPT ![Name] = Change.old]
  BY DEF EndBackup, Name
<1>2. Name' = Name /\ Change' = Change
  BY <1>1 DEF Name, Change
<1>3. /\ Function' /\ DOMAIN backups' = DOMAIN backups
      /\ Name \in DOMAIN backups /\ backups'[Name] = Change.old
      /\ \A n \in DOMAIN backups \ {Name} : backups'[n] = backups[n]
  BY <1>1 DEF IInv, Function, BackupHeld
<1>4. SavedFirst'
  BY <1>1, <1>3 DEF IInv, SavedFirst, NameFree, Counts
<1>5. BackupHeld' /\ NameFree'
  BY <1>1, <1>2, <1>3 DEF BackupHeld, NameFree
<1>. QED  BY <1>3, <1>4, <1>5 DEF IInv

(* A file that did not exist needs none. *)
LEMMA NothingToSave ==
  ASSUME IInv, NoBackup
  PROVE  IInv'
<1>1. /\ UNCHANGED <<plan, at, stamp, backups, replaced, reused>>
      /\ pc' = "replace" /\ ~Saves(Change)
  BY DEF NoBackup
<1>. QED  BY <1>1 DEF IInv, Function, BackupHeld, NameFree, SavedFirst, Name, Change, Saves

(* What is replaced as it was planned is the content that was saved. *)
LEMMA Replaces ==
  ASSUME IInv, Rename \/ RenameRefused
  PROVE  IInv'
<1>. DEFINE new == [file |-> Change.file, doc |-> disk[Change.file], stamp |-> stamp,
                    planned |-> disk[Change.file] = Change.old]
<1>1. /\ UNCHANGED <<backups, reused>> /\ pc = "replace" /\ pc' \in {"apply", "writing"}
      /\ replaced' = replaced \cup {new}
  BY DEF Rename, RenameRefused, Recorded
<1>2. Counts(new) => Name \in DOMAIN backups /\ backups[Name] = new.doc
  BY <1>1 DEF IInv, BackupHeld, Saves, Counts
<1>3. <<new.file, new.stamp>> = Name
  BY DEF Name
<1>. HIDE DEF new
<1>4. SavedFirst'
  BY <1>1, <1>2, <1>3 DEF IInv, SavedFirst, Counts
<1>5. Function' /\ BackupHeld' /\ NameFree'
  BY <1>1 DEF IInv, Function, BackupHeld, NameFree
<1>. QED  BY <1>4, <1>5 DEF IInv

(* A write in place ends with the planned content. *)
LEMMA Written ==
  ASSUME IInv, EndWrite
  PROVE  IInv'
<1>1. UNCHANGED <<backups, replaced, reused>> /\ pc' = "apply"
  BY DEF EndWrite
<1>. QED  BY <1>1 DEF IInv, Function, BackupHeld, NameFree, SavedFirst

-----------------------------------------------------------------------------
(* What a run replaced, or began to write over, is whole in the backup it   *)
(* made before, wherever the run stopped, for every disk, number of runs    *)
(* and selection (Apply and backupFile in agentconfig/backup.go): when it   *)
(* is the content the plan was made from, and no two runs wrote a backup of *)
(* its name.  Content edited after the plan is lost, and so may be what     *)
(* two runs of one second saved: of those nothing is said.                  *)
THEOREM Saved == Spec => []SavedFirst
<1>1. Init => IInv
  BY DEF Init, IInv, Function, BackupHeld, NameFree, SavedFirst
<1>2. IInv /\ [Next]_vars => IInv'
  BY Elsewhere, Begins, Completes, NothingToSave, Replaces, Written DEF Next
<1>3. IInv => SavedFirst
  BY DEF IInv
<1>. QED  BY <1>1, <1>2, <1>3, PTL DEF Spec

-----------------------------------------------------------------------------
(* Numbers: what is not empty has a first element, and a last one if it is *)
(* bounded.                                                                *)
LEMMA HasFirst ==
  ASSUME NEW S, S \subseteq Nat, S # {}
  PROVE  \E m \in S : \A k \in S : m <= k
<1>1. PICK m \in S : \A k \in S : ~ (<<k, m>> \in OpToRel(<, Nat))
  BY NatLessThanWellFounded, WFMin
<1>2. ASSUME NEW k \in S PROVE m <= k
  <2>1. ~ (k < m)
    BY <1>1 DEF OpToRel
  <2>. QED  BY <2>1
<1>. QED  BY <1>2

(* What is bounded and not empty has a last element.                       *)
LEMMA HasLast ==
  ASSUME NEW n \in Nat, NEW S, S \subseteq 0 .. n, S # {}
  PROVE  \E m \in S : \A k \in S : k <= m
<1>. DEFINE T == {i \in Nat : \E s \in S : i = n - s}
<1>1. PICK a \in S : TRUE
  OBVIOUS
<1>2. n - a \in T
  OBVIOUS
<1>3. PICK i \in T : \A k \in T : i <= k
  BY <1>2, HasFirst
<1>4. PICK m \in S : i = n - m
  BY <1>3
<1>5. ASSUME NEW k \in S PROVE k <= m
  <2>1. n - k \in T
    OBVIOUS
  <2>. QED  BY <1>3, <1>4, <2>1
<1>. QED  BY <1>5

(* LastOf is the last element.                                             *)
LEMMA LastOfIs ==
  ASSUME NEW n \in Nat, NEW S, S \subseteq 0 .. n, S # {}
  PROVE  LastOf(S) \in S /\ \A k \in S : k <= LastOf(S)
BY HasLast DEF LastOf

(* And what is the last element is LastOf.                                 *)
LEMMA LastOfUnique ==
  ASSUME NEW S, S \subseteq Nat, NEW m \in S, \A k \in S : k <= m
  PROVE  LastOf(S) = m
<1>1. LastOf(S) \in S /\ \A k \in S : k <= LastOf(S)
  BY DEF LastOf
<1>2. LastOf(S) <= m /\ m <= LastOf(S) /\ LastOf(S) \in Nat /\ m \in Nat
  BY <1>1
<1>. QED  BY <1>2

-----------------------------------------------------------------------------
(* Sequences of tokens that alternate.                                     *)

Closed(t) == \E i \in Said(t) : (\A k \in Said(t) : k <= i) /\ t[i] # Comma

(* Sequences with the same elements at the same places are the same.       *)
LEMMA SameSequence ==
  ASSUME NEW S, NEW s \in Seq(S), NEW t \in Seq(S), Len(s) = Len(t),
         \A i \in 1 .. Len(t) : s[i] = t[i]
  PROVE  s = t
OBVIOUS

(* Where the elements of two joined sequences are.                         *)
LEMMA ConcatPlaces ==
  ASSUME NEW S, NEW p \in Seq(S), NEW q \in Seq(S)
  PROVE  /\ p \o q \in Seq(S)
         /\ Len(p \o q) = Len(p) + Len(q)
         /\ DOMAIN (p \o q) = 1 .. Len(p) + Len(q)
         /\ DOMAIN p = 1 .. Len(p) /\ DOMAIN q = 1 .. Len(q)
         /\ Len(p) \in Nat /\ Len(q) \in Nat
         /\ \A i \in 1 .. Len(p) : (p \o q)[i] = p[i]
         /\ \A i \in 1 .. Len(q) : (p \o q)[Len(p) + i] = q[i]
         /\ \A i \in Len(p) + 1 .. Len(p) + Len(q) : (p \o q)[i] = q[i - Len(p)]
OBVIOUS

(* The same, with the lengths by name.                                     *)
LEMMA ConcatAt ==
  ASSUME NEW S, NEW p \in Seq(S), NEW q \in Seq(S), NEW m, m = Len(p), NEW k, k = Len(q)
  PROVE  /\ p \o q \in Seq(S) /\ Len(p \o q) = m + k /\ DOMAIN (p \o q) = 1 .. m + k
         /\ m \in Nat /\ k \in Nat /\ DOMAIN p = 1 .. m /\ DOMAIN q = 1 .. k
         /\ \A i \in 1 .. m : (p \o q)[i] = p[i]
         /\ \A i \in m + 1 .. m + k : (p \o q)[i] = q[i - m]
BY ConcatPlaces

(* What alternates does so up to any place.                                *)
LEMMA PrefixAlternates ==
  ASSUME NEW S, NEW t \in Seq(S), NEW n \in 0 .. Len(t), Alternates(t)
  PROVE  Alternates(SubSeq(t, 1, n))
<1>. DEFINE p == SubSeq(t, 1, n)
<1>1. Len(p) = n /\ DOMAIN p = 1 .. n /\ \A i \in 1 .. n : p[i] = t[i]
  OBVIOUS
<1>2. Said(p) = {i \in Said(t) : i <= n} /\ Said(t) \subseteq 1 .. Len(t)
  BY <1>1 DEF Said
<1>. HIDE DEF p
<1>3. ASSUME NEW i \in Said(p)
      PROVE  p[i] = Comma <=> \E j \in Said(p) : After(p, i, j) /\ p[j] # Comma
  <2>1. t[i] = Comma <=> \E j \in Said(t) : After(t, i, j) /\ t[j] # Comma
    BY <1>2 DEF Alternates
  <2>2. \A j \in Said(t) : After(t, i, j) => j \in Said(p) /\ After(p, i, j)
    BY <1>2 DEF After
  <2>3. \A j \in Said(p) : After(p, i, j) => After(t, i, j)
    BY <1>2 DEF After
  <2>. QED  BY <1>1, <1>2, <2>1, <2>2, <2>3
<1>. QED  BY <1>3 DEF Alternates, p

(* Comments behind it change nothing.                                      *)
LEMMA AndNotes ==
  ASSUME NEW S, NEW p \in Seq(S), NEW q \in Seq(S), \A i \in DOMAIN q : q[i].token = "note"
  PROVE  /\ Alternates(p) => Alternates(p \o q)
         /\ Closed(p) <=> Closed(p \o q)
<1>. DEFINE t == p \o q
<1>1. /\ DOMAIN t = 1 .. Len(p) + Len(q) /\ DOMAIN p = 1 .. Len(p) /\ Len(p) \in Nat /\ Len(q) \in Nat
      /\ \A i \in 1 .. Len(p) : t[i] = p[i]
      /\ \A i \in Len(p) + 1 .. Len(p) + Len(q) : t[i] = q[i - Len(p)] /\ i - Len(p) \in DOMAIN q
  OBVIOUS
<1>. HIDE DEF t
<1>2. Said(t) = Said(p) /\ Said(p) \subseteq 1 .. Len(p)
  BY <1>1 DEF Said
<1>3. \A i \in Said(p) : p[i] = t[i]
  BY <1>1, <1>2
<1>4. Closed(p) <=> Closed(t)
  BY <1>2, <1>3 DEF Closed
<1>5. ASSUME Alternates(p) PROVE Alternates(t)
  BY <1>2, <1>3, <1>5 DEF Alternates, After
<1>. QED  BY <1>4, <1>5 DEF t

(* One more token, a comma behind a value or a value behind none.          *)
LEMMA AndOne ==
  ASSUME NEW S, NEW p \in Seq(S), NEW x \in S, Alternates(p), x.token # "note",
         x = Comma <=> Closed(p)
  PROVE  /\ Alternates(p \o <<x>>)
         /\ Closed(p \o <<x>>) <=> x # Comma
<1>. DEFINE t == p \o <<x>>
            n == Len(p) + 1
<1>1. /\ DOMAIN t = 1 .. n /\ DOMAIN p = 1 .. Len(p) /\ Len(p) \in Nat
      /\ \A i \in 1 .. Len(p) : t[i] = p[i]
      /\ t[n] = x
  OBVIOUS
<1>. HIDE DEF t
<1>2. Said(t) = Said(p) \cup {n} /\ Said(p) \subseteq 1 .. Len(p)
  BY <1>1 DEF Said
<1>3. \A i \in Said(p) : t[i] = p[i]
  BY <1>1, <1>2
<1>4. Closed(t) <=> x # Comma
  BY <1>1, <1>2 DEF Closed
<1>5. ASSUME NEW i \in Said(t)
      PROVE  t[i] = Comma <=> \E j \in Said(t) : After(t, i, j) /\ t[j] # Comma
  <2>1. CASE i \in Said(p)
    <3>1. p[i] = Comma <=> \E j \in Said(p) : After(p, i, j) /\ p[j] # Comma
      BY <2>1 DEF Alternates
    <3>2. \A j \in Said(t) : After(t, i, j) <=> j \in Said(p) /\ After(p, i, j)
      BY <1>1, <1>2, <2>1 DEF After
    <3>. QED  BY <1>2, <1>3, <2>1, <3>1, <3>2
  <2>2. CASE i = n
    <3>1. \A j \in Said(t) : After(t, i, j) <=> j \in Said(p) /\ \A k \in Said(p) : k <= j
      BY <1>1, <1>2, <2>2 DEF After
    <3>2. (\E j \in Said(t) : After(t, i, j) /\ t[j] # Comma) <=> Closed(p)
      BY <1>2, <1>3, <3>1 DEF Closed
    <3>. QED  BY <1>1, <2>2, <3>2
  <2>. QED  BY <1>2, <2>1, <2>2
<1>6. Alternates(t)
  BY <1>5 DEF Alternates
<1>. QED  BY <1>4, <1>6 DEF t

(* A comma goes behind a value.                                            *)
LEMMA AndComma ==
  ASSUME NEW S, NEW p \in Seq(S), Comma \in S, Alternates(p), Closed(p)
  PROVE  /\ Alternates(p \o <<Comma>>)
         /\ ~ Closed(p \o <<Comma>>)
<1>. DEFINE c == Comma
<1>1. c \in S /\ c.token # "note" /\ (c = Comma <=> Closed(p))
  BY DEF Comma
<1>. HIDE DEF c
<1>2. Alternates(p \o <<c>>) /\ (Closed(p \o <<c>>) <=> c # Comma)
  BY <1>1, AndOne
<1>. QED  BY <1>2 DEF c

(* Where the elements of the rest of a sequence are.                       *)
LEMMA SuffixPlaces ==
  ASSUME NEW S, NEW t \in Seq(S), NEW n \in 0 .. Len(t)
  PROVE  LET q == SubSeq(t, n + 1, Len(t))
         IN /\ q \in Seq(S) /\ Len(q) = Len(t) - n /\ DOMAIN q = 1 .. Len(t) - n
            /\ \A i \in 1 .. Len(t) - n : q[i] = t[n + i]
OBVIOUS

(* Where the elements of a sequence that is cut are.                       *)
LEMMA SplitPlaces ==  ASSUME NEW S, NEW t \in Seq(S), NEW n \in 0 .. Len(t)
  PROVE  LET p == SubSeq(t, 1, n)
             q == SubSeq(t, n + 1, Len(t))
         IN /\ p \in Seq(S) /\ Len(p) = n /\ DOMAIN p = 1 .. n
            /\ \A i \in 1 .. n : p[i] = t[i]
            /\ q \in Seq(S) /\ Len(q) = Len(t) - n /\ DOMAIN q = 1 .. Len(t) - n
            /\ \A i \in 1 .. Len(t) - n : q[i] = t[n + i]
            /\ t = p \o q
<1>. DEFINE p == SubSeq(t, 1, n)
            q == SubSeq(t, n + 1, Len(t))
<1>1. /\ p \in Seq(S) /\ Len(p) = n /\ DOMAIN p = 1 .. n
      /\ \A i \in 1 .. n : p[i] = t[i]
  OBVIOUS
<1>2. /\ q \in Seq(S) /\ Len(q) = Len(t) - n /\ DOMAIN q = 1 .. Len(t) - n
      /\ \A i \in 1 .. Len(t) - n : q[i] = t[n + i]
  BY SuffixPlaces
<1>. HIDE DEF p, q
<1>3. /\ p \o q \in Seq(S) /\ Len(p \o q) = Len(t)
      /\ \A i \in 1 .. n : (p \o q)[i] = p[i]
      /\ \A i \in n + 1 .. Len(t) : (p \o q)[i] = q[i - n]
  <2>. DEFINE u == p \o q
  <2>1. /\ u \in Seq(S) /\ Len(u) = Len(p) + Len(q)
        /\ \A i \in 1 .. Len(p) : u[i] = p[i]
        /\ \A i \in Len(p) + 1 .. Len(p) + Len(q) : u[i] = q[i - Len(p)]
    BY <1>1, <1>2, ConcatPlaces
  <2>. HIDE DEF u
  <2>2. Len(p) + Len(q) = Len(t) /\ Len(p) = n
    BY <1>1, <1>2
  <2>3. /\ u \in Seq(S) /\ Len(u) = Len(t)
        /\ \A i \in 1 .. n : u[i] = p[i]
        /\ \A i \in n + 1 .. Len(t) : u[i] = q[i - n]
    BY <2>1, <2>2, Zenon
  <2>. QED  BY <2>3 DEF u
<1>4. ASSUME NEW i \in 1 .. Len(t) PROVE (p \o q)[i] = t[i]
  <2>1. CASE i \in 1 .. n
    BY <1>1, <1>3, <2>1
  <2>2. CASE i \notin 1 .. n
    <3>1. i \in n + 1 .. Len(t) /\ i - n \in 1 .. Len(t) - n /\ n + (i - n) = i
      BY <2>2
    <3>. QED  BY <1>2, <1>3, <3>1
  <2>. QED  BY <2>1, <2>2
<1>5. t = p \o q
  BY <1>3, <1>4, SameSequence
<1>. QED  BY <1>1, <1>2, <1>5 DEF p, q

-----------------------------------------------------------------------------
(* A member that is set: in its place, or behind the last one.             *)

(* Named is the first member of a name, or 0 when there is none.           *)
LEMMA NamedIs ==
  ASSUME NEW S, NEW t \in Seq(S), NEW key
  PROVE  /\ Named(t, key) = 0 => \A i \in Members(t) : t[i].key # key
         /\ Named(t, key) # 0 =>
              /\ Named(t, key) \in Members(t) /\ t[Named(t, key)].key = key
              /\ \A i \in Members(t) : t[i].key = key => Named(t, key) <= i
<1>. DEFINE hits == {i \in Members(t) : t[i].key = key}
<1>1. hits \subseteq Nat \ {0}
  BY DEF Members
<1>2. CASE hits = {}
  BY <1>2 DEF Named
<1>3. CASE hits # {}
  <2>1. \E i \in hits : \A j \in hits : i <= j
    BY <1>1, <1>3, HasFirst
  <2>2. Named(t, key) = CHOOSE i \in hits : \A j \in hits : i <= j
    BY <1>3 DEF Named, FirstOf
  <2>3. Named(t, key) \in hits /\ \A j \in hits : Named(t, key) <= j
    BY <2>1, <2>2
  <2>. QED  BY <1>1, <2>3
<1>. QED  BY <1>2, <1>3

Inserted(t, n, new) == SubSeq(t, 1, n) \o new \o SubSeq(t, n + 1, Len(t))

Places(u, t, n, new) ==
  /\ Len(u) = Len(t) + Len(new)
  /\ DOMAIN u = 1 .. Len(t) + Len(new) /\ DOMAIN t = 1 .. Len(t) /\ DOMAIN new = 1 .. Len(new)
  /\ Len(t) \in Nat /\ Len(new) \in Nat
  /\ \A i \in 1 .. n : u[i] = t[i]
  /\ \A i \in n + 1 .. n + Len(new) : u[i] = new[i - n]
  /\ \A i \in n + Len(new) + 1 .. Len(t) + Len(new) : u[i] = t[i - Len(new)]

(* Where the elements are after an insertion.                              *)
LEMMA InsertedPlaces ==
  ASSUME NEW S, NEW t \in Seq(S), NEW n \in 0 .. Len(t), NEW new \in Seq(S)
  PROVE  Inserted(t, n, new) \in Seq(S) /\ Places(Inserted(t, n, new), t, n, new)
<1>. DEFINE p == SubSeq(t, 1, n)
            q == SubSeq(t, n + 1, Len(t))
            pn == p \o new
<1>1. p \in Seq(S) /\ Len(p) = n /\ \A i \in 1 .. n : p[i] = t[i]
  OBVIOUS
<1>2. q \in Seq(S) /\ Len(q) = Len(t) - n /\ \A i \in 1 .. Len(t) - n : q[i] = t[n + i]
  OBVIOUS
<1>. HIDE DEF p, q
<1>3. /\ pn \in Seq(S) /\ Len(pn) = n + Len(new)
      /\ \A i \in 1 .. n : pn[i] = p[i]
      /\ \A i \in n + 1 .. n + Len(new) : pn[i] = new[i - n]
      /\ Len(new) \in Nat /\ DOMAIN new = 1 .. Len(new)
  BY <1>1, ConcatAt
<1>. HIDE DEF pn
<1>4. /\ pn \o q \in Seq(S) /\ Len(pn \o q) = Len(t) + Len(new)
      /\ DOMAIN (pn \o q) = 1 .. Len(t) + Len(new)
      /\ \A i \in 1 .. n + Len(new) : (pn \o q)[i] = pn[i]
      /\ \A i \in n + Len(new) + 1 .. Len(t) + Len(new) : (pn \o q)[i] = q[i - (n + Len(new))]
  <2>. DEFINE u == pn \o q
  <2>0. pn \in Seq(S) /\ q \in Seq(S)
    BY <1>2, <1>3
  <2>1. /\ u \in Seq(S) /\ Len(u) = Len(pn) + Len(q) /\ DOMAIN u = 1 .. Len(pn) + Len(q)
        /\ \A i \in 1 .. Len(pn) : u[i] = pn[i]
        /\ \A i \in Len(pn) + 1 .. Len(pn) + Len(q) : u[i] = q[i - Len(pn)]
    BY ONLY <2>0, ConcatPlaces
  <2>. HIDE DEF u
  <2>2. Len(pn) + Len(q) = Len(t) + Len(new) /\ Len(pn) = n + Len(new)
    BY <1>2, <1>3
  <2>3. /\ u \in Seq(S) /\ Len(u) = Len(t) + Len(new)
        /\ DOMAIN u = 1 .. Len(t) + Len(new)
        /\ \A i \in 1 .. n + Len(new) : u[i] = pn[i]
        /\ \A i \in n + Len(new) + 1 .. Len(t) + Len(new) : u[i] = q[i - (n + Len(new))]
    BY <2>1, <2>2, Zenon
  <2>. QED  BY <2>3 DEF u
<1>5. Inserted(t, n, new) = pn \o q
  BY DEF Inserted, pn, p, q
<1>6. ASSUME NEW i \in n + Len(new) + 1 .. Len(t) + Len(new)
      PROVE  (pn \o q)[i] = t[i - Len(new)]
  <2>1. i - (n + Len(new)) \in 1 .. Len(t) - n /\ n + (i - (n + Len(new))) = i - Len(new)
    BY <1>3
  <2>. QED  BY <1>2, <1>4, <2>1
<1>. HIDE DEF pn
<1>7. DOMAIN t = 1 .. Len(t) /\ Len(t) \in Nat
  OBVIOUS
<1>8. Places(pn \o q, t, n, new)
  BY <1>1, <1>3, <1>4, <1>6, <1>7 DEF Places
<1>. QED  BY <1>4, <1>5, <1>8

(* What SetMember inserts, and where, so that tokens that alternate still do. *)
Inserts(t, key, value, n, new) ==
  /\ n \in 0 .. Len(t)
  /\ SetMember(t, key, value) = Inserted(t, n, new)
  /\ new \in {<<Member(key, value)>>, <<Member(key, value), Comma>>, <<Comma, Member(key, value)>>}

NextSaid(t, n) == FirstFrom(t, n, LAMBDA x : x.token # "note")

(* The first token behind a place that is no comment.                      *)
LEMMA FirstSaid ==
  ASSUME NEW t, NEW n \in 0 .. Len(t), t \in Seq(Range(t))
  PROVE  LET c == NextSaid(t, n + 1)
         IN /\ \A i \in n + 1 .. Len(t) : i < c => t[i].token = "note"
            /\ c <= Len(t) => c \in n + 1 .. Len(t) /\ t[c].token # "note"
            /\ c \in Nat
<1>. DEFINE found == {j \in n + 1 .. Len(t) : t[j].token # "note"}
            c == NextSaid(t, n + 1)
<1>0. Len(t) \in Nat
  OBVIOUS
<1>1. found \subseteq Nat
  BY <1>0
<1>2. CASE found = {}
  <2>1. c = Len(t) + 1
    BY <1>2 DEF NextSaid, FirstFrom
  <2>. QED  BY <1>0, <1>2, <2>1
<1>3. CASE found # {}
  <2>1. \E i \in found : \A j \in found : i <= j
    BY <1>1, <1>3, HasFirst
  <2>2. c = CHOOSE j \in found : \A k \in found : j <= k
    BY <1>3 DEF NextSaid, FirstFrom, FirstOf
  <2>3. c \in found /\ \A k \in found : c <= k
    BY <2>1, <2>2
  <2>. QED  BY <1>0, <1>1, <2>3
<1>. QED  BY <1>2, <1>3

(* A member that is new goes behind the comma that follows the last member, or *)
(* behind a comma of its own; tokens that alternate still do.              *)
LEMMA SetInserts ==
  ASSUME NEW t, NEW key, NEW value, AreTokens(t, "member"), Named(t, key) = 0
  PROVE  \E n, new : /\ Inserts(t, key, value, n, new)
                     /\ Alternates(t) => Alternates(Inserted(t, n, new))
<1>. DEFINE M == Member(key, value)
            T == Range(t) \cup {Comma, M}
            last == LastOf(Members(t))
            c == NextSaid(t, last + 1)
<1>1. t \in Seq(T) /\ t \in Seq(Range(t)) /\ Len(t) \in Nat /\ DOMAIN t = 1 .. Len(t)
  BY DEF AreTokens
<1>2. M.token = "member" /\ Comma.token = "comma" /\ M # Comma /\ M \in T /\ Comma \in T
  BY DEF Member, Comma
<1>3. \A i \in Said(t) : i \notin Members(t) => t[i] = Comma
  BY DEF AreTokens, Said, Members
<1>4. Members(t) \subseteq Said(t) /\ \A i \in Members(t) : t[i] # Comma
  BY <1>2 DEF Members, Said
<1>5. Said(t) \subseteq 1 .. Len(t)
  BY <1>1 DEF Said
<1>6. CASE Members(t) = {}
  <2>1. SetMember(t, key, value) = Inserted(t, 0, <<M>>)
    BY <1>6 DEF SetMember, Inserted
  <2>2. Inserts(t, key, value, 0, <<M>>)
    BY <1>1, <2>1 DEF Inserts
  <2>3. ASSUME Alternates(t) PROVE Alternates(Inserted(t, 0, <<M>>))
    <3>1. Said(t) = {}
      <4>1. SUFFICES ASSUME Said(t) # {} PROVE FALSE
        OBVIOUS
      <4>2. PICK i \in Said(t) : \A j \in Said(t) : i <= j
        BY <1>5, <4>1, HasFirst
      <4>3. t[i] = Comma
        BY <1>3, <1>6
      <4>4. PICK j \in Said(t) : j < i
        BY <2>3, <4>3 DEF Alternates, After
      <4>. QED  BY <1>5, <4>2, <4>4
    <3>2. <<>> \in Seq(T) /\ Said(<<>>) = {}
      BY DEF Said
    <3>3. Alternates(<<>>) /\ ~ Closed(<<>>)
      BY <3>2 DEF Alternates, Closed
    <3>4. Alternates(<<>> \o <<M>>)
      BY <1>2, <3>2, <3>3, AndOne
    <3>5. \A i \in DOMAIN t : t[i].token = "note"
      BY <3>1 DEF Said
    <3>6. <<>> \o <<M>> \in Seq(T)
      BY <1>2
    <3>7. Alternates((<<>> \o <<M>>) \o t)
      BY <1>1, <3>4, <3>5, <3>6, AndNotes
    <3>8. Inserted(t, 0, <<M>>) = <<>> \o <<M>> \o t
      BY <1>1 DEF Inserted
    <3>. QED  BY <3>7, <3>8
  <2>. QED  BY <2>2, <2>3
<1>7. CASE Members(t) # {}
  <2>1. last \in Members(t) /\ (\A k \in Members(t) : k <= last) /\ last \in 1 .. Len(t)
    <3>1. Members(t) \subseteq 0 .. Len(t)
      BY <1>4, <1>5
    <3>. QED  BY <1>1, <1>4, <1>5, <1>7, <3>1, LastOfIs
  <2>2. /\ \A i \in last + 1 .. Len(t) : i < c => t[i].token = "note"
        /\ c <= Len(t) => c \in last + 1 .. Len(t) /\ t[c].token # "note"
        /\ c \in Nat
    BY <1>1, <2>1, FirstSaid
  <2>. HIDE DEF last
  <2>3. CASE c <= Len(t)
    <3>1. SetMember(t, key, value) = Inserted(t, c, <<M, Comma>>)
      BY <1>7, <2>3 DEF SetMember, Inserted, last, NextSaid
    <3>. HIDE DEF c
    <3>2. Inserts(t, key, value, c, <<M, Comma>>)
      BY <1>1, <2>2, <2>3, <3>1 DEF Inserts
    <3>3. ASSUME Alternates(t) PROVE Alternates(Inserted(t, c, <<M, Comma>>))
      <4>. DEFINE p == SubSeq(t, 1, c)
                  q == SubSeq(t, c + 1, Len(t))
      <4>1. c \in Said(t) /\ t[c] = Comma
        BY <1>1, <1>3, <2>1, <2>2, <2>3 DEF Said
      <4>2. p \in Seq(T) /\ Len(p) = c /\ DOMAIN p = 1 .. c /\ \A i \in 1 .. c : p[i] = t[i]
        BY <1>1, <2>2, <2>3, SplitPlaces
      <4>3. q \in Seq(T) /\ Len(q) = Len(t) - c /\ DOMAIN q = 1 .. Len(t) - c
            /\ \A i \in DOMAIN q : q[i] = t[c + i]
        <5>1. c \in 0 .. Len(t)
          BY <1>1, <2>1, <2>2, <2>3
        <5>2. q \in Seq(T) /\ Len(q) = Len(t) - c /\ DOMAIN q = 1 .. Len(t) - c
              /\ \A i \in 1 .. Len(t) - c : q[i] = t[c + i]
          <6>1. t \in Seq(T)
            BY <1>1
          <6>. HIDE DEF T
          <6>. QED  BY ONLY <5>1, <6>1
        <5>. HIDE DEF q
        <5>. QED  BY <5>2
      <4>4. Alternates(p)
        BY <1>1, <2>2, <2>3, <3>3, PrefixAlternates
      <4>. HIDE DEF p, q
      <4>5. c \in Said(p) /\ p[c] = Comma /\ \A k \in Said(p) : k <= c
        BY <2>2, <2>3, <4>1, <4>2 DEF Said
      <4>6. ~ Closed(p)
        BY <2>2, <2>3, <4>2, <4>5 DEF Closed, Said
      <4>7. \A i \in Said(t) : i <= c
        <5>1. SUFFICES ASSUME {i \in Said(t) : i > c} # {} PROVE FALSE
          BY <1>5, <2>2
        <5>2. PICK i \in Said(t) : i > c /\ \A j \in Said(t) : j > c => i <= j
          <6>1. {i \in Said(t) : i > c} \subseteq Nat
            BY <1>5
          <6>. QED  BY <5>1, <6>1, HasFirst
        <5>3. t[i] = Comma
          BY <1>3, <1>5, <2>1, <2>2, <2>3, <5>2
        <5>4. PICK j \in Said(t) : After(t, i, j) /\ t[j] # Comma
          BY <3>3, <5>3 DEF Alternates
        <5>5. j = c
          BY <1>5, <2>2, <4>1, <5>2, <5>4 DEF After
        <5>. QED  BY <4>1, <5>4, <5>5
      <4>8. \A i \in DOMAIN q : q[i].token = "note"
        <5>1. ASSUME NEW i \in DOMAIN q, q[i].token # "note" PROVE FALSE
          <6>1. c + i \in DOMAIN t /\ c + i > c /\ t[c + i].token # "note"
            BY <1>1, <2>2, <2>3, <4>3, <5>1
          <6>2. c + i \in Said(t)
            BY <6>1 DEF Said
          <6>3. c + i <= c
            BY <4>7, <6>2
          <6>. QED  BY <1>1, <2>2, <4>3, <6>1, <6>3
        <5>. QED  BY <5>1
      <4>. DEFINE pm == p \o <<M>>
      <4>9. Alternates(pm) /\ Closed(pm) /\ pm \in Seq(T)
        BY <1>2, <4>2, <4>4, <4>6, AndOne
      <4>. HIDE DEF pm
      <4>10. Alternates(pm \o <<Comma>>) /\ pm \o <<Comma>> \in Seq(T)
        BY <1>2, <4>9, AndComma
      <4>11. Alternates((pm \o <<Comma>>) \o q)
        BY <4>3, <4>8, <4>10, AndNotes
      <4>12. pm \o <<Comma>> = p \o <<M, Comma>>
        BY <1>2, <4>2 DEF pm
      <4>. QED  BY <4>11, <4>12 DEF Inserted, p, q
    <3>. QED  BY <3>2, <3>3
  <2>4. CASE ~ (c <= Len(t))
    <3>1. SetMember(t, key, value) = Inserted(t, last, <<Comma, M>>)
      BY <1>7, <2>4 DEF SetMember, Inserted, last, NextSaid
    <3>2. Inserts(t, key, value, last, <<Comma, M>>)
      BY <1>1, <2>1, <3>1 DEF Inserts
    <3>3. ASSUME Alternates(t) PROVE Alternates(Inserted(t, last, <<Comma, M>>))
      <4>. DEFINE p == SubSeq(t, 1, last)
                  q == SubSeq(t, last + 1, Len(t))
      <4>2. p \in Seq(T) /\ Len(p) = last /\ DOMAIN p = 1 .. last /\ \A i \in 1 .. last : p[i] = t[i]
        BY <1>1, <2>1
      <4>3. q \in Seq(T) /\ Len(q) = Len(t) - last /\ DOMAIN q = 1 .. Len(t) - last
            /\ \A i \in DOMAIN q : q[i] = t[last + i]
        <5>1. last \in 0 .. Len(t)
          BY <1>1, <2>1
        <5>2. q \in Seq(T) /\ Len(q) = Len(t) - last /\ DOMAIN q = 1 .. Len(t) - last
              /\ \A i \in 1 .. Len(t) - last : q[i] = t[last + i]
          <6>1. t \in Seq(T)
            BY <1>1
          <6>. HIDE DEF T
          <6>. QED  BY ONLY <5>1, <6>1
        <5>. HIDE DEF q
        <5>. QED  BY <5>2
      <4>4. Alternates(p)
        BY <1>1, <2>1, <3>3, PrefixAlternates
      <4>. HIDE DEF p, q, c
      <4>5. last \in Said(p) /\ p[last] # Comma /\ \A k \in Said(p) : k <= last
        BY <1>4, <2>1, <4>2 DEF Said, Members
      <4>6. Closed(p)
        BY <4>5 DEF Closed
      <4>8. \A i \in DOMAIN q : q[i].token = "note"
        <5>1. ASSUME NEW i \in DOMAIN q PROVE q[i].token = "note"
          <6>1. last + i \in last + 1 .. Len(t) /\ last + i < c
            BY <1>1, <2>1, <2>2, <2>4, <4>3
          <6>. QED  BY <2>2, <4>3, <6>1
        <5>. QED  BY <5>1
      <4>. DEFINE pc2 == p \o <<Comma>>
      <4>9. Alternates(pc2) /\ ~ Closed(pc2) /\ pc2 \in Seq(T)
        BY <1>2, <4>2, <4>4, <4>6, AndComma
      <4>. HIDE DEF pc2
      <4>10. Alternates(pc2 \o <<M>>) /\ pc2 \o <<M>> \in Seq(T)
        BY <1>2, <4>9, AndOne
      <4>11. Alternates((pc2 \o <<M>>) \o q)
        BY <4>3, <4>8, <4>10, AndNotes
      <4>12. pc2 \o <<M>> = p \o <<Comma, M>>
        BY <1>2, <4>2 DEF pc2
      <4>. QED  BY <4>11, <4>12 DEF Inserted, p, q
    <3>. QED  BY <3>2, <3>3
  <2>. QED  BY <2>3, <2>4
<1>. QED  BY <1>6, <1>7

(* What a sequence holds.                                                  *)
LEMMA RangeIs ==
  ASSUME NEW S, NEW t \in Seq(S)
  PROVE  t \in Seq(Range(t)) /\ Range(t) \subseteq S /\ \A x : x \in Range(t) <=> \E i \in DOMAIN t : x = t[i]
<1>1. \A i \in DOMAIN t : t[i] \in Range(t)
  BY DEF Range
<1>2. Len(t) \in Nat /\ DOMAIN t = 1 .. Len(t) /\ t = [i \in 1 .. Len(t) |-> t[i]]
  OBVIOUS
<1>3. t \in Seq(Range(t))
  BY <1>1, <1>2
<1>4. \A x : x \in Range(t) <=> \E i \in DOMAIN t : x = t[i]
  BY DEF Range
<1>5. Range(t) \subseteq S
  <2>1. \A i \in DOMAIN t : t[i] \in S
    OBVIOUS
  <2>. QED  BY <1>4, <2>1
<1>. QED  BY <1>3, <1>4, <1>5

Distinct(t) == \A i, j \in Members(t) : t[i].key = t[j].key => i = j

(* What SetMember does, whichever way.                                     *)
HasSet(t, key, M, u) ==
  /\ AreTokens(u, "member")
  /\ Alternates(t) => Alternates(u)
  /\ Distinct(t) => Distinct(u)
  /\ \A i \in DOMAIN u : u[i] \in Range(t) \/ u[i] = Comma \/ u[i] = M
  /\ \A j \in DOMAIN t : t[j] \in Range(u) \/ (t[j].token = "member" /\ t[j].key = key)
  /\ Named(u, key) \in Members(u) /\ u[Named(u, key)] = M

(* A member that is there is replaced.                                     *)
LEMMA SetInPlace ==
  ASSUME NEW t, AreTokens(t, "member"), NEW key, NEW value, Named(t, key) # 0
  PROVE  HasSet(t, key, Member(key, value), SetMember(t, key, value))
<1>. DEFINE m == Named(t, key)
            M == Member(key, value)
            u == SetMember(t, key, value)
            T == Range(t) \cup {M}
<1>1. t \in Seq(Range(t)) /\ DOMAIN t = 1 .. Len(t)
  BY DEF AreTokens
<1>2. m \in Members(t) /\ t[m].key = key
  BY <1>1, NamedIs
<1>3. t[m] = Member(key, t[m].value)
  BY <1>2 DEF AreTokens, Members, Comma, Note, Rule
<1>4. M.token = "member" /\ M.key = key /\ M.value = value /\ M # Comma /\ Comma.token = "comma"
  BY DEF Member, Comma
<1>5. u = [t EXCEPT ![m].value = value]
  BY DEF SetMember
<1>6. [t[m] EXCEPT !.value = value] = M
  BY <1>3 DEF Member
<1>7. u = [t EXCEPT ![m] = M]
  BY <1>5, <1>6
<1>8. DOMAIN u = DOMAIN t /\ u[m] = M /\ \A i \in DOMAIN t \ {m} : u[i] = t[i]
  BY <1>2, <1>7 DEF Members
<1>9. u \in Seq(T)
  <2>1. t \in Seq(T) /\ M \in T /\ m \in DOMAIN t
    BY <1>1, <1>2 DEF Members
  <2>. HIDE DEF T, u, m, M
  <2>. QED  BY <1>7, <2>1
<1>. HIDE DEF u, m, M
<1>10. Members(u) = Members(t) /\ Said(u) = Said(t)
  BY <1>2, <1>4, <1>8 DEF Members, Said
<1>11. \A i \in DOMAIN t : u[i] = Comma <=> t[i] = Comma
  BY <1>2, <1>4, <1>8 DEF Members
<1>12. AreTokens(u, "member")
  <2>1. u \in Seq(Range(u))
    BY <1>9, RangeIs
  <2>2. M = Member(M.key, M.value)
    BY <1>4 DEF M
  <2>. QED  BY <1>4, <1>8, <2>1, <2>2 DEF AreTokens
<1>13. ASSUME Alternates(t) PROVE Alternates(u)
  <2>1. Said(t) \subseteq DOMAIN t
    BY DEF Said
  <2>. QED  BY <1>10, <1>11, <1>13, <2>1 DEF Alternates, After
<1>14. \A i \in Members(t) : u[i].key = t[i].key
  BY <1>2, <1>4, <1>8 DEF Members
<1>15. ASSUME Distinct(t) PROVE Distinct(u)
  BY <1>10, <1>14, <1>15 DEF Distinct
<1>16. \A i \in DOMAIN u : u[i] \in Range(t) \/ u[i] = M
  BY <1>8 DEF Range
<1>17. \A j \in DOMAIN t : t[j] \in Range(u) \/ (t[j].token = "member" /\ t[j].key = key)
  <2>1. \A j \in DOMAIN t \ {m} : t[j] \in Range(u)
    BY <1>8 DEF Range
  <2>2. t[m].token = "member" /\ t[m].key = key
    BY <1>2 DEF Members
  <2>. QED  BY <2>1, <2>2
<1>18. Named(u, key) = m
  <2>1. {i \in Members(u) : u[i].key = key} = {i \in Members(t) : t[i].key = key}
    BY <1>10, <1>14
  <2>. DEFINE S == {i \in Members(u) : u[i].key = key}
  <2>2. Named(u, key) = IF S = {} THEN 0 ELSE FirstOf(S)
    BY DEF Named
  <2>3. m = IF S = {} THEN 0 ELSE FirstOf(S)
    BY <2>1 DEF Named, m
  <2>. QED  BY <2>2, <2>3
<1>19. m \in Members(u) /\ u[m] = M
  BY <1>2, <1>8, <1>10
<1>. QED  BY <1>12, <1>13, <1>15, <1>16, <1>17, <1>18, <1>19 DEF HasSet, u, M

(* A member that is new is inserted.                                       *)
LEMMA SetBehind ==
  ASSUME NEW t, AreTokens(t, "member"), NEW key, NEW value, Named(t, key) = 0
  PROVE  HasSet(t, key, Member(key, value), SetMember(t, key, value))
<1>. DEFINE M == Member(key, value)
            u == SetMember(t, key, value)
            T == Range(t) \cup {M, Comma}
<1>1. t \in Seq(Range(t)) /\ t \in Seq(T) /\ DOMAIN t = 1 .. Len(t) /\ Len(t) \in Nat
  BY DEF AreTokens
<1>2. \A i \in Members(t) : t[i].key # key
  BY <1>1, NamedIs
<1>3. PICK n, new : Inserts(t, key, value, n, new) /\ (Alternates(t) => Alternates(Inserted(t, n, new)))
  BY SetInserts
<1>4. /\ M.token = "member" /\ M.key = key /\ M.value = value /\ M # Comma /\ Comma.token = "comma"
      /\ M = Member(M.key, M.value)
  BY DEF Member, Comma
<1>. HIDE DEF M
<1>5. n \in 0 .. Len(t) /\ u = Inserted(t, n, new) /\ new \in {<<M>>, <<M, Comma>>, <<Comma, M>>}
  BY <1>3 DEF Inserts, M
<1>6. /\ new \in Seq(T) /\ Len(new) \in {1, 2} /\ DOMAIN new = 1 .. Len(new)
      /\ \A i \in 1 .. Len(new) : new[i] \in {M, Comma}
      /\ \E i \in 1 .. Len(new) : new[i] = M
      /\ \A i, j \in 1 .. Len(new) : new[i] = M /\ new[j] = M => i = j
  <2>1. CASE new = <<M>>
    BY <2>1
  <2>2. CASE new = <<M, Comma>>
    BY <1>4, <2>2
  <2>3. CASE new = <<Comma, M>>
    BY <1>4, <2>3
  <2>. QED  BY <1>5, <2>1, <2>2, <2>3
<1>7. /\ u \in Seq(T) /\ DOMAIN u = 1 .. Len(t) + Len(new)
      /\ \A i \in 1 .. n : u[i] = t[i]
      /\ \A i \in n + 1 .. n + Len(new) : u[i] = new[i - n]
      /\ \A i \in n + Len(new) + 1 .. Len(t) + Len(new) : u[i] = t[i - Len(new)]
  <2>. HIDE DEF u, T
  <2>1. t \in Seq(T) /\ n \in 0 .. Len(t) /\ new \in Seq(T) /\ u = Inserted(t, n, new)
    BY <1>1, <1>5, <1>6
  <2>2. u \in Seq(T) /\ Places(u, t, n, new)
    BY ONLY <2>1, InsertedPlaces
  <2>. QED  BY <2>2 DEF Places
<1>. HIDE DEF u, T
<1>8. ASSUME NEW i \in DOMAIN u
      PROVE  \/ i \in 1 .. n /\ i \in DOMAIN t /\ u[i] = t[i]
             \/ i \in n + 1 .. n + Len(new) /\ i - n \in 1 .. Len(new) /\ u[i] = new[i - n]
             \/ /\ i \in n + Len(new) + 1 .. Len(t) + Len(new) /\ i - Len(new) \in DOMAIN t
                /\ i - Len(new) > n /\ u[i] = t[i - Len(new)]
  <2>1. n \in Nat /\ n <= Len(t) /\ Len(new) \in Nat
    BY <1>1, <1>5, <1>6
  <2>. QED  BY <1>1, <1>7, <2>1
<1>9. \A i \in DOMAIN u : u[i] \in Range(t) \/ u[i] = Comma \/ u[i] = M
  BY <1>6, <1>8 DEF Range
<1>10. \A j \in DOMAIN t : t[j] \in Range(u)
  <2>1. ASSUME NEW j \in DOMAIN t PROVE \E i \in DOMAIN u : u[i] = t[j]
    <3>1. CASE j <= n
      <4>1. j \in DOMAIN u /\ j \in 1 .. n
        BY <1>1, <1>5, <1>6, <1>7, <3>1
      <4>. QED  BY <1>7, <4>1
    <3>2. CASE j > n
      <4>1. j + Len(new) \in n + Len(new) + 1 .. Len(t) + Len(new) /\ (j + Len(new)) - Len(new) = j
            /\ j + Len(new) \in DOMAIN u
        BY <1>1, <1>5, <1>6, <1>7, <3>2
      <4>. QED  BY <1>7, <4>1
    <3>. QED  BY <1>1, <1>5, <3>1, <3>2
  <2>. QED  BY <2>1 DEF Range
<1>11. M \in Range(u)
  <2>1. PICK k \in 1 .. Len(new) : new[k] = M
    BY <1>6
  <2>2. n + k \in n + 1 .. n + Len(new) /\ n + k \in DOMAIN u /\ (n + k) - n = k
    BY <1>1, <1>5, <1>6, <1>7
  <2>. QED  BY <1>7, <2>1, <2>2 DEF Range
<1>17. Named(u, key) \in Members(u) /\ u[Named(u, key)] = M
  <2>1. PICK i \in DOMAIN u : u[i] = M
    BY <1>11 DEF Range
  <2>2. Named(u, key) # 0
    BY <1>4, <1>7, <2>1, NamedIs DEF Members
  <2>3. Named(u, key) \in Members(u) /\ u[Named(u, key)].key = key
    BY <1>7, <2>2, NamedIs
  <2>4. \A x \in Range(t) : x.token = "member" => x.key # key
    BY <1>2 DEF Members, Range
  <2>. QED  BY <1>4, <1>9, <2>3, <2>4 DEF Members
<1>12. AreTokens(u, "member")
  <2>1. u \in Seq(Range(u))
    BY <1>7, RangeIs
  <2>2. \A i \in DOMAIN u : (\E j \in DOMAIN t : u[i] = t[j]) \/ u[i] = Comma \/ u[i] = M
    BY <1>6, <1>8
  <2>. QED  BY <1>4, <2>1, <2>2 DEF AreTokens
<1>13. ASSUME Distinct(t), NEW i \in Members(u), NEW j \in Members(u), u[i].key = u[j].key
       PROVE  i = j
  <2>1. i \in DOMAIN u /\ j \in DOMAIN u /\ u[i].token = "member" /\ u[j].token = "member"
    BY DEF Members
  <2>2. CASE u[i].key = key
    <3>1. \A k \in DOMAIN t : t[k].token = "member" => t[k].key # key
      BY <1>2 DEF Members
    <3>2. /\ i \in n + 1 .. n + Len(new) /\ i - n \in 1 .. Len(new) /\ u[i] = new[i - n]
          /\ j \in n + 1 .. n + Len(new) /\ j - n \in 1 .. Len(new) /\ u[j] = new[j - n]
      BY <1>8, <1>13, <2>1, <2>2, <3>1
    <3>3. new[i - n] = M /\ new[j - n] = M
      BY <1>4, <1>6, <2>1, <3>2
    <3>4. i - n = j - n
      BY <1>6, <3>2, <3>3
    <3>. QED  BY <1>1, <1>5, <1>7, <2>1, <3>4
  <2>3. CASE u[i].key # key
    <3>1. \A k \in 1 .. Len(new) : new[k].token = "member" => new[k].key = key
      BY <1>4, <1>6
    <3>2. /\ \/ i \in 1 .. n /\ i \in DOMAIN t /\ u[i] = t[i]
             \/ i > n + Len(new) /\ i - Len(new) \in DOMAIN t /\ i - Len(new) > n /\ u[i] = t[i - Len(new)]
          /\ \/ j \in 1 .. n /\ j \in DOMAIN t /\ u[j] = t[j]
             \/ j > n + Len(new) /\ j - Len(new) \in DOMAIN t /\ j - Len(new) > n /\ u[j] = t[j - Len(new)]
      BY <1>1, <1>5, <1>6, <1>8, <1>13, <2>1, <2>3, <3>1
    <3>3. PICK a \in DOMAIN t : u[i] = t[a] /\ ((a = i /\ a <= n) \/ (a = i - Len(new) /\ a > n))
      <4>1. i \in 1 .. n => i <= n
        BY <1>5
      <4>. QED  BY <3>2, <4>1
    <3>4. PICK b \in DOMAIN t : u[j] = t[b] /\ ((b = j /\ b <= n) \/ (b = j - Len(new) /\ b > n))
      <4>1. j \in 1 .. n => j <= n
        BY <1>5
      <4>. QED  BY <3>2, <4>1
    <3>5. a = b
      BY <1>13, <2>1, <3>3, <3>4 DEF Distinct, Members
    <3>. QED  BY <1>1, <1>5, <1>6, <1>7, <2>1, <3>3, <3>4, <3>5
  <2>. QED  BY <2>2, <2>3
<1>14. Distinct(t) => Distinct(u)
  BY <1>13 DEF Distinct
<1>15. Alternates(t) => Alternates(u)
  BY <1>3, <1>5
<1>16. HasSet(t, key, M, u)
  BY <1>9, <1>10, <1>12, <1>14, <1>15, <1>17 DEF HasSet
<1>. QED  BY <1>16 DEF u, M

(* What SetMember does, whichever way.                                     *)
LEMMA SetIs ==
  ASSUME NEW t, AreTokens(t, "member"), NEW key, NEW value
  PROVE  HasSet(t, key, Member(key, value), SetMember(t, key, value))
BY SetInPlace, SetBehind

-----------------------------------------------------------------------------
(* The rules that are added to a list.                                     *)

(* One, two and three tokens, joined.                                      *)
LEMMA Triple ==
  ASSUME NEW T, NEW a \in T, NEW b \in T, NEW c \in T
  PROVE  <<a, b>> \o <<c>> = <<a, b, c>> /\ <<a>> \o <<b>> = <<a, b>>
<1>1. <<a, b>> \in Seq(T) /\ <<c>> \in Seq(T) /\ <<a>> \in Seq(T) /\ <<b>> \in Seq(T)
      /\ <<a, b, c>> \in Seq(T)
  OBVIOUS
<1>. DEFINE u == <<a, b>> \o <<c>>
            v == <<a>> \o <<b>>
<1>2. u \in Seq(T) /\ Len(u) = 3 /\ u[1] = a /\ u[2] = b /\ u[3] = c
  BY <1>1
<1>3. v \in Seq(T) /\ Len(v) = 2 /\ v[1] = a /\ v[2] = b
  BY <1>1
<1>. HIDE DEF u, v
<1>4. u = <<a, b, c>>
  BY <1>1, <1>2, SameSequence
<1>5. v = <<a, b>>
  BY <1>1, <1>3, SameSequence
<1>. QED  BY <1>4, <1>5 DEF u, v

(* Rules behind a list that is ready for one alternate.                    *)
LEMMA AllowedAlternate ==
  ASSUME NEW T, NEW p \in Seq(T), NEW r, NEW q, NEW new, r \in T, q \in T, Comma \in T,
         r.token = "rule", q.token = "rule", Alternates(p), ~ Closed(p),
         new \in {<<r>>, <<q>>, <<r, Comma, q>>}
  PROVE  Alternates(p \o new)
<1>1. r # Comma /\ q # Comma
  BY DEF Comma
<1>2. ASSUME NEW x \in T, x.token = "rule", x # Comma
      PROVE  Alternates(p \o <<x>>) /\ Closed(p \o <<x>>) /\ p \o <<x>> \in Seq(T)
  BY <1>2, AndOne
<1>. DEFINE pr == p \o <<r>>
<1>3. Alternates(pr) /\ Closed(pr) /\ pr \in Seq(T)
  BY <1>1, <1>2
<1>. HIDE DEF pr
<1>. DEFINE prc == pr \o <<Comma>>
<1>4. Alternates(prc) /\ ~ Closed(prc) /\ prc \in Seq(T)
  BY <1>3, AndComma
<1>. HIDE DEF prc
<1>5. Alternates(prc \o <<q>>)
  BY <1>1, <1>4, AndOne
<1>6. prc \o <<q>> = p \o <<r, Comma, q>>
  <2>1. prc = p \o <<r, Comma>>
    BY DEF prc, pr
  <2>2. <<r, Comma>> \in Seq(T) /\ <<q>> \in Seq(T)
    OBVIOUS
  <2>3. (p \o <<r, Comma>>) \o <<q>> = p \o (<<r, Comma>> \o <<q>>)
    BY <2>2, ConcatAssociative
  <2>4. <<r, Comma>> \o <<q>> = <<r, Comma, q>>
    BY Triple
  <2>. QED  BY <2>1, <2>3, <2>4
<1>7. CASE new = <<r>>
  BY <1>1, <1>2, <1>7
<1>8. CASE new = <<q>>
  BY <1>1, <1>2, <1>8
<1>9. CASE new = <<r, Comma, q>>
  BY <1>5, <1>6, <1>9
<1>. QED  BY <1>7, <1>8, <1>9

(* AllowIn keeps every rule and comment, and the list alternates unless it ends *)
(* in a comment.                                                           *)
LEMMA RulesAllowed ==
  ASSUME NEW rules, AreTokens(rules, "rule")
  PROVE  LET X == AllowIn(rules, Providers)
         IN /\ AreTokens(X, "rule")
            /\ Alternates(rules) /\ ~ (rules # <<>> /\ Last(rules).token = "note") => Alternates(X)
            /\ \A x \in Range(rules) : x # Comma => x \in Range(X)
<1>. DEFINE r == Rule("allow", Providers[1])
            q == Rule("allow", Providers[2])
            T == Range(rules) \cup {Comma, r, q}
            told == {t \in Range(rules) : t.token = "rule"}
            Allowed(id) == (\E x \in told : x.resource = id) /\ (\E x \in told : x.effect = "allow")
            Unless(id) == IF Allowed(id) THEN <<>> ELSE <<Rule("allow", id)>>
            both == IF Allowed(Providers[1]) \/ Allowed(Providers[2]) THEN <<>> ELSE <<Comma>>
            new == Unless(Providers[1]) \o both \o Unless(Providers[2])
            content == IF rules # <<>> /\ Last(rules) = Comma THEN Front(rules) ELSE rules
            gap == IF content = <<>> \/ Last(rules).token = "note" THEN <<>> ELSE <<Comma>>
            X == AllowIn(rules, Providers)
<1>1. rules \in Seq(T) /\ rules \in Seq(Range(rules)) /\ Len(rules) \in Nat /\ DOMAIN rules = 1 .. Len(rules)
  BY DEF AreTokens
<1>2. /\ r.token = "rule" /\ q.token = "rule" /\ r = Rule(r.effect, r.resource) /\ q = Rule(q.effect, q.resource)
      /\ Comma.token = "comma"
  BY DEF Rule, Comma
<1>3. new \in {<<>>, <<r>>, <<q>>, <<r, Comma, q>>}
  <2>. HIDE DEF Allowed, r, q
  <2>1. CASE Allowed(Providers[1]) /\ Allowed(Providers[2])
    BY <2>1 DEF r, q
  <2>2. CASE Allowed(Providers[1]) /\ ~ Allowed(Providers[2])
    BY <2>2 DEF r, q
  <2>3. CASE ~ Allowed(Providers[1]) /\ Allowed(Providers[2])
    BY <2>3 DEF r, q
  <2>4. CASE ~ Allowed(Providers[1]) /\ ~ Allowed(Providers[2])
    <3>1. new = <<r>> \o <<Comma>> \o <<q>>
      BY <2>4 DEF r, q
    <3>2. <<r>> \o <<Comma>> = <<r, Comma>> /\ <<r, Comma>> \o <<q>> = <<r, Comma, q>>
      <4>1. r \in T /\ q \in T /\ Comma \in T
        OBVIOUS
      <4>. HIDE DEF T
      <4>. QED  BY <4>1, Triple
    <3>. QED  BY <3>1, <3>2
  <2>. QED  BY <2>1, <2>2, <2>3, <2>4
<1>. DEFINE denied == \E x \in told : x.effect = "deny"
<1>4. X = IF new = <<>> \/ ~ denied THEN rules ELSE content \o gap \o new
  BY DEF AllowIn
<1>5. denied => \E k \in DOMAIN rules : rules[k].token = "rule"
  BY DEF Range
<1>6. r \in T /\ q \in T /\ Comma \in T /\ \A x \in Range(rules) : x \in T
  OBVIOUS
<1>7. \A x \in T : x \in Range(rules) \/ x = Comma \/ x = r \/ x = q
  OBVIOUS
<1>. HIDE DEF r, q, new, X, told, denied, T
<1>8. CASE new = <<>> \/ ~ denied
  <2>1. X = rules
    BY <1>4, <1>8
  <2>. QED  BY <2>1 DEF X
<1>9. CASE new # <<>> /\ denied
  <2>1. X = content \o gap \o new
    BY <1>4, <1>9
  <2>2. PICK k \in DOMAIN rules : rules[k].token = "rule"
    BY <1>5, <1>9
  <2>3. rules # <<>> /\ Len(rules) \in DOMAIN rules /\ Last(rules) = rules[Len(rules)]
    BY <1>1, <2>2 DEF Last
  <2>4. new \in {<<r>>, <<q>>, <<r, Comma, q>>}
    BY <1>3, <1>9
  <2>5. new \in Seq(T)
    <3>1. <<r>> \in Seq(T) /\ <<q>> \in Seq(T) /\ <<r, Comma, q>> \in Seq(T)
      BY <1>6
    <3>. QED  BY <2>4, <3>1
  <2>6. \E p : /\ p \in Seq(T) /\ X = p \o new /\ (\A x \in Range(rules) : x # Comma => x \in Range(p))
               /\ (Alternates(rules) /\ Last(rules).token # "note" => Alternates(p) /\ ~ Closed(p))
    <3>1. CASE Last(rules) = Comma
      <4>1. content = SubSeq(rules, 1, Len(rules) - 1)
        BY <2>3, <3>1 DEF Front
      <4>2. k \in 1 .. Len(rules) - 1
        <5>1. k # Len(rules)
          BY <1>2, <2>2, <2>3, <3>1
        <5>. QED  BY <1>1, <5>1
      <4>. HIDE DEF content
      <4>3. content # <<>>
        BY <1>1, <4>1, <4>2
      <4>4. gap = <<Comma>>
        BY <1>2, <3>1, <4>3
      <4>5. content \o <<Comma>> = rules
        <5>. DEFINE u == content \o <<Comma>>
                    c == <<Comma>>
        <5>0. c \in Seq(T) /\ Len(c) = 1 /\ c[1] = Comma
          BY <1>6
        <5>1. content \in Seq(T) /\ Len(content) = Len(rules) - 1
              /\ \A i \in 1 .. Len(rules) - 1 : content[i] = rules[i]
          BY <1>1, <2>3, <4>1
        <5>2. u \in Seq(T) /\ Len(u) = Len(rules) /\ u[Len(rules)] = Comma
              /\ \A i \in 1 .. Len(rules) - 1 : u[i] = rules[i]
          <6>1. /\ u \in Seq(T) /\ Len(u) = Len(content) + Len(c)
                /\ \A i \in 1 .. Len(content) : u[i] = content[i]
                /\ \A i \in 1 .. Len(c) : u[Len(content) + i] = c[i]
            BY <5>0, <5>1, ConcatPlaces
          <6>. HIDE DEF u, c
          <6>2. Len(content) + Len(c) = Len(rules) /\ Len(content) + 1 = Len(rules) /\ 1 \in 1 .. Len(c)
            BY <1>1, <5>0, <5>1
          <6>3. u[Len(rules)] = Comma
            BY <5>0, <6>1, <6>2
          <6>. QED  BY <5>1, <6>1, <6>2, <6>3
        <5>. HIDE DEF u
        <5>3. \A i \in 1 .. Len(rules) : u[i] = rules[i]
          <6>1. ASSUME NEW i \in 1 .. Len(rules), ~ (i \in 1 .. Len(rules) - 1) PROVE i = Len(rules)
            <7>1. Len(rules) \in Nat /\ i \in Int /\ 1 <= i /\ i <= Len(rules)
              BY <1>1
            <7>2. ~ (i <= Len(rules) - 1)
              BY <6>1, <7>1
            <7>. QED  BY ONLY <7>1, <7>2
          <6>. QED  BY <2>3, <3>1, <5>2, <6>1
        <5>4. u = rules
          BY <1>1, <5>2, <5>3, SameSequence
        <5>. QED  BY <5>4 DEF u
      <4>6. X = rules \o new
        BY <2>1, <4>4, <4>5
      <4>7. Len(rules) \in Said(rules) /\ Said(rules) \subseteq 1 .. Len(rules) /\ rules[Len(rules)] = Comma
        BY <1>1, <1>2, <2>3, <3>1 DEF Said
      <4>8. ~ Closed(rules)
        BY <1>1, <4>7 DEF Closed
      <4>. QED  BY <1>1, <4>6, <4>8
    <3>2. CASE Last(rules) # Comma /\ Last(rules).token = "note"
      <4>1. content = rules
        BY <3>2
      <4>2. X = rules \o <<>> \o new
        BY <2>1, <3>2, <4>1
      <4>3. rules \o <<>> = rules
        BY <1>1
      <4>. QED  BY <1>1, <3>2, <4>2, <4>3
    <3>3. CASE Last(rules) # Comma /\ Last(rules).token # "note"
      <4>1. content = rules
        BY <3>3
      <4>. DEFINE p == rules \o <<Comma>>
      <4>2. X = p \o new
        BY <2>1, <2>3, <3>3, <4>1
      <4>3. Closed(rules)
        <5>1. Len(rules) \in Said(rules) /\ Said(rules) \subseteq 1 .. Len(rules) /\ rules[Len(rules)] # Comma
          BY <1>1, <2>3, <3>3 DEF Said
        <5>. QED  BY <1>1, <5>1 DEF Closed
      <4>4. p \in Seq(T)
        BY <1>1, <1>6
      <4>5. Alternates(rules) => Alternates(p) /\ ~ Closed(p)
        BY <1>1, <1>6, <4>3, AndComma
      <4>6. \A i \in DOMAIN rules : i \in DOMAIN p /\ p[i] = rules[i]
        BY <1>1
      <4>. HIDE DEF p
      <4>7. \A x \in Range(rules) : x \in Range(p)
        BY <4>6 DEF Range
      <4>. QED  BY <4>2, <4>4, <4>5, <4>7
    <3>. QED  BY <3>1, <3>2, <3>3
  <2>7. PICK p : /\ p \in Seq(T) /\ X = p \o new /\ (\A x \in Range(rules) : x # Comma => x \in Range(p))
                 /\ (Alternates(rules) /\ Last(rules).token # "note" => Alternates(p) /\ ~ Closed(p))
    BY <2>6
  <2>8. Alternates(rules) /\ Last(rules).token # "note" => Alternates(X)
    BY <1>2, <1>6, <2>4, <2>7, AllowedAlternate
  <2>9. X \in Seq(T) /\ \A i \in DOMAIN p : i \in DOMAIN X /\ X[i] = p[i]
    BY <2>5, <2>7
  <2>10. \A x \in Range(rules) : x # Comma => x \in Range(X)
    BY <2>7, <2>9 DEF Range
  <2>11. AreTokens(X, "rule")
    <3>1. X \in Seq(Range(X)) /\ \A i \in DOMAIN X : X[i] \in T
      BY <2>9, RangeIs
    <3>2. \A i \in DOMAIN X : (\E j \in DOMAIN rules : X[i] = rules[j]) \/ X[i] = Comma \/ X[i] = r \/ X[i] = q
      BY <1>7, <3>1 DEF Range
    <3>. QED  BY <1>2, <3>1, <3>2 DEF AreTokens
  <2>. QED  BY <2>8, <2>10, <2>11, <2>3 DEF X
<1>. QED  BY <1>8, <1>9

-----------------------------------------------------------------------------
(* Setting one member of the root.                                         *)

IsInside(t, key, y) ==
  \E i \in Members(t) : t[i].key = key /\ t[i].value.is = "nested" /\ y \in Range(t[i].value.tokens)

IsValueOf(key, value) ==
  value.is = "nested" =>
    /\ value = Nested(value.tokens)
    /\ \/ AreTokens(value.tokens, "member")
       \/ AreTokens(value.tokens, "rule") /\ key # "providers"

ElsewhereSame(t, key, u) ==
  \A x : x # Comma /\ ~ (x.token = "member" /\ x.key = key) => (x \in Range(u) <=> x \in Range(t))

(* A member that is set leaves a valid text valid, and everything else as it was. *)
LEMMA SetKeeps ==
  ASSUME NEW t, AreMembers(t), NEW key, NEW value, IsValueOf(key, value)
  PROVE  LET u == SetMember(t, key, value)
         IN /\ AreMembers(u)
            /\ ValidJsonc(t) /\ (value.is = "nested" => Alternates(value.tokens)) => ValidJsonc(u)
            /\ ElsewhereSame(t, key, u)
            /\ Named(u, key) \in Members(u) /\ u[Named(u, key)] = Member(key, value)
<1>. DEFINE u == SetMember(t, key, value)
            M == Member(key, value)
<1>1. HasSet(t, key, M, u)
  BY SetIs DEF AreMembers
<1>2. M.token = "member" /\ M.key = key /\ M.value = value /\ M # Comma /\ Comma.token = "comma"
  BY DEF Member, Comma
<1>. HIDE DEF u, M
<1>3. \A i \in Members(u) : u[i] = M \/ \E j \in Members(t) : u[i] = t[j]
  BY <1>1, <1>2 DEF HasSet, Members, Range
<1>4. AreMembers(u)
  <2>1. AreTokens(u, "member")
    BY <1>1 DEF HasSet
  <2>2. ASSUME NEW i \in Members(u), u[i].value.is = "nested"
        PROVE  /\ u[i].value = Nested(u[i].value.tokens)
               /\ \/ AreTokens(u[i].value.tokens, "member")
                  \/ AreTokens(u[i].value.tokens, "rule") /\ u[i].key # "providers"
    <3>1. CASE u[i] = M
      BY <1>2, <2>2, <3>1 DEF IsValueOf
    <3>2. CASE \E j \in Members(t) : u[i] = t[j]
      BY <2>2, <3>2 DEF AreMembers
    <3>. QED  BY <1>3, <3>1, <3>2
  <2>. QED  BY <2>1, <2>2 DEF AreMembers
<1>5. ASSUME ValidJsonc(t), value.is = "nested" => Alternates(value.tokens)
      PROVE  ValidJsonc(u)
  <2>1. Alternates(u) /\ Distinct(u)
    BY <1>1, <1>5 DEF HasSet, ValidJsonc, Distinct
  <2>2. ASSUME NEW i \in Members(u), u[i].value.is = "nested"
        PROVE  Alternates(u[i].value.tokens)
    BY <1>2, <1>3, <1>5, <2>2 DEF ValidJsonc
  <2>. QED  BY <2>1, <2>2 DEF ValidJsonc, Distinct
<1>6. ElsewhereSame(t, key, u)
  <2>1. ASSUME NEW x, x # Comma, ~ (x.token = "member" /\ x.key = key), x \in Range(u)
        PROVE  x \in Range(t)
    BY <1>1, <1>2, <2>1 DEF HasSet, Range
  <2>2. ASSUME NEW x, x # Comma, ~ (x.token = "member" /\ x.key = key), x \in Range(t)
        PROVE  x \in Range(u)
    BY <1>1, <2>2 DEF HasSet, Range
  <2>. QED  BY <2>1, <2>2 DEF ElsewhereSame
<1>7. Named(u, key) \in Members(u) /\ u[Named(u, key)] = M
  BY <1>1 DEF HasSet
<1>. QED  BY <1>4, <1>5, <1>6, <1>7 DEF u, M

(* So the objects and lists of other names hold what they held.            *)
LEMMA InElsewhere ==
  ASSUME NEW t, NEW u, NEW key, ElsewhereSame(t, key, u), NEW other, other # key, NEW y
  PROVE  IsInside(u, other, y) <=> IsInside(t, other, y)
<1>1. \A x : x.token = "member" => x # Comma
  BY DEF Comma
<1>2. \A x : x.token = "member" /\ x.key = other => (x \in Range(u) <=> x \in Range(t))
  BY <1>1 DEF ElsewhereSame
<1>3. ASSUME NEW a, NEW b, IsInside(a, other, y),
             \A x : x.token = "member" /\ x.key = other => (x \in Range(a) => x \in Range(b))
      PROVE  IsInside(b, other, y)
  <2>1. PICK i \in Members(a) : a[i].key = other /\ a[i].value.is = "nested" /\ y \in Range(a[i].value.tokens)
    BY <1>3 DEF IsInside
  <2>2. a[i] \in Range(a) /\ a[i].token = "member"
    BY DEF Members, Range
  <2>3. a[i] \in Range(b)
    BY <1>3, <2>1, <2>2
  <2>4. PICK j \in DOMAIN b : b[j] = a[i]
    BY <2>3 DEF Range
  <2>5. j \in Members(b)
    BY <2>2, <2>4 DEF Members
  <2>. QED  BY <2>1, <2>4, <2>5 DEF IsInside
<1>. QED  BY <1>2, <1>3

(* Where the keys are distinct, what is inside is inside the first of them. *)
LEMMA InFirst ==
  ASSUME NEW t, Distinct(t), NEW key, NEW n \in Members(t), t[n].key = key, NEW y
  PROVE  IsInside(t, key, y) <=> t[n].value.is = "nested" /\ y \in Range(t[n].value.tokens)
BY DEF IsInside, Distinct

-----------------------------------------------------------------------------
(* A provider that is set.                                                 *)

(* To replace what is in a member is to set the member.                    *)
LEMMA ReplaceTokens ==
  ASSUME NEW t, AreMembers(t), NEW key, Named(t, key) # 0, t[Named(t, key)].value.is = "nested", NEW X
  PROVE  [t EXCEPT ![Named(t, key)].value.tokens = X] = SetMember(t, key, Nested(X))
<1>. DEFINE n == Named(t, key)
<1>1. n \in Members(t)
  BY NamedIs DEF AreMembers, AreTokens
<1>2. t[n].value = Nested(t[n].value.tokens)
  BY <1>1 DEF AreMembers
<1>3. [t[n].value EXCEPT !.tokens = X] = Nested(X)
  BY <1>2 DEF Nested
<1>4. SetMember(t, key, Nested(X)) = [t EXCEPT ![n].value = Nested(X)]
  BY DEF SetMember
<1>5. [t EXCEPT ![n].value.tokens = X] = [t EXCEPT ![n].value = [t[n].value EXCEPT !.tokens = X]]
  OBVIOUS
<1>. QED  BY <1>3, <1>4, <1>5

Listable(t) == Named(t, "providers") = 0 \/ t[Named(t, "providers")].value.is = "nested"

(* A provider is set by setting the member that holds the providers: what is *)
(* not ours in there stays.                                                *)
LEMMA ProviderSets ==
  ASSUME NEW t, AreMembers(t), Listable(t), NEW id \in {Providers[1], Providers[2]}, NEW value
  PROVE  \E X : /\ SetProvider(t, id, value) = SetMember(t, "providers", Nested(X))
                /\ AreTokens(X, "member")
                /\ ValidJsonc(t) => /\ Alternates(X)
                                    /\ \A y : y # Comma /\ ~ Ours(y) =>
                                         (y \in Range(X) <=> IsInside(t, "providers", y))
<1>. DEFINE n == Named(t, "providers")
            M == Member(id, value)
<1>1. /\ M.token = "member" /\ M.key = id /\ M # Comma /\ M = Member(M.key, M.value)
      /\ Ours(M)
  BY DEF Member, Comma, Ours
<1>. HIDE DEF M
<1>2. CASE n = 0
  <2>. DEFINE X == <<M>>
  <2>1. SetProvider(t, id, value) = SetMember(t, "providers", Nested(X))
    BY <1>2 DEF SetProvider, M
  <2>2. DOMAIN X = {1} /\ X[1] = M /\ X \in Seq({M}) /\ M \in {M}
    OBVIOUS
  <2>. HIDE DEF X
  <2>3. X \in Seq(Range(X)) /\ Range(X) = {M}
    BY <2>2, RangeIs
  <2>4. AreTokens(X, "member")
    BY <1>1, <2>2, <2>3 DEF AreTokens
  <2>5. Alternates(X)
    BY <1>1, <2>2 DEF Alternates, Said, After
  <2>6. \A y : ~ IsInside(t, "providers", y)
    BY <1>2, NamedIs DEF IsInside, AreMembers, AreTokens
  <2>7. \A y : ~ Ours(y) => y \notin Range(X)
    BY <1>1, <2>3
  <2>. QED  BY <2>1, <2>4, <2>5, <2>6, <2>7
<1>3. CASE n # 0
  <2>. DEFINE T == t[n].value.tokens
              X == SetMember(T, id, value)
  <2>1. n \in Members(t) /\ t[n].key = "providers" /\ t[n].value.is = "nested"
    BY <1>3, NamedIs DEF AreMembers, AreTokens, Listable
  <2>2. AreTokens(T, "member")
    BY <2>1 DEF AreMembers
  <2>3. SetProvider(t, id, value) = [t EXCEPT ![n].value.tokens = X]
    BY <1>3 DEF SetProvider
  <2>4. HasSet(T, id, M, X)
    BY <2>2, SetIs DEF M
  <2>. HIDE DEF X, T, n
  <2>5. SetProvider(t, id, value) = SetMember(t, "providers", Nested(X))
    BY <1>3, <2>1, <2>3, ReplaceTokens DEF n
  <2>6. AreTokens(X, "member")
    BY <2>4 DEF HasSet
  <2>7. ASSUME ValidJsonc(t)
        PROVE  /\ Alternates(X)
               /\ \A y : y # Comma /\ ~ Ours(y) => (y \in Range(X) <=> IsInside(t, "providers", y))
    <3>1. Alternates(T)
      BY <2>1, <2>7 DEF ValidJsonc, T
    <3>2. \A y : IsInside(t, "providers", y) <=> y \in Range(T)
      BY <2>1, <2>7, InFirst DEF ValidJsonc, Distinct, T
    <3>3. ASSUME NEW y, y # Comma, ~ Ours(y), y \in Range(X) PROVE y \in Range(T)
      BY <1>1, <2>4, <3>3 DEF HasSet, Range
    <3>4. ASSUME NEW y, ~ Ours(y), y \in Range(T) PROVE y \in Range(X)
      BY <2>4, <3>4 DEF HasSet, Range, Ours
    <3>. QED  BY <2>4, <3>1, <3>2, <3>3, <3>4 DEF HasSet
  <2>. QED  BY <2>5, <2>6, <2>7
<1>. QED  BY <1>2, <1>3

-----------------------------------------------------------------------------
(* opencode.jsonc: what the edits before that of the policies preserve.    *)

OurKeys == {"$schema", "model", "providers", "policies"}

FreeSame(t0, t) ==
  \A x : x # Comma /\ (x.token = "member" => x.key \notin OurKeys) => (x \in Range(t) <=> x \in Range(t0))
PoliciesSame(t0, t) ==
  \A x : x.token = "member" /\ x.key = "policies" => (x \in Range(t) <=> x \in Range(t0))
ProvidersSame(t0, t) ==
  \A y : y # Comma /\ ~ Ours(y) => (IsInside(t, "providers", y) <=> IsInside(t0, "providers", y))

StillThere(t0, t) ==
  /\ AreMembers(t)
  /\ ValidJsonc(t0) => ValidJsonc(t) /\ FreeSame(t0, t) /\ PoliciesSame(t0, t) /\ ProvidersSame(t0, t)

(* A member is no comma.                                                   *)
LEMMA MemberNoComma == \A x : x.token = "member" => x # Comma
BY DEF Comma

(* The schema and the model leave the user's members alone.                *)
LEMMA TextSet ==
  ASSUME NEW t0, NEW t, StillThere(t0, t), NEW key \in {"$schema", "model"}, NEW text
  PROVE  StillThere(t0, SetMember(t, key, Plain(text)))
<1>. DEFINE v == Plain(text)
            u == SetMember(t, key, v)
<1>1. v.is = "text" /\ v.is # "nested"
  BY DEF Plain
<1>. HIDE DEF v
<1>2. /\ AreMembers(u)
      /\ ValidJsonc(t) => ValidJsonc(u)
      /\ ElsewhereSame(t, key, u)
  BY <1>1, SetKeeps DEF StillThere, IsValueOf
<1>. HIDE DEF u
<1>3. key # "providers" /\ key # "policies" /\ key \in OurKeys
  BY DEF OurKeys
<1>4. ASSUME ValidJsonc(t0)
      PROVE  FreeSame(t0, u) /\ PoliciesSame(t0, u) /\ ProvidersSame(t0, u)
  <2>1. FreeSame(t0, u)
    BY <1>2, <1>3, <1>4 DEF StillThere, FreeSame, ElsewhereSame
  <2>2. PoliciesSame(t0, u)
    BY <1>2, <1>3, <1>4, MemberNoComma DEF StillThere, PoliciesSame, ElsewhereSame
  <2>3. \A y : IsInside(u, "providers", y) <=> IsInside(t, "providers", y)
    BY <1>2, <1>3, InElsewhere
  <2>4. ProvidersSame(t0, u)
    BY <1>4, <2>3 DEF StillThere, ProvidersSame
  <2>. QED  BY <2>1, <2>2, <2>4
<1>5. StillThere(t0, u)
  BY <1>2, <1>4 DEF StillThere
<1>. QED  BY <1>5 DEF u, v

(* So does a provider.                                                     *)
LEMMA ProviderSet ==
  ASSUME NEW t0, NEW t, StillThere(t0, t), Listable(t), NEW id \in {Providers[1], Providers[2]}, NEW value
  PROVE  StillThere(t0, SetProvider(t, id, value)) /\ Listable(SetProvider(t, id, value))
<1>. DEFINE u == SetProvider(t, id, value)
            key == "providers"
<1>1. PICK X : /\ u = SetMember(t, key, Nested(X))
               /\ AreTokens(X, "member")
               /\ ValidJsonc(t) => /\ Alternates(X)
                                   /\ \A y : y # Comma /\ ~ Ours(y) =>
                                        (y \in Range(X) <=> IsInside(t, key, y))
  BY ProviderSets DEF StillThere
<1>. DEFINE v == Nested(X)
<1>2. v.is = "nested" /\ v.tokens = X
  BY DEF Nested
<1>3. IsValueOf(key, v)
  BY <1>1, <1>2 DEF IsValueOf
<1>. HIDE DEF u, v
<1>4. u = SetMember(t, key, v)
  BY <1>1 DEF v
<1>5. /\ AreMembers(u)
      /\ ValidJsonc(t) /\ Alternates(X) => ValidJsonc(u)
      /\ ElsewhereSame(t, key, u)
      /\ Named(u, key) \in Members(u) /\ u[Named(u, key)] = Member(key, v)
  BY <1>2, <1>3, <1>4, SetKeeps DEF StillThere
<1>6. u[Named(u, key)].value = v /\ u[Named(u, key)].key = key
  BY <1>5 DEF Member
<1>7. ASSUME ValidJsonc(t0)
      PROVE  ValidJsonc(u) /\ FreeSame(t0, u) /\ PoliciesSame(t0, u) /\ ProvidersSame(t0, u)
  <2>0. ValidJsonc(u)
    BY <1>1, <1>5, <1>7 DEF StillThere
  <2>1. FreeSame(t0, u)
    BY <1>5, <1>7 DEF StillThere, FreeSame, ElsewhereSame, OurKeys
  <2>2. PoliciesSame(t0, u)
    BY <1>5, <1>7, MemberNoComma DEF StillThere, PoliciesSame, ElsewhereSame
  <2>3. \A y : IsInside(u, key, y) <=> y \in Range(X)
    <3>1. Distinct(u)
      BY <2>0 DEF ValidJsonc, Distinct
    <3>. QED  BY <1>2, <1>5, <1>6, <3>1, InFirst
  <2>4. ProvidersSame(t0, u)
    BY <1>1, <1>7, <2>3 DEF StillThere, ProvidersSame
  <2>. QED  BY <2>0, <2>1, <2>2, <2>4
<1>8. StillThere(t0, u) /\ Listable(u)
  BY <1>2, <1>5, <1>6, <1>7 DEF StillThere, Listable
<1>. QED  BY <1>8 DEF u

-----------------------------------------------------------------------------
(* And what the edit of the policies does, too.                            *)
Patched(t0, t) ==
  /\ AreMembers(t)
  /\ ValidJsonc(t0) =>
       /\ ~ EndsInNote(t0) => ValidJsonc(t)
       /\ FreeSame(t0, t) /\ ProvidersSame(t0, t)
       /\ \A y : y # Comma /\ IsInside(t0, "policies", y) => IsInside(t, "policies", y)

(* What is in a member is in every text that has the member.               *)
LEMMA InSame ==
  ASSUME NEW t, NEW u, NEW key, NEW y, IsInside(t, key, y),
         \A x : x.token = "member" /\ x.key = key => (x \in Range(t) => x \in Range(u))
  PROVE  IsInside(u, key, y)
<1>1. PICK i \in Members(t) : t[i].key = key /\ t[i].value.is = "nested" /\ y \in Range(t[i].value.tokens)
  BY DEF IsInside
<1>2. t[i] \in Range(t) /\ t[i].token = "member"
  BY DEF Members, Range
<1>3. PICK j \in DOMAIN u : u[j] = t[i]
  BY <1>1, <1>2 DEF Range
<1>4. j \in Members(u)
  BY <1>2, <1>3 DEF Members
<1>. QED  BY <1>1, <1>3, <1>4 DEF IsInside

(* An edit that left the policies alone meets what the whole edit promises. *)
LEMMA StillPatched ==
  ASSUME NEW t0, NEW t, StillThere(t0, t)
  PROVE  Patched(t0, t)
<1>1. ASSUME ValidJsonc(t0), NEW y, IsInside(t0, "policies", y)
      PROVE  IsInside(t, "policies", y)
  BY <1>1, InSame DEF StillThere, PoliciesSame
<1>. QED  BY <1>1 DEF StillThere, Patched

(* The edit of the policies adds rules and takes none.                     *)
LEMMA PoliciesPatched ==
  ASSUME NEW t0, NEW t, StillThere(t0, t)
  PROVE  Patched(t0, AddPolicyAllows(t, Providers))
<1>. DEFINE key == "policies"
            n == Named(t, key)
            T == t[n].value.tokens
            X == AllowIn(T, Providers)
            v == Nested(X)
            u == AddPolicyAllows(t, Providers)
<1>1. CASE n = 0 \/ t[n].value.is # "nested"
  <2>1. u = t
    BY <1>1 DEF AddPolicyAllows
  <2>. QED  BY <2>1, StillPatched
<1>2. CASE n # 0 /\ t[n].value.is = "nested"
  <2>1. u = [t EXCEPT ![n].value.tokens = X]
    BY <1>2 DEF AddPolicyAllows
  <2>2. n \in Members(t) /\ t[n].key = key
    BY <1>2, NamedIs DEF StillThere, AreMembers, AreTokens
  <2>3. t[n].value = Nested(T) /\ (AreTokens(T, "member") \/ AreTokens(T, "rule"))
    BY <1>2, <2>2 DEF StillThere, AreMembers
  <2>4. /\ AreTokens(X, "member") \/ AreTokens(X, "rule")
        /\ Alternates(T) /\ ~ (T # <<>> /\ Last(T).token = "note") => Alternates(X)
        /\ \A x \in Range(T) : x # Comma => x \in Range(X)
    <3>1. CASE AreTokens(T, "rule")
      <4>. HIDE DEF T
      <4>. QED  BY <3>1, RulesAllowed
    <3>2. CASE AreTokens(T, "member")
      <4>. HIDE DEF T
      <4>1. ~ \E x \in Range(T) : x.token = "rule"
        BY <3>2 DEF AreTokens, Range, Comma, Note, Member
      <4>2. X = T
        BY <4>1 DEF AllowIn
      <4>. QED  BY <3>2, <4>2
    <3>. QED  BY <2>3, <3>1, <3>2
  <2>5. v.is = "nested" /\ v.tokens = X
    BY DEF Nested
  <2>. HIDE DEF T, X, u
  <2>6. u = SetMember(t, key, v)
    BY <1>2, <2>1, ReplaceTokens DEF StillThere
  <2>. HIDE DEF v, n
  <2>7. IsValueOf(key, v)
    <3>1. v = Nested(v.tokens)
      BY <2>5 DEF v
    <3>. QED  BY <2>4, <2>5, <3>1 DEF IsValueOf
  <2>8. /\ AreMembers(u)
        /\ ValidJsonc(t) /\ Alternates(X) => ValidJsonc(u)
        /\ ElsewhereSame(t, key, u)
        /\ Named(u, key) \in Members(u) /\ u[Named(u, key)] = Member(key, v)
    BY <2>5, <2>6, <2>7, SetKeeps DEF StillThere
  <2>9. u[Named(u, key)].value = v /\ u[Named(u, key)].key = key
    BY <2>8 DEF Member
  <2>10. ASSUME ValidJsonc(t0)
         PROVE  /\ ~ EndsInNote(t0) => ValidJsonc(u)
                /\ FreeSame(t0, u) /\ ProvidersSame(t0, u)
                /\ \A y : y # Comma /\ IsInside(t0, key, y) => IsInside(u, key, y)
    <3>1. ValidJsonc(t) /\ Alternates(T)
      BY <1>2, <2>2, <2>10 DEF StillThere, ValidJsonc, T
    <3>2. T # <<>> /\ Last(T).token = "note" => EndsInNote(t0)
      <4>1. t[n] \in Range(t) /\ t[n].token = "member"
        BY <2>2 DEF Members, Range
      <4>2. t[n] \in Range(t0)
        BY <2>2, <2>10, <4>1 DEF StillThere, PoliciesSame
      <4>3. PICK j \in DOMAIN t0 : t0[j] = t[n]
        BY <4>2 DEF Range
      <4>4. j \in Members(t0)
        BY <4>1, <4>3 DEF Members
      <4>. QED  BY <1>2, <2>2, <4>3, <4>4 DEF EndsInNote, T
    <3>3. ~ EndsInNote(t0) => ValidJsonc(u)
      BY <2>4, <2>8, <3>1, <3>2
    <3>4. FreeSame(t0, u)
      BY <2>8, <2>10 DEF StillThere, FreeSame, ElsewhereSame, OurKeys
    <3>5. \A y : IsInside(u, "providers", y) <=> IsInside(t, "providers", y)
      BY <2>8, InElsewhere
    <3>6. ProvidersSame(t0, u)
      BY <2>10, <3>5 DEF StillThere, ProvidersSame
    <3>7. ASSUME NEW y, y # Comma, IsInside(t0, key, y) PROVE IsInside(u, key, y)
      <4>1. IsInside(t, key, y)
        BY <2>10, <3>7, InSame DEF StillThere, PoliciesSame
      <4>2. y \in Range(T)
        BY <2>2, <3>1, <4>1, InFirst DEF ValidJsonc, Distinct, T
      <4>3. y \in Range(X)
        BY <2>4, <3>7, <4>2
      <4>. QED  BY <2>5, <2>8, <2>9, <4>3 DEF IsInside
    <3>. QED  BY <3>3, <3>4, <3>6, <3>7
  <2>11. Patched(t0, u)
    BY <2>8, <2>10 DEF Patched
  <2>. QED  BY <2>11 DEF u
<1>. QED  BY <1>1, <1>2

(* The whole edit of opencode.jsonc (PatchJSONC in edit_jsonc.go) keeps what is *)
(* the user's.                                                             *)
LEMMA PatchJsonc ==
  ASSUME NEW t0, AreMembers(t0), NEW options1, NEW old, old # Broken,
         t0 = IF old = Missing \/ old.kind = "bare" THEN <<>> ELSE old.tokens,
         PatchJSONC(old, options1) # Broken
  PROVE  \E t : PatchJSONC(old, options1) = Jsonc(t) /\ Patched(t0, t)
<1>. DEFINE gpt == ModelsFor(options1, "gpt")
            schema == SetMember(t0, "$schema", Plain("opencode"))
            model == IF gpt = <<>> THEN schema ELSE SetMember(schema, "model", Plain(Head(gpt)))
            openai == SetProvider(model, Providers[1], Provider(options1.port, gpt))
            both == SetProvider(openai, Providers[2],
                                Provider(options1.port, ModelsFor(options1, "claude")))
<1>1. StillThere(t0, t0)
  BY DEF StillThere, FreeSame, PoliciesSame, ProvidersSame
<1>2. StillThere(t0, schema)
  BY <1>1, TextSet
<1>3. StillThere(t0, model)
  BY <1>2, TextSet
<1>4. /\ ~ (Named(model, "providers") # 0 /\ model[Named(model, "providers")].value.is # "nested")
      /\ PatchJSONC(old, options1) = Jsonc(AddPolicyAllows(both, Providers))
  BY DEF PatchJSONC
<1>. HIDE DEF model
<1>5. Listable(model)
  BY <1>4 DEF Listable
<1>6. StillThere(t0, openai) /\ Listable(openai)
  BY <1>3, <1>5, ProviderSet
<1>. HIDE DEF openai
<1>7. StillThere(t0, both)
  BY <1>6, ProviderSet
<1>. HIDE DEF both
<1>8. Patched(t0, AddPolicyAllows(both, Providers))
  BY <1>7, PoliciesPatched
<1>. QED  BY <1>4, <1>8

-----------------------------------------------------------------------------
(* Lines of TOML, put together.                                            *)

(* Lines joined are lines.                                                 *)
LEMMA LinesJoin ==
  ASSUME NEW p, NEW q, AreLines(p), AreLines(q)
  PROVE  /\ AreLines(p \o q)
         /\ \A x : x \in Range(p \o q) <=> x \in Range(p) \/ x \in Range(q)
<1>. DEFINE T == Range(p) \cup Range(q)
            u == p \o q
<1>1. p \in Seq(T) /\ q \in Seq(T)
  <2>1. p \in Seq(Range(p)) /\ q \in Seq(Range(q))
    BY DEF AreLines
  <2>. QED  BY <2>1
<1>. HIDE DEF T
<1>2. /\ u \in Seq(T) /\ DOMAIN u = 1 .. Len(p) + Len(q)
      /\ DOMAIN p = 1 .. Len(p) /\ DOMAIN q = 1 .. Len(q) /\ Len(p) \in Nat /\ Len(q) \in Nat
      /\ \A i \in 1 .. Len(p) : u[i] = p[i]
      /\ \A i \in 1 .. Len(q) : u[Len(p) + i] = q[i]
      /\ \A i \in Len(p) + 1 .. Len(p) + Len(q) : u[i] = q[i - Len(p)]
  BY <1>1, ConcatPlaces
<1>. HIDE DEF u
<1>3. \A i \in DOMAIN u : (\E j \in DOMAIN p : u[i] = p[j]) \/ (\E j \in DOMAIN q : u[i] = q[j])
  <2>1. ASSUME NEW i \in DOMAIN u, i > Len(p) PROVE i - Len(p) \in DOMAIN q /\ u[i] = q[i - Len(p)]
    BY <1>2, <2>1
  <2>2. ASSUME NEW i \in DOMAIN u, ~ (i > Len(p)) PROVE i \in DOMAIN p /\ u[i] = p[i]
    BY <1>2, <2>2
  <2>. QED  BY <2>1, <2>2
<1>4. \A j \in DOMAIN p : j \in DOMAIN u /\ u[j] = p[j]
  BY <1>2
<1>5. \A j \in DOMAIN q : Len(p) + j \in DOMAIN u /\ u[Len(p) + j] = q[j]
  BY <1>2
<1>6. \A x : x \in Range(u) <=> x \in Range(p) \/ x \in Range(q)
  BY <1>3, <1>4, <1>5 DEF Range
<1>7. u \in Seq(Range(u))
  BY <1>2, RangeIs
<1>8. AreLines(u)
  BY <1>3, <1>7 DEF AreLines
<1>. QED  BY <1>6, <1>8 DEF u

(* Lines that are cut are lines.                                           *)
LEMMA LinesSplit ==
  ASSUME NEW t, AreLines(t), NEW n \in 0 .. Len(t)
  PROVE  /\ AreLines(SubSeq(t, 1, n)) /\ AreLines(SubSeq(t, n + 1, Len(t)))
         /\ t = SubSeq(t, 1, n) \o SubSeq(t, n + 1, Len(t))
<1>. DEFINE p == SubSeq(t, 1, n)
            q == SubSeq(t, n + 1, Len(t))
<1>1. t \in Seq(Range(t)) /\ Len(t) \in Nat /\ DOMAIN t = 1 .. Len(t)
  BY DEF AreLines
<1>2. /\ p \in Seq(Range(t)) /\ Len(p) = n /\ DOMAIN p = 1 .. n
      /\ \A i \in 1 .. n : p[i] = t[i]
      /\ q \in Seq(Range(t)) /\ Len(q) = Len(t) - n /\ DOMAIN q = 1 .. Len(t) - n
      /\ \A i \in 1 .. Len(t) - n : q[i] = t[n + i]
      /\ t = p \o q
  BY <1>1, SplitPlaces
<1>. HIDE DEF p, q
<1>3. p \in Seq(Range(p)) /\ q \in Seq(Range(q))
  BY <1>2, RangeIs
<1>4. \A i \in 1 .. n : i \in DOMAIN t
  BY <1>1
<1>5. \A i \in 1 .. Len(t) - n : n + i \in DOMAIN t
  BY <1>1
<1>6. AreLines(p) /\ AreLines(q)
  BY <1>2, <1>3, <1>4, <1>5 DEF AreLines
<1>. QED  BY <1>2, <1>6 DEF p, q

-----------------------------------------------------------------------------
(* Tables.                                                                 *)
Heads(t, i) == {j \in 1 .. i : t[j].line = "header"}

(* The table of a line is that of the last header up to it.                *)
LEMMA TableIs ==
  ASSUME NEW t, NEW i \in Nat
  PROVE  /\ Heads(t, i) = {} => TableOf(t, i) = ""
         /\ \A m \in Heads(t, i) : (\A k \in Heads(t, i) : k <= m) => TableOf(t, i) = t[m].name
         /\ Heads(t, i) # {} => \E m \in Heads(t, i) : \A k \in Heads(t, i) : k <= m
<1>1. Heads(t, i) \subseteq 0 .. i /\ Heads(t, i) \subseteq Nat
  BY DEF Heads
<1>2. TableOf(t, i) = IF Heads(t, i) = {} THEN "" ELSE t[LastOf(Heads(t, i))].name
  BY DEF TableOf, Heads
<1>3. ASSUME NEW m \in Heads(t, i), \A k \in Heads(t, i) : k <= m
      PROVE  TableOf(t, i) = t[m].name
  <2>1. LastOf(Heads(t, i)) = m
    BY <1>1, <1>3, LastOfUnique
  <2>. QED  BY <1>2, <2>1
<1>4. Heads(t, i) # {} => \E m \in Heads(t, i) : \A k \in Heads(t, i) : k <= m
  BY <1>1, HasLast
<1>. QED  BY <1>2, <1>3, <1>4

(* The table of a line is named by a header, or it is the root.            *)
LEMMA TableNamed ==
  ASSUME NEW t, AreLines(t), NEW i \in DOMAIN t
  PROVE  /\ TableOf(t, i) = "" \/ \E h \in DOMAIN t : t[h].line = "header" /\ TableOf(t, i) = t[h].name
         /\ t[1].line = "header" => \E h \in DOMAIN t : t[h].line = "header" /\ TableOf(t, i) = t[h].name
<1>1. DOMAIN t = 1 .. Len(t) /\ Len(t) \in Nat /\ i \in Nat
  BY DEF AreLines
<1>2. ASSUME Heads(t, i) # {}
      PROVE  \E h \in DOMAIN t : t[h].line = "header" /\ TableOf(t, i) = t[h].name
  <2>1. PICK m \in Heads(t, i) : \A k \in Heads(t, i) : k <= m
    BY <1>1, <1>2, TableIs
  <2>2. TableOf(t, i) = t[m].name
    BY <1>1, <2>1, TableIs
  <2>. QED  BY <1>1, <2>2 DEF Heads
<1>3. t[1].line = "header" => 1 \in Heads(t, i)
  BY <1>1 DEF Heads
<1>. QED  BY <1>1, <1>2, <1>3, TableIs

(* Joined lines stay in their tables when the second text begins with a header. *)
LEMMA TablesJoin ==
  ASSUME NEW p, NEW q, AreLines(p), AreLines(q)
  PROVE  /\ \A i \in DOMAIN p : TableOf(p \o q, i) = TableOf(p, i)
         /\ q[1].line = "header" => \A i \in DOMAIN q : TableOf(p \o q, Len(p) + i) = TableOf(q, i)
<1>. DEFINE T == Range(p) \cup Range(q)
            u == p \o q
<1>1. p \in Seq(T) /\ q \in Seq(T)
  <2>1. p \in Seq(Range(p)) /\ q \in Seq(Range(q))
    BY DEF AreLines
  <2>. QED  BY <2>1
<1>. HIDE DEF T
<1>2. /\ u \in Seq(T) /\ DOMAIN u = 1 .. Len(p) + Len(q)
      /\ DOMAIN p = 1 .. Len(p) /\ DOMAIN q = 1 .. Len(q) /\ Len(p) \in Nat /\ Len(q) \in Nat
      /\ \A i \in 1 .. Len(p) : u[i] = p[i]
      /\ \A i \in 1 .. Len(q) : u[Len(p) + i] = q[i]
      /\ \A i \in Len(p) + 1 .. Len(p) + Len(q) : u[i] = q[i - Len(p)]
  BY <1>1, ConcatPlaces
<1>. HIDE DEF u
<1>3. ASSUME NEW i \in DOMAIN p PROVE TableOf(u, i) = TableOf(p, i)
  <2>1. Heads(u, i) = Heads(p, i) /\ \A m \in Heads(u, i) : u[m] = p[m]
    <3>1. \A j \in 1 .. i : u[j] = p[j]
      BY <1>2
    <3>. QED  BY <3>1 DEF Heads
  <2>2. i \in Nat
    BY <1>2
  <2>3. CASE Heads(p, i) = {}
    BY <2>1, <2>2, <2>3, TableIs
  <2>4. CASE Heads(p, i) # {}
    <3>1. PICK m \in Heads(p, i) : \A k \in Heads(p, i) : k <= m
      BY <2>2, <2>4, TableIs
    <3>2. TableOf(p, i) = p[m].name
      BY <2>2, <3>1, TableIs
    <3>3. m \in Heads(u, i) /\ (\A k \in Heads(u, i) : k <= m) /\ u[m] = p[m]
      BY <2>1, <3>1
    <3>4. TableOf(u, i) = u[m].name
      BY ONLY <2>2, <3>3, TableIs
    <3>. QED  BY <3>2, <3>3, <3>4
  <2>. QED  BY <2>3, <2>4
<1>4. ASSUME q[1].line = "header", NEW i \in DOMAIN q
      PROVE  TableOf(u, Len(p) + i) = TableOf(q, i)
  <2>1. i \in Nat /\ Len(p) + i \in Nat /\ 1 \in Heads(q, i)
    BY <1>2, <1>4 DEF Heads
  <2>2. PICK m \in Heads(q, i) : \A k \in Heads(q, i) : k <= m
    BY <2>1, TableIs
  <2>3. m \in 1 .. i /\ m >= 1 /\ i <= Len(q) /\ q[m].line = "header"
    BY <1>2, <2>1, <2>2 DEF Heads
  <2>4. Len(p) + m \in Heads(u, Len(p) + i) /\ u[Len(p) + m] = q[m]
    <3>1. m \in 1 .. Len(q) /\ Len(p) + m \in 1 .. Len(p) + i
      BY <1>2, <2>1, <2>3
    <3>. QED  BY <1>2, <2>3, <3>1 DEF Heads
  <2>5. ASSUME NEW k \in Heads(u, Len(p) + i) PROVE k <= Len(p) + m
    <3>1. k \in 1 .. Len(p) + i /\ u[k].line = "header"
      BY DEF Heads
    <3>2. CASE k <= Len(p)
      BY <1>2, <2>3, <3>1, <3>2
    <3>3. CASE k > Len(p)
      <4>1. k - Len(p) \in 1 .. i /\ k \in Len(p) + 1 .. Len(p) + Len(q)
        BY <1>2, <2>1, <2>3, <3>1, <3>3
      <4>2. k - Len(p) \in Heads(q, i)
        BY <1>2, <3>1, <4>1 DEF Heads
      <4>3. k - Len(p) <= m
        BY <2>2, <4>2
      <4>. QED  BY <1>2, <2>3, <3>1, <4>3
    <3>. QED  BY <1>2, <3>1, <3>2, <3>3
  <2>6. TableOf(u, Len(p) + i) = u[Len(p) + m].name
    BY <2>1, <2>4, <2>5, TableIs
  <2>7. TableOf(q, i) = q[m].name
    BY <2>1, <2>2, TableIs
  <2>. QED  BY <2>4, <2>6, <2>7
<1>. QED  BY <1>3, <1>4 DEF u

(* Behind what, and where, the lines of a joined text are.                 *)
LEMMA JoinPlaces ==
  ASSUME NEW p, NEW q, AreLines(p), AreLines(q)
  PROVE  /\ \A i \in DOMAIN p : i \in DOMAIN (p \o q) /\ (p \o q)[i] = p[i]
         /\ \A i \in DOMAIN q : Len(p) + i \in DOMAIN (p \o q) /\ (p \o q)[Len(p) + i] = q[i]
         /\ \A i \in DOMAIN (p \o q) : i \in DOMAIN p \/ \E j \in DOMAIN q : i = Len(p) + j
         /\ Len(p) \in Nat /\ DOMAIN p = 1 .. Len(p) /\ DOMAIN q \subseteq Nat \ {0}
<1>. DEFINE T == Range(p) \cup Range(q)
            u == p \o q
<1>1. p \in Seq(T) /\ q \in Seq(T)
  <2>1. p \in Seq(Range(p)) /\ q \in Seq(Range(q))
    BY DEF AreLines
  <2>. QED  BY <2>1
<1>. HIDE DEF T
<1>2. /\ u \in Seq(T) /\ DOMAIN u = 1 .. Len(p) + Len(q)
      /\ DOMAIN p = 1 .. Len(p) /\ DOMAIN q = 1 .. Len(q) /\ Len(p) \in Nat /\ Len(q) \in Nat
      /\ \A i \in 1 .. Len(p) : u[i] = p[i]
      /\ \A i \in 1 .. Len(q) : u[Len(p) + i] = q[i]
  BY <1>1, ConcatPlaces
<1>. HIDE DEF u
<1>3. ASSUME NEW i \in DOMAIN u, i \notin DOMAIN p PROVE \E j \in DOMAIN q : i = Len(p) + j
  <2>1. i - Len(p) \in DOMAIN q /\ i = Len(p) + (i - Len(p))
    BY <1>2, <1>3
  <2>. QED  BY <2>1
<1>4. \A i \in DOMAIN p : i \in DOMAIN u /\ u[i] = p[i]
  BY <1>2
<1>5. \A i \in DOMAIN q : Len(p) + i \in DOMAIN u /\ u[Len(p) + i] = q[i]
  BY <1>2
<1>. QED  BY <1>2, <1>3, <1>4, <1>5 DEF u

(* And then the entries are those of both.                                 *)
LEMMA EntriesJoin ==
  ASSUME NEW p, NEW q, AreLines(p), AreLines(q), \A i \in DOMAIN q : q[1].line = "header"
  PROVE  \A e : e \in Entries(p \o q) <=> e \in Entries(p) \/ e \in Entries(q)
<1>. DEFINE u == p \o q
<1>1. /\ \A i \in DOMAIN p : i \in DOMAIN u /\ u[i] = p[i]
      /\ \A i \in DOMAIN q : Len(p) + i \in DOMAIN u /\ u[Len(p) + i] = q[i]
      /\ \A i \in DOMAIN u : i \in DOMAIN p \/ \E j \in DOMAIN q : i = Len(p) + j
  BY JoinPlaces
<1>2. /\ \A i \in DOMAIN p : TableOf(u, i) = TableOf(p, i)
      /\ \A i \in DOMAIN q : TableOf(u, Len(p) + i) = TableOf(q, i)
  BY TablesJoin
<1>. HIDE DEF u
<1>3. ASSUME NEW e, e \in Entries(u) PROVE e \in Entries(p) \/ e \in Entries(q)
  <2>1. PICK i \in DOMAIN u : u[i].line = "pair" /\ e = <<TableOf(u, i), u[i].key, u[i].value>>
    BY <1>3 DEF Entries, Pairs
  <2>2. CASE i \in DOMAIN p
    BY <1>1, <1>2, <2>1, <2>2 DEF Entries, Pairs
  <2>3. CASE \E j \in DOMAIN q : i = Len(p) + j
    BY <1>1, <1>2, <2>1, <2>3 DEF Entries, Pairs
  <2>. QED  BY <1>1, <2>2, <2>3
<1>4. ASSUME NEW e, e \in Entries(p) PROVE e \in Entries(u)
  BY <1>1, <1>2, <1>4 DEF Entries, Pairs
<1>5. ASSUME NEW e, e \in Entries(q) PROVE e \in Entries(u)
  BY <1>1, <1>2, <1>5 DEF Entries, Pairs
<1>. QED  BY <1>3, <1>4, <1>5 DEF u

(* A text that is empty or begins with a header.                           *)
Headed(q) == \A i \in DOMAIN q : q[1].line = "header"
Headings(t) == {l \in Range(t) : l.line = "header"}

(* What a header is.                                                       *)
LEMMA HeaderIs ==
  ASSUME NEW l, IsLine(l), l.line = "header"
  PROVE  l = Header(l.name) /\ l.name # ""
<1>1. Blank.line = "blank" /\ Remark.line = "comment"
  BY DEF Blank, Remark
<1>. QED  BY <1>1 DEF IsLine

(* And the text is valid when both are and share no header.                *)
LEMMA ValidJoin ==
  ASSUME NEW p, NEW q, AreLines(p), AreLines(q), Headed(q)
  PROVE  ValidToml(p \o q) <=> /\ ValidToml(p) /\ ValidToml(q)
                               /\ \A x : x \in Headings(p) => x \notin Headings(q)
<1>. DEFINE u == p \o q
<1>1. /\ \A i \in DOMAIN p : i \in DOMAIN u /\ u[i] = p[i]
      /\ \A i \in DOMAIN q : Len(p) + i \in DOMAIN u /\ u[Len(p) + i] = q[i]
      /\ \A i \in DOMAIN u : i \in DOMAIN p \/ \E j \in DOMAIN q : i = Len(p) + j
      /\ Len(p) \in Nat /\ DOMAIN p = 1 .. Len(p) /\ DOMAIN q \subseteq Nat \ {0}
  BY JoinPlaces
<1>2. /\ \A i \in DOMAIN p : TableOf(u, i) = TableOf(p, i)
      /\ \A i \in DOMAIN q : TableOf(u, Len(p) + i) = TableOf(q, i)
  BY TablesJoin DEF Headed
<1>. HIDE DEF u
<1>3. ASSUME ValidToml(u) PROVE ValidToml(p)
  BY <1>1, <1>2, <1>3 DEF ValidToml, Pairs
<1>4. ASSUME ValidToml(u) PROVE ValidToml(q)
  <2>1. ASSUME NEW i \in DOMAIN q, NEW j \in DOMAIN q, i < j
        PROVE  /\ q[i].line = "header" /\ q[j].line = "header" => q[i] # q[j]
               /\ {i, j} \subseteq Pairs(q) /\ TableOf(q, i) = TableOf(q, j) => q[i].key # q[j].key
    <3>1. Len(p) + i < Len(p) + j
      BY <1>1, <2>1
    <3>. QED  BY <1>1, <1>2, <1>4, <3>1 DEF ValidToml, Pairs
  <2>. QED  BY <2>1 DEF ValidToml
<1>5. ASSUME ValidToml(u), NEW x, x \in Headings(p), x \in Headings(q) PROVE FALSE
  <2>1. PICK i \in DOMAIN p : p[i] = x
    BY <1>5 DEF Headings, Range
  <2>2. PICK j \in DOMAIN q : q[j] = x
    BY <1>5 DEF Headings, Range
  <2>3. i < Len(p) + j /\ x.line = "header"
    BY <1>1, <1>5 DEF Headings
  <2>. QED  BY <1>1, <1>5, <2>1, <2>2, <2>3 DEF ValidToml
<1>6. ASSUME ValidToml(p), ValidToml(q), \A x : x \in Headings(p) => x \notin Headings(q)
      PROVE  ValidToml(u)
  <2>1. SUFFICES ASSUME NEW i \in DOMAIN u, NEW j \in DOMAIN u, i < j
        PROVE  /\ u[i].line = "header" /\ u[j].line = "header" => u[i] # u[j]
               /\ {i, j} \subseteq Pairs(u) /\ TableOf(u, i) = TableOf(u, j) => u[i].key # u[j].key
    BY DEF ValidToml
  <2>2. CASE i \in DOMAIN p /\ j \in DOMAIN p
    BY <1>1, <1>2, <1>6, <2>1, <2>2 DEF ValidToml, Pairs
  <2>3. CASE i \notin DOMAIN p /\ j \notin DOMAIN p
    <3>1. PICK a \in DOMAIN q : i = Len(p) + a
      BY <1>1, <2>3
    <3>2. PICK b \in DOMAIN q : j = Len(p) + b
      BY <1>1, <2>3
    <3>3. a < b
      BY <1>1, <2>1, <3>1, <3>2
    <3>. QED  BY <1>1, <1>2, <1>6, <3>1, <3>2, <3>3 DEF ValidToml, Pairs
  <2>4. CASE i \in DOMAIN p /\ j \notin DOMAIN p
    <3>1. PICK b \in DOMAIN q : j = Len(p) + b
      BY <1>1, <2>4
    <3>2. u[i] = p[i] /\ u[j] = q[b] /\ TableOf(u, i) = TableOf(p, i) /\ TableOf(u, j) = TableOf(q, b)
      BY <1>1, <1>2, <2>4, <3>1
    <3>3. \A g \in DOMAIN p, h \in DOMAIN q : p[g].line = "header" /\ q[h].line = "header" => p[g] # q[h]
      BY <1>6 DEF Headings, Range
    <3>4. TableOf(p, i) # TableOf(q, b)
      <4>1. PICK h \in DOMAIN q : q[h].line = "header" /\ TableOf(q, b) = q[h].name
        BY TableNamed DEF Headed
      <4>2. q[h] = Header(q[h].name) /\ q[h].name # ""
        BY <4>1, HeaderIs DEF AreLines
      <4>3. \A g \in DOMAIN p : p[g].line = "header" => p[g] = Header(p[g].name)
        BY HeaderIs DEF AreLines
      <4>4. CASE TableOf(p, i) = ""
        BY <4>1, <4>2, <4>4
      <4>5. ASSUME NEW g \in DOMAIN p, p[g].line = "header", TableOf(p, i) = p[g].name
            PROVE  TableOf(p, i) # TableOf(q, b)
        <5>1. p[g] # q[h]
          BY <3>3, <4>1, <4>5
        <5>. QED  BY <4>1, <4>2, <4>3, <4>5, <5>1
      <4>. QED  BY <2>4, <4>4, <4>5, TableNamed
    <3>. QED  BY <2>4, <3>2, <3>3, <3>4
  <2>5. CASE i \notin DOMAIN p /\ j \in DOMAIN p
    <3>1. PICK a \in DOMAIN q : i = Len(p) + a
      BY <1>1, <2>5
    <3>. QED  BY <1>1, <2>1, <2>5, <3>1
  <2>. QED  BY <2>2, <2>3, <2>4, <2>5
<1>. QED  BY <1>3, <1>4, <1>5, <1>6 DEF u

(* Blank lines change nothing.                                             *)
LEMMA AndBlank ==
  ASSUME NEW p, AreLines(p), NEW q, AreLines(q), \A i \in DOMAIN q : q[i] = Blank
  PROVE  /\ AreLines(p \o q)
         /\ ValidToml(p) => ValidToml(p \o q)
         /\ \A e : e \in Entries(p \o q) <=> e \in Entries(p)
         /\ \A x : x \in Headings(p \o q) <=> x \in Headings(p)
<1>. DEFINE u == p \o q
<1>0. Blank.line = "blank"
  BY DEF Blank
<1>1. /\ \A i \in DOMAIN p : i \in DOMAIN u /\ u[i] = p[i]
      /\ \A i \in DOMAIN q : Len(p) + i \in DOMAIN u /\ u[Len(p) + i] = q[i]
      /\ \A i \in DOMAIN u : i \in DOMAIN p \/ \E j \in DOMAIN q : i = Len(p) + j
  BY JoinPlaces
<1>2. \A i \in DOMAIN p : TableOf(u, i) = TableOf(p, i)
  BY TablesJoin
<1>3. AreLines(u) /\ \A x : x \in Range(u) <=> x \in Range(p) \/ x \in Range(q)
  BY LinesJoin
<1>. HIDE DEF u
<1>4. \A i \in DOMAIN u : i \in DOMAIN p \/ u[i].line = "blank"
  BY <1>0, <1>1
<1>5. Pairs(u) = Pairs(p)
  BY <1>1, <1>4 DEF Pairs
<1>6. ASSUME ValidToml(p) PROVE ValidToml(u)
  <2>1. ASSUME NEW i \in DOMAIN u, NEW j \in DOMAIN u, i < j
        PROVE  /\ u[i].line = "header" /\ u[j].line = "header" => u[i] # u[j]
               /\ {i, j} \subseteq Pairs(u) /\ TableOf(u, i) = TableOf(u, j) => u[i].key # u[j].key
    BY <1>1, <1>2, <1>4, <1>6, <2>1 DEF ValidToml, Pairs
  <2>. QED  BY <2>1 DEF ValidToml
<1>7. \A i \in Pairs(p) : u[i] = p[i] /\ TableOf(u, i) = TableOf(p, i)
  BY <1>1, <1>2 DEF Pairs
<1>8. \A e : e \in Entries(u) <=> e \in Entries(p)
  BY <1>5, <1>7 DEF Entries
<1>9. \A x : x \in Headings(u) <=> x \in Headings(p)
  BY <1>0, <1>3 DEF Headings, Range
<1>. QED  BY <1>3, <1>6, <1>8, <1>9 DEF u

-----------------------------------------------------------------------------
(* The section of the proxy.                                               *)
Section(s) ==
  /\ AreLines(s) /\ 1 \in DOMAIN s /\ s[1] = Header(Managed)
  /\ \A i \in DOMAIN s : s[i].line = "header" => s[i] = Header(Managed)

(* Everything in the section of the proxy is in its table.                 *)
LEMMA SectionIs ==
  ASSUME NEW s, Section(s)
  PROVE  /\ Headed(s)
         /\ \A x : x \in Headings(s) <=> x = Header(Managed)
         /\ \A e \in Entries(s) : e[1] = Managed
<1>1. Header(Managed).line = "header" /\ Header(Managed).name = Managed
  BY DEF Header
<1>2. Headed(s)
  BY <1>1 DEF Section, Headed
<1>3. \A x : x \in Headings(s) <=> x = Header(Managed)
  BY <1>1 DEF Section, Headings, Range
<1>4. ASSUME NEW e \in Entries(s) PROVE e[1] = Managed
  <2>1. PICK i \in DOMAIN s : e = <<TableOf(s, i), s[i].key, s[i].value>>
    BY DEF Entries, Pairs
  <2>2. PICK h \in DOMAIN s : s[h].line = "header" /\ TableOf(s, i) = s[h].name
    BY <1>1, TableNamed DEF Section
  <2>. QED  BY <1>1, <2>1, <2>2 DEF Section
<1>. QED  BY <1>2, <1>3, <1>4

(* What is written is such a section.                                      *)
LEMMA CodexSectionIs ==
  ASSUME NEW o
  PROVE  Section(CodexSection(o)) /\ ValidToml(CodexSection(o))
<1>. DEFINE s == CodexSection(o)
            a == Header(Managed)
            b == Pair("base_url", o.port)
            c == Pair("wire_api", "responses")
<1>1. /\ a.line = "header" /\ a = Header(a.name) /\ a.name = Managed /\ Managed # ""
      /\ b.line = "pair" /\ b = Pair(b.key, b.value) /\ b.key = "base_url"
      /\ c.line = "pair" /\ c = Pair(c.key, c.value) /\ c.key = "wire_api"
      /\ a = Header(Managed)
  BY DEF Header, Pair, Managed
<1>2. s = <<a, b, c>>
  BY DEF CodexSection
<1>. HIDE DEF a, b, c, s
<1>3. DOMAIN s = {1, 2, 3} /\ s[1] = a /\ s[2] = b /\ s[3] = c /\ s \in Seq({a, b, c})
  BY <1>2
<1>4. AreLines(s)
  <2>1. s \in Seq(Range(s))
    BY <1>3, RangeIs
  <2>. QED  BY <1>1, <1>3, <2>1 DEF AreLines, IsLine
<1>5. Section(s)
  BY <1>1, <1>3, <1>4 DEF Section
<1>6. ValidToml(s)
  <2>1. ASSUME NEW i \in DOMAIN s, NEW j \in DOMAIN s, i < j
        PROVE  /\ ~ (s[i].line = "header" /\ s[j].line = "header")
               /\ {i, j} \subseteq Pairs(s) => s[i].key # s[j].key
    <3>1. s[2].line # "header" /\ s[3].line # "header" /\ s[1].line # "pair" /\ s[2].key # s[3].key
      BY <1>1, <1>3
    <3>2. (i = 1 /\ j = 2) \/ (i = 1 /\ j = 3) \/ (i = 2 /\ j = 3)
      BY <1>3, <2>1
    <3>. QED  BY <3>1, <3>2 DEF Pairs
  <2>. QED  BY <2>1 DEF ValidToml
<1>. QED  BY <1>5, <1>6 DEF s

SectionPatched(t, u) ==
  /\ AreLines(u)
  /\ ValidToml(t) => ValidToml(u)
  /\ \A e : e[1] # Managed => (e \in Entries(u) <=> e \in Entries(t))
  /\ \A x : x # Header(Managed) => (x \in Headings(u) <=> x \in Headings(t))
  /\ Header(Managed) \in Headings(u)

(* Headers of joined texts.                                                *)
LEMMA HeadingsJoin ==
  ASSUME NEW p, NEW q, AreLines(p), AreLines(q)
  PROVE  \A x : x \in Headings(p \o q) <=> x \in Headings(p) \/ x \in Headings(q)
BY LinesJoin DEF Headings

(* A section that is put behind what has none.                             *)
LEMMA SectionBehind ==
  ASSUME NEW t, AreLines(t), NEW s, Section(s), ValidToml(s), Header(Managed) \notin Headings(t)
  PROVE  SectionPatched(t, t \o s)
<1>1. AreLines(s) /\ Headed(s) /\ (\A x : x \in Headings(s) <=> x = Header(Managed))
      /\ \A e \in Entries(s) : e[1] = Managed
  BY SectionIs DEF Section
<1>2. AreLines(t \o s)
  BY <1>1, LinesJoin
<1>3. ValidToml(t) => ValidToml(t \o s)
  BY <1>1, ValidJoin
<1>4. \A e : e \in Entries(t \o s) <=> e \in Entries(t) \/ e \in Entries(s)
  BY <1>1, EntriesJoin DEF Headed
<1>5. \A x : x \in Headings(t \o s) <=> x \in Headings(t) \/ x \in Headings(s)
  BY <1>1, HeadingsJoin
<1>. QED  BY <1>1, <1>2, <1>3, <1>4, <1>5 DEF SectionPatched

(* A section that takes the place of another.                              *)
LEMMA SectionInPlace ==
  ASSUME NEW p, AreLines(p), NEW q, AreLines(q), Headed(q),
         NEW old, Section(old), NEW s, Section(s), ValidToml(s)
  PROVE  SectionPatched((p \o old) \o q, (p \o s) \o q)
<1>1. /\ AreLines(s) /\ Headed(s) /\ (\A x : x \in Headings(s) <=> x = Header(Managed))
      /\ \A e \in Entries(s) : e[1] = Managed
      /\ AreLines(old) /\ Headed(old) /\ (\A x : x \in Headings(old) <=> x = Header(Managed))
      /\ \A e \in Entries(old) : e[1] = Managed
  BY SectionIs DEF Section
<1>2. /\ \A x : x \in Headings(p \o old) <=> x \in Headings(p) \/ x \in Headings(old)
      /\ \A x : x \in Headings(p \o s) <=> x \in Headings(p) \/ x \in Headings(s)
      /\ \A e : e \in Entries(p \o old) <=> e \in Entries(p) \/ e \in Entries(old)
      /\ \A e : e \in Entries(p \o s) <=> e \in Entries(p) \/ e \in Entries(s)
      /\ AreLines(p \o old) /\ AreLines(p \o s)
  BY <1>1, HeadingsJoin, EntriesJoin, LinesJoin DEF Headed
<1>3. /\ ValidToml(p \o old) <=> /\ ValidToml(p) /\ ValidToml(old)
                                 /\ \A x : x \in Headings(p) => x \notin Headings(old)
      /\ ValidToml(p \o s) <=> /\ ValidToml(p) /\ ValidToml(s)
                               /\ \A x : x \in Headings(p) => x \notin Headings(s)
  BY <1>1, ValidJoin
<1>. DEFINE t == p \o old
            u == p \o s
<1>. HIDE DEF t, u
<1>4. AreLines(t) /\ AreLines(u)
  BY <1>2 DEF t, u
<1>5. /\ \A x : x \in Headings(t \o q) <=> x \in Headings(t) \/ x \in Headings(q)
      /\ \A x : x \in Headings(u \o q) <=> x \in Headings(u) \/ x \in Headings(q)
      /\ \A e : e \in Entries(t \o q) <=> e \in Entries(t) \/ e \in Entries(q)
      /\ \A e : e \in Entries(u \o q) <=> e \in Entries(u) \/ e \in Entries(q)
      /\ AreLines(u \o q)
  BY <1>4, HeadingsJoin, EntriesJoin, LinesJoin DEF Headed
<1>6. /\ ValidToml(t \o q) <=> /\ ValidToml(t) /\ ValidToml(q)
                               /\ \A x : x \in Headings(t) => x \notin Headings(q)
      /\ ValidToml(u \o q) <=> /\ ValidToml(u) /\ ValidToml(q)
                               /\ \A x : x \in Headings(u) => x \notin Headings(q)
  BY <1>4, ValidJoin
<1>7. ValidToml(t) => ValidToml(u)
  BY <1>1, <1>3 DEF t, u
<1>8. \A x : x \in Headings(t) <=> x \in Headings(u)
  BY <1>1, <1>2 DEF t, u
<1>9. \A e : e[1] # Managed => (e \in Entries(t) <=> e \in Entries(u))
  BY <1>1, <1>2 DEF t, u
<1>10. SectionPatched(t \o q, u \o q)
  BY <1>1, <1>2, <1>5, <1>6, <1>7, <1>8, <1>9 DEF SectionPatched, u
<1>. QED  BY <1>10 DEF t, u

(* What FirstFrom finds.                                                   *)
LEMMA FirstWhere ==
  ASSUME NEW m \in Nat, NEW n \in Nat \ {0}, NEW found, found \subseteq n .. m,
         NEW c, c = IF found = {} THEN m + 1 ELSE FirstOf(found)
  PROVE  \/ found = {} /\ c = m + 1
         \/ c \in found /\ \A i \in found : c <= i
<1>1. CASE found = {}
  BY <1>1
<1>2. CASE found # {}
  <2>1. \E i \in found : \A j \in found : i <= j
    <3>1. found \subseteq Nat
      OBVIOUS
    <3>. QED  BY <1>2, <3>1, HasFirst
  <2>2. c \in found /\ \A k \in found : c <= k
    BY <1>2, <2>1 DEF FirstOf
  <2>. QED  BY <1>2, <2>2
<1>. QED  BY <1>1, <1>2

SectionAt(t) == FirstFrom(t, 1, LAMBDA l : l = Header(Managed))
HeaderFrom(t, n) == FirstFrom(t, n, LAMBDA l : l.line = "header")

(* The first header from a line on.                                        *)
LEMMA HeaderFromIs ==
  ASSUME NEW t, AreLines(t), NEW n \in 1 .. Len(t) + 1
  PROVE  /\ HeaderFrom(t, n) \in n .. Len(t) + 1
         /\ HeaderFrom(t, n) <= Len(t) => t[HeaderFrom(t, n)].line = "header"
         /\ \A i \in n .. Len(t) : i < HeaderFrom(t, n) => t[i].line # "header"
<1>. DEFINE found == {j \in n .. Len(t) : t[j].line = "header"}
            c == HeaderFrom(t, n)
<1>1. Len(t) \in Nat /\ n \in Nat \ {0}
  BY DEF AreLines
<1>2. c = IF found = {} THEN Len(t) + 1 ELSE FirstOf(found)
  BY DEF HeaderFrom, FirstFrom
<1>. HIDE DEF c
<1>3. found \subseteq n .. Len(t)
  OBVIOUS
<1>4. \/ found = {} /\ c = Len(t) + 1
      \/ c \in found /\ \A i \in found : c <= i
  <2>. HIDE DEF found
  <2>. QED  BY <1>1, <1>2, <1>3, FirstWhere
<1>5. c \in n .. Len(t) + 1
  BY <1>1, <1>4
<1>6. \A i \in n .. Len(t) : i < c => t[i].line # "header"
  BY <1>1, <1>4, <1>5
<1>. QED  BY <1>1, <1>4, <1>5, <1>6 DEF c

(* The first header of the section.                                        *)
LEMMA SectionAtIs ==
  ASSUME NEW t, AreLines(t)
  PROVE  /\ SectionAt(t) \in Nat /\ SectionAt(t) >= 1
         /\ SectionAt(t) <= Len(t) => t[SectionAt(t)] = Header(Managed)
         /\ SectionAt(t) > Len(t) => Header(Managed) \notin Headings(t)
         /\ \A i \in 1 .. Len(t) : t[i] = Header(Managed) => SectionAt(t) <= i
<1>. DEFINE found == {j \in 1 .. Len(t) : t[j] = Header(Managed)}
            c == SectionAt(t)
<1>1. Len(t) \in Nat /\ DOMAIN t = 1 .. Len(t) /\ 1 \in Nat \ {0}
  BY DEF AreLines
<1>2. c = IF found = {} THEN Len(t) + 1 ELSE FirstOf(found)
  BY DEF SectionAt, FirstFrom
<1>. HIDE DEF c
<1>3. found \subseteq 1 .. Len(t)
  OBVIOUS
<1>4. \/ found = {} /\ c = Len(t) + 1
      \/ c \in found /\ \A i \in found : c <= i
  <2>. HIDE DEF found
  <2>. QED  BY ONLY <1>1, <1>2, <1>3, FirstWhere
<1>5. c > Len(t) => Header(Managed) \notin Headings(t)
  BY <1>1, <1>4 DEF Headings, Range
<1>6. c \in Nat /\ c >= 1
  BY <1>1, <1>4
<1>7. \A i \in 1 .. Len(t) : t[i] = Header(Managed) => c <= i
  BY <1>4
<1>. QED  BY <1>1, <1>4, <1>5, <1>6, <1>7 DEF c

(* The edit of the section (patchSection in edit_toml.go) keeps all other tables, *)
(* wherever the section is and whether there is one.                       *)
LEMMA SectionIsPatched ==
  ASSUME NEW t, AreLines(t), NEW s, Section(s), ValidToml(s)
  PROVE  SectionPatched(t, PatchSection(t, Header(Managed), s))
<1>. DEFINE a == SectionAt(t)
            e == HeaderFrom(t, a + 1)
            u == PatchSection(t, Header(Managed), s)
<1>1. Len(t) \in Nat /\ DOMAIN t = 1 .. Len(t) /\ t \in Seq(Range(t))
  BY DEF AreLines
<1>2. /\ a \in Nat /\ a >= 1
      /\ a <= Len(t) => t[a] = Header(Managed)
      /\ a > Len(t) => Header(Managed) \notin Headings(t)
  BY SectionAtIs
<1>3. u = IF a > Len(t)
            THEN IF t # <<>> /\ Last(t) # Blank THEN t \o <<Blank>> \o s ELSE t \o s
            ELSE SubSeq(t, 1, a - 1) \o s \o SubSeq(t, e, Len(t))
  BY DEF PatchSection, SectionAt, HeaderFrom
<1>. HIDE DEF u, a
<1>4. CASE a > Len(t)
  <2>1. SectionPatched(t, t \o s)
    BY <1>2, <1>4, SectionBehind
  <2>2. SectionPatched(t, t \o <<Blank>> \o s)
    <3>. DEFINE b == <<Blank>>
                v == t \o b
    <3>1. b \in Seq({Blank}) /\ DOMAIN b = {1} /\ b[1] = Blank
      OBVIOUS
    <3>. HIDE DEF b
    <3>2. AreLines(b)
      <4>1. b \in Seq(Range(b))
        BY <3>1, RangeIs
      <4>. QED  BY <3>1, <4>1 DEF AreLines, IsLine
    <3>3. /\ AreLines(v)
          /\ ValidToml(t) => ValidToml(v)
          /\ \A x : x \in Entries(v) <=> x \in Entries(t)
          /\ \A x : x \in Headings(v) <=> x \in Headings(t)
      BY <3>1, <3>2, AndBlank
    <3>. HIDE DEF v
    <3>4. SectionPatched(v, v \o s)
      BY <1>2, <1>4, <3>3, SectionBehind
    <3>5. SectionPatched(t, v \o s)
      BY <3>3, <3>4 DEF SectionPatched
    <3>. QED  BY <3>5 DEF v, b
  <2>. QED  BY <1>3, <1>4, <2>1, <2>2 DEF u
<1>5. CASE ~ (a > Len(t))
  <2>1. a \in 1 .. Len(t) /\ a + 1 \in 1 .. Len(t) + 1 /\ t[a] = Header(Managed)
    BY <1>1, <1>2, <1>5
  <2>2. /\ e \in a + 1 .. Len(t) + 1
        /\ e <= Len(t) => t[e].line = "header"
        /\ \A i \in a + 1 .. Len(t) : i < e => t[i].line # "header"
    BY <2>1, HeaderFromIs
  <2>. HIDE DEF e
  <2>. DEFINE b == SubSeq(t, 1, e - 1)
              q == SubSeq(t, e, Len(t))
              p == SubSeq(b, 1, a - 1)
              old == SubSeq(b, a, e - 1)
  <2>3. e - 1 \in 0 .. Len(t) /\ (e - 1) + 1 = e /\ a - 1 \in 0 .. e - 1 /\ (a - 1) + 1 = a
    BY <1>1, <2>1, <2>2
  <2>4. AreLines(b) /\ AreLines(q) /\ t = b \o q
    BY <2>3, LinesSplit
  <2>5. /\ Len(b) = e - 1 /\ \A i \in 1 .. e - 1 : b[i] = t[i]
        /\ Len(q) = Len(t) - (e - 1) /\ DOMAIN q = 1 .. Len(t) - (e - 1)
        /\ \A i \in 1 .. Len(t) - (e - 1) : q[i] = t[(e - 1) + i]
    BY <1>1, <2>3, SplitPlaces
  <2>. HIDE DEF b, q
  <2>6. AreLines(p) /\ AreLines(old) /\ b = p \o old
    BY <2>3, <2>4, <2>5, LinesSplit
  <2>7. DOMAIN old = 1 .. (e - 1) - (a - 1) /\ \A i \in 1 .. (e - 1) - (a - 1) : old[i] = b[(a - 1) + i]
    <3>1. b \in Seq(Range(b))
      BY <2>4 DEF AreLines
    <3>. QED  BY <2>3, <2>5, <3>1, SplitPlaces
  <2>8. p = SubSeq(t, 1, a - 1)
    BY <1>1, <2>3 DEF p, b
  <2>. HIDE DEF p, old
  <2>9. Headed(q)
    <3>1. ASSUME NEW i \in DOMAIN q PROVE q[1].line = "header"
      <4>1. e <= Len(t) /\ (e - 1) + 1 = e /\ 1 \in 1 .. Len(t) - (e - 1)
        BY <1>1, <2>2, <2>5
      <4>. QED  BY <2>2, <2>5, <4>1
    <3>. QED  BY <3>1 DEF Headed
  <2>10. Section(old)
    <3>1. 1 \in DOMAIN old /\ old[1] = Header(Managed)
      <4>1. 1 \in 1 .. (e - 1) - (a - 1) /\ (a - 1) + 1 = a /\ a \in 1 .. e - 1
        BY <2>1, <2>2
      <4>. QED  BY <2>1, <2>5, <2>7, <4>1
    <3>2. ASSUME NEW i \in DOMAIN old, i # 1 PROVE old[i].line # "header"
      <4>1. (a - 1) + i \in a + 1 .. Len(t) /\ (a - 1) + i < e /\ (a - 1) + i \in 1 .. e - 1
        BY <1>1, <2>1, <2>2, <2>7, <3>2
      <4>. QED  BY <2>2, <2>5, <2>7, <4>1
    <3>. QED  BY <2>6, <3>1, <3>2 DEF Section
  <2>11. SectionPatched((p \o old) \o q, (p \o s) \o q)
    BY <2>4, <2>6, <2>9, <2>10, SectionInPlace
  <2>12. u = (p \o s) \o q
    BY <1>3, <1>5, <2>8 DEF q
  <2>. QED  BY <2>4, <2>6, <2>11, <2>12 DEF u
<1>. QED  BY <1>4, <1>5 DEF u

(* The lines before the first table.                                       *)
Flat(t) == AreLines(t) /\ \A i \in DOMAIN t : t[i].line # "header"
HasKey(t, key) == \E i \in Pairs(t) : t[i].key = key
RootKeys == {"model", "model_provider"}

(* An entry of the root.                                                   *)
LEMMA EntryIs ==
  ASSUME NEW e, NEW key, NEW value, e = <<"", key, value>>
  PROVE  e[1] = "" /\ e[2] = key
OBVIOUS

(* Before the first table entries are in the root, and valid means distinct keys. *)
LEMMA FlatIs ==
  ASSUME NEW t, Flat(t)
  PROVE  /\ \A e : e \in Entries(t) <=> \E i \in Pairs(t) : e = <<"", t[i].key, t[i].value>>
         /\ ValidToml(t) <=> \A i, j \in Pairs(t) : t[i].key = t[j].key => i = j
         /\ \A x : x \notin Headings(t)
<1>1. DOMAIN t = 1 .. Len(t) /\ Len(t) \in Nat
  BY DEF Flat, AreLines
<1>2. ASSUME NEW i \in DOMAIN t PROVE TableOf(t, i) = ""
  <2>1. i \in Nat /\ Heads(t, i) = {}
    BY <1>1 DEF Heads, Flat
  <2>. QED  BY <2>1, TableIs
<1>3. Pairs(t) \subseteq DOMAIN t /\ DOMAIN t \subseteq Nat
  BY <1>1 DEF Pairs
<1>4. \A e : e \in Entries(t) <=> \E i \in Pairs(t) : e = <<"", t[i].key, t[i].value>>
  BY <1>2, <1>3 DEF Entries
<1>5. ASSUME ValidToml(t), NEW i \in Pairs(t), NEW j \in Pairs(t), t[i].key = t[j].key
      PROVE  i = j
  <2>0. i \in DOMAIN t /\ j \in DOMAIN t /\ {i, j} \subseteq Pairs(t) /\ {j, i} \subseteq Pairs(t)
        /\ TableOf(t, i) = TableOf(t, j)
    BY <1>2, <1>3
  <2>1. ~ (i < j)
    BY <1>5, <2>0 DEF ValidToml
  <2>2. ~ (j < i)
    BY <1>5, <2>0 DEF ValidToml
  <2>. QED  BY <1>3, <2>1, <2>2
<1>6. ASSUME \A i, j \in Pairs(t) : t[i].key = t[j].key => i = j
      PROVE  ValidToml(t)
  <2>1. ASSUME NEW i \in DOMAIN t, NEW j \in DOMAIN t, i < j
        PROVE  /\ t[i].line # "header"
               /\ {i, j} \subseteq Pairs(t) => t[i].key # t[j].key
    BY <1>3, <1>6, <2>1 DEF Flat
  <2>. QED  BY <2>1 DEF ValidToml
<1>7. \A x : x \notin Headings(t)
  BY DEF Flat, Headings, Range
<1>. QED  BY <1>4, <1>5, <1>6, <1>7

RootPatched(r, s) ==
  /\ Flat(s)
  /\ ValidToml(r) => ValidToml(s)
  /\ \A e : ~ (e[1] = "" /\ e[2] \in RootKeys) => (e \in Entries(s) <=> e \in Entries(r))

(* A root key is put behind a text that has none of its name.              *)
LEMMA AndRoot ==
  ASSUME NEW r, NEW s, Flat(r), NEW key \in RootKeys, NEW value, RootPatched(s, r), ~ HasKey(r, key)
  PROVE  /\ RootPatched(s, r \o <<Pair(key, value)>>)
         /\ \A k : HasKey(r \o <<Pair(key, value)>>, k) <=> HasKey(r, k) \/ k = key
<1>. DEFINE l == Pair(key, value)
            b == <<l>>
            u == r \o b
            n == Len(r) + 1
<1>1. l.line = "pair" /\ l.key = key /\ l.value = value /\ l = Pair(l.key, l.value) /\ l \in {l}
  BY DEF Pair
<1>. HIDE DEF l
<1>2. DOMAIN b = {1} /\ b[1] = l /\ b \in Seq({l})
  OBVIOUS
<1>. HIDE DEF b
<1>3. AreLines(b)
  <2>1. b \in Seq(Range(b))
    BY <1>2, RangeIs
  <2>. QED  BY <1>1, <1>2, <2>1 DEF AreLines, IsLine
<1>4. AreLines(u)
  BY <1>3, LinesJoin DEF Flat
<1>5. /\ \A i \in DOMAIN r : i \in DOMAIN u /\ u[i] = r[i]
      /\ n \in DOMAIN u /\ u[n] = l
      /\ \A i \in DOMAIN u : i \in DOMAIN r \/ i = n
      /\ n \notin DOMAIN r
  <2>1. /\ \A i \in DOMAIN r : i \in DOMAIN u /\ u[i] = r[i]
        /\ \A i \in DOMAIN b : Len(r) + i \in DOMAIN u /\ u[Len(r) + i] = b[i]
        /\ \A i \in DOMAIN u : i \in DOMAIN r \/ \E j \in DOMAIN b : i = Len(r) + j
        /\ Len(r) \in Nat /\ DOMAIN r = 1 .. Len(r)
    BY <1>3, JoinPlaces DEF Flat
  <2>. QED  BY <1>2, <2>1
<1>. HIDE DEF u, n
<1>6. Flat(u)
  BY <1>1, <1>4, <1>5 DEF Flat
<1>7. \A i : i \in Pairs(u) <=> i \in Pairs(r) \/ i = n
  BY <1>1, <1>5 DEF Pairs
<1>8. \A i \in Pairs(r) : u[i] = r[i] /\ u[i].key # key
  BY <1>5 DEF Pairs, HasKey
<1>9. ASSUME ValidToml(s) PROVE ValidToml(u)
  <2>1. \A i, j \in Pairs(r) : r[i].key = r[j].key => i = j
    BY <1>9, FlatIs DEF RootPatched
  <2>2. \A i, j \in Pairs(u) : u[i].key = u[j].key => i = j
    BY <1>1, <1>5, <1>7, <1>8, <2>1
  <2>. QED  BY <1>6, <2>2, FlatIs
<1>10. ASSUME NEW e, ~ (e[1] = "" /\ e[2] \in RootKeys)
       PROVE  e \in Entries(u) <=> e \in Entries(r)
  <2>1. e \in Entries(r) <=> \E i \in Pairs(r) : e = <<"", r[i].key, r[i].value>>
    BY FlatIs
  <2>2. e \in Entries(u) <=> \E i \in Pairs(u) : e = <<"", u[i].key, u[i].value>>
    BY <1>6, FlatIs
  <2>3. e # <<"", key, value>>
    BY <1>10, EntryIs
  <2>4. u[n].key = key /\ u[n].value = value
    BY <1>1, <1>5
  <2>5. (\E i \in Pairs(u) : e = <<"", u[i].key, u[i].value>>)
          <=> \E i \in Pairs(r) : e = <<"", r[i].key, r[i].value>>
    BY <1>7, <1>8, <2>3, <2>4
  <2>. QED  BY <2>1, <2>2, <2>5
<1>11. \A k : HasKey(u, k) <=> HasKey(r, k) \/ k = key
  BY <1>1, <1>5, <1>7, <1>8 DEF HasKey
<1>12. RootPatched(s, u)
  BY <1>6, <1>9, <1>10 DEF RootPatched
<1>. QED  BY <1>11, <1>12 DEF u, b, l

(* A root key that is there is replaced.                                   *)
LEMMA RootReplaced ==
  ASSUME NEW r, Flat(r), NEW s, DOMAIN s = DOMAIN r, AreLines(s),
         \A i \in DOMAIN r : \/ s[i] = r[i]
                             \/ /\ r[i].line = "pair" /\ s[i].line = "pair"
                                /\ s[i].key = r[i].key /\ r[i].key \in RootKeys
  PROVE  RootPatched(r, s) /\ \A k : HasKey(s, k) <=> HasKey(r, k)
<1>1. Flat(s)
  BY DEF Flat
<1>2. Pairs(s) = Pairs(r) /\ \A i \in Pairs(r) : s[i].key = r[i].key
  BY DEF Pairs
<1>3. ValidToml(r) => ValidToml(s)
  BY <1>1, <1>2, FlatIs
<1>4. ASSUME NEW e, ~ (e[1] = "" /\ e[2] \in RootKeys)
      PROVE  e \in Entries(s) <=> e \in Entries(r)
  <2>1. e \in Entries(r) <=> \E i \in Pairs(r) : e = <<"", r[i].key, r[i].value>>
    BY FlatIs
  <2>2. e \in Entries(s) <=> \E i \in Pairs(s) : e = <<"", s[i].key, s[i].value>>
    BY <1>1, FlatIs
  <2>3. ASSUME NEW i \in Pairs(r), s[i] # r[i]
        PROVE  e # <<"", r[i].key, r[i].value>> /\ e # <<"", s[i].key, s[i].value>>
    <3>1. r[i].key \in RootKeys /\ s[i].key = r[i].key
      BY <2>3 DEF Pairs
    <3>2. ASSUME e = <<"", r[i].key, r[i].value>> PROVE FALSE
      BY <1>4, <3>1, <3>2, EntryIs
    <3>3. ASSUME e = <<"", s[i].key, s[i].value>> PROVE FALSE
      <4>1. e[1] = "" /\ e[2] = s[i].key
        BY <3>3, EntryIs
      <4>. QED  BY <1>4, <3>1, <4>1
    <3>. QED  BY <3>2, <3>3
  <2>. QED  BY <1>2, <2>1, <2>2, <2>3
<1>5. \A k : HasKey(s, k) <=> HasKey(r, k)
  BY <1>2 DEF HasKey
<1>. QED  BY <1>1, <1>3, <1>4, <1>5 DEF RootPatched

RootAt(r, key) == FirstFrom(r, 1, LAMBDA l : l.line = "pair" /\ l.key = key)

(* The first root key of a name.                                           *)
LEMMA RootAtIs ==
  ASSUME NEW r, AreLines(r), NEW key
  PROVE  /\ RootAt(r, key) \in 1 .. Len(r) + 1
         /\ RootAt(r, key) <= Len(r) => LET l == r[RootAt(r, key)] IN l.line = "pair" /\ l.key = key
         /\ ~ (RootAt(r, key) <= Len(r)) => ~ HasKey(r, key)
         /\ \A i \in Pairs(r) : r[i].key = key => RootAt(r, key) <= i
<1>. DEFINE found == {j \in 1 .. Len(r) : r[j].line = "pair" /\ r[j].key = key}
            c == RootAt(r, key)
<1>1. Len(r) \in Nat /\ DOMAIN r = 1 .. Len(r) /\ 1 \in Nat \ {0}
  BY DEF AreLines
<1>2. c = IF found = {} THEN Len(r) + 1 ELSE FirstOf(found)
  BY DEF RootAt, FirstFrom
<1>. HIDE DEF c
<1>3. found \subseteq 1 .. Len(r)
  OBVIOUS
<1>4. \/ found = {} /\ c = Len(r) + 1
      \/ c \in found /\ \A i \in found : c <= i
  <2>. HIDE DEF found
  <2>. QED  BY ONLY <1>1, <1>2, <1>3, FirstWhere
<1>5. c \in 1 .. Len(r) + 1
  BY <1>1, <1>4
<1>6. ~ (c <= Len(r)) => ~ HasKey(r, key)
  BY <1>1, <1>4 DEF HasKey, Pairs
<1>7. \A i \in Pairs(r) : r[i].key = key => c <= i
  BY <1>1, <1>4 DEF Pairs
<1>. QED  BY <1>1, <1>4, <1>5, <1>6, <1>7 DEF c

(* A text says a root key when the first of its name is this one.          *)
RootSays(r, p) ==
  \E i \in DOMAIN r : r[i] = p /\ \A j \in Pairs(r) : r[j].key = p.key => i <= j

(* Lines behind it leave it said.                                          *)
LEMMA RootSaysJoin ==
  ASSUME NEW r, AreLines(r), NEW b, AreLines(b), NEW p, p.line = "pair", RootSays(r, p)
  PROVE  RootSays(r \o b, p)
<1>. DEFINE u == r \o b
<1>1. PICK i \in DOMAIN r : r[i] = p /\ \A j \in Pairs(r) : r[j].key = p.key => i <= j
  BY DEF RootSays
<1>2. /\ \A j \in DOMAIN r : j \in DOMAIN u /\ u[j] = r[j]
      /\ \A j \in DOMAIN u : j \in DOMAIN r \/ \E k \in DOMAIN b : j = Len(r) + k
      /\ Len(r) \in Nat /\ DOMAIN r = 1 .. Len(r) /\ DOMAIN b \subseteq Nat \ {0}
  BY JoinPlaces
<1>. HIDE DEF u
<1>3. \A j \in Pairs(u) : u[j].key = p.key => i <= j
  <2>1. ASSUME NEW j \in Pairs(u), u[j].key = p.key PROVE i <= j
    <3>1. CASE j \in DOMAIN r
      BY <1>1, <1>2, <2>1, <3>1 DEF Pairs
    <3>2. CASE j \notin DOMAIN r
      <4>1. PICK k \in DOMAIN b : j = Len(r) + k
        BY <1>2, <3>2 DEF Pairs
      <4>. QED  BY <1>2, <4>1
    <3>. QED  BY <3>1, <3>2
  <2>. QED  BY <2>1
<1>4. i \in DOMAIN u /\ u[i] = p
  BY <1>1, <1>2
<1>5. RootSays(u, p)
  BY <1>3, <1>4 DEF RootSays
<1>. QED  BY <1>5 DEF u

(* A key that is new is said when it is put at the end.                    *)
LEMMA RootSaysNew ==
  ASSUME NEW r, AreLines(r), NEW key, NEW value, ~ HasKey(r, key)
  PROVE  RootSays(r \o <<Pair(key, value)>>, Pair(key, value))
<1>. DEFINE p == Pair(key, value)
            b == <<p>>
            u == r \o b
            i == Len(r) + 1
<1>1. p.line = "pair" /\ p.key = key /\ p = Pair(p.key, p.value)
  BY DEF Pair
<1>. HIDE DEF p
<1>2. DOMAIN b = {1} /\ b[1] = p /\ b \in Seq({p})
  OBVIOUS
<1>. HIDE DEF b
<1>3. AreLines(b)
  <2>1. b \in Seq(Range(b))
    BY <1>2, RangeIs
  <2>. QED  BY <1>1, <1>2, <2>1 DEF AreLines, IsLine
<1>4. /\ \A j \in DOMAIN r : j \in DOMAIN u /\ u[j] = r[j]
      /\ i \in DOMAIN u /\ u[i] = p
      /\ \A j \in DOMAIN u : j \in DOMAIN r \/ j = i
      /\ i \in Nat
  <2>1. /\ \A j \in DOMAIN r : j \in DOMAIN u /\ u[j] = r[j]
        /\ \A j \in DOMAIN b : Len(r) + j \in DOMAIN u /\ u[Len(r) + j] = b[j]
        /\ \A j \in DOMAIN u : j \in DOMAIN r \/ \E k \in DOMAIN b : j = Len(r) + k
        /\ Len(r) \in Nat
    BY <1>3, JoinPlaces
  <2>. QED  BY <1>2, <2>1
<1>. HIDE DEF u, i
<1>5. \A j \in Pairs(u) : u[j].key = p.key => i <= j
  BY <1>1, <1>4 DEF Pairs, HasKey
<1>6. RootSays(u, p)
  BY <1>4, <1>5 DEF RootSays
<1>. QED  BY <1>6 DEF u, b, p

(* What is said is found.                                                  *)
LEMMA RootAtSays ==
  ASSUME NEW r, AreLines(r), NEW p, p.line = "pair", RootSays(r, p)
  PROVE  RootAt(r, p.key) <= Len(r) /\ r[RootAt(r, p.key)] = p
<1>. DEFINE c == RootAt(r, p.key)
<1>1. PICK i \in DOMAIN r : r[i] = p /\ \A j \in Pairs(r) : r[j].key = p.key => i <= j
  BY DEF RootSays
<1>2. i \in Pairs(r) /\ DOMAIN r = 1 .. Len(r) /\ Len(r) \in Nat
  BY <1>1 DEF Pairs, AreLines
<1>3. /\ c \in 1 .. Len(r) + 1 /\ c <= i
      /\ c <= Len(r) => r[c].line = "pair" /\ r[c].key = p.key
  BY <1>1, <1>2, RootAtIs
<1>. HIDE DEF c
<1>4. c <= Len(r) /\ c \in Pairs(r)
  BY <1>2, <1>3 DEF Pairs
<1>5. i <= c
  BY <1>1, <1>3, <1>4
<1>6. c = i
  BY <1>2, <1>3, <1>5
<1>. QED  BY <1>1, <1>4, <1>6 DEF c

(* Texts before a table, put before it.                                    *)
LEMMA RootJoin ==
  ASSUME NEW r, Flat(r), NEW s, RootPatched(r, s), NEW b, AreLines(b), \A i \in DOMAIN b : b[i] = Blank,
         NEW q, AreLines(q), Headed(q)
  PROVE  /\ AreLines((s \o b) \o q)
         /\ ValidToml(r \o q) => ValidToml((s \o b) \o q)
         /\ \A e : ~ (e[1] = "" /\ e[2] \in RootKeys) =>
              (e \in Entries((s \o b) \o q) <=> e \in Entries(r \o q))
         /\ \A x : x \in Headings((s \o b) \o q) <=> x \in Headings(r \o q)
<1>. DEFINE v == s \o b
<1>1. Flat(s) /\ AreLines(s) /\ AreLines(r)
  BY DEF RootPatched, Flat
<1>2. /\ AreLines(v)
      /\ ValidToml(s) => ValidToml(v)
      /\ \A e : e \in Entries(v) <=> e \in Entries(s)
      /\ \A x : x \in Headings(v) <=> x \in Headings(s)
  BY <1>1, AndBlank
<1>. HIDE DEF v
<1>3. (\A x : x \notin Headings(r)) /\ (\A x : x \notin Headings(v))
  BY <1>1, <1>2, FlatIs
<1>4. AreLines(v \o q)
  BY <1>2, LinesJoin
<1>5. ValidToml(r \o q) => ValidToml(v \o q)
  BY <1>1, <1>2, <1>3, ValidJoin DEF RootPatched
<1>6. /\ \A e : e \in Entries(v \o q) <=> e \in Entries(v) \/ e \in Entries(q)
      /\ \A e : e \in Entries(r \o q) <=> e \in Entries(r) \/ e \in Entries(q)
  BY <1>1, <1>2, EntriesJoin DEF Headed
<1>7. \A e : ~ (e[1] = "" /\ e[2] \in RootKeys) => (e \in Entries(v \o q) <=> e \in Entries(r \o q))
  BY <1>2, <1>6 DEF RootPatched
<1>8. \A x : x \in Headings(v \o q) <=> x \in Headings(r \o q)
  BY <1>1, <1>2, <1>3, HeadingsJoin
<1>. QED  BY <1>4, <1>5, <1>7, <1>8 DEF v

RootIsPatched(t, u) ==
  /\ AreLines(u)
  /\ ValidToml(t) => ValidToml(u)
  /\ \A e : ~ (e[1] = "" /\ e[2] \in RootKeys) => (e \in Entries(u) <=> e \in Entries(t))
  /\ \A x : x \in Headings(u) <=> x \in Headings(t)

(* And what it makes of the lines before the first table says both keys.   *)
RootDone(t, u, one, two) ==
  \E w : /\ Flat(w) /\ u = w \o SubSeq(t, HeaderFrom(t, 1), Len(t))
         /\ RootSays(w, one) /\ RootSays(w, two)

(* The edit of the root keys (patchRoot in edit_toml.go) keeps all other keys and *)
(* all tables.                                                             *)
LEMMA RootSet ==
  ASSUME NEW t, AreLines(t), NEW x, NEW y
  PROVE  LET u == PatchRoot(t, <<Pair("model", x), Pair("model_provider", y)>>)
         IN RootIsPatched(t, u) /\ RootDone(t, u, Pair("model", x), Pair("model_provider", y))
<1>. DEFINE one == Pair("model", x)
            two == Pair("model_provider", y)
            top == <<one, two>>
            n == HeaderFrom(t, 1)
            r == SubSeq(t, 1, n - 1)
            q == SubSeq(t, n, Len(t))
            new == [i \in DOMAIN t |->
                      IF \E m \in DOMAIN top : i < n /\ RootAt(r, top[m].key) = i
                        THEN CHOOSE p \in {top[m] : m \in DOMAIN top} : RootAt(r, p.key) = i
                        ELSE t[i]]
            Unless(p) == IF RootAt(r, p.key) < n THEN <<>> ELSE <<p>>
            pending == Unless(top[1]) \o Unless(top[2])
            gap == IF pending # <<>> /\ n <= Len(t) THEN <<Blank>> ELSE <<>>
            u == PatchRoot(t, top)
<1>1. u = SubSeq(new, 1, n - 1) \o pending \o gap \o SubSeq(new, n, Len(t))
  BY DEF PatchRoot, HeaderFrom, RootAt
<1>2. /\ one.line = "pair" /\ one.key = "model" /\ one = Pair(one.key, one.value)
      /\ two.line = "pair" /\ two.key = "model_provider" /\ two = Pair(two.key, two.value)
      /\ one.key \in RootKeys /\ two.key \in RootKeys /\ one.key # two.key
      /\ one = Pair("model", x) /\ two = Pair("model_provider", y)
  BY DEF Pair, RootKeys
<1>3. DOMAIN top = {1, 2} /\ top[1] = one /\ top[2] = two
  OBVIOUS
<1>4. {top[m] : m \in DOMAIN top} = {one, two}
  BY <1>3
<1>. HIDE DEF u
<1>5. /\ Len(t) \in Nat /\ DOMAIN t = 1 .. Len(t) /\ t \in Seq(Range(t))
      /\ 1 \in 1 .. Len(t) + 1
  BY DEF AreLines
<1>6. /\ n \in 1 .. Len(t) + 1
      /\ n <= Len(t) => t[n].line = "header"
      /\ \A i \in 1 .. Len(t) : i < n => t[i].line # "header"
  BY <1>5, HeaderFromIs
<1>. HIDE DEF n
<1>7. n - 1 \in 0 .. Len(t) /\ (n - 1) + 1 = n
  BY <1>5, <1>6
<1>8. AreLines(r) /\ AreLines(q) /\ t = r \o q
  BY <1>7, LinesSplit
<1>9. /\ Len(r) = n - 1 /\ DOMAIN r = 1 .. n - 1 /\ (\A i \in 1 .. n - 1 : r[i] = t[i])
      /\ Len(q) = Len(t) - (n - 1) /\ DOMAIN q = 1 .. Len(t) - (n - 1)
      /\ \A i \in 1 .. Len(t) - (n - 1) : q[i] = t[(n - 1) + i]
  <2>1. n - 1 \in 0 .. Len(t)
    BY <1>7
  <2>2. Len(r) = n - 1 /\ DOMAIN r = 1 .. n - 1 /\ \A i \in 1 .. n - 1 : r[i] = t[i]
    BY <1>5, <2>1
  <2>3. /\ Len(q) = Len(t) - (n - 1) /\ DOMAIN q = 1 .. Len(t) - (n - 1)
        /\ \A i \in 1 .. Len(t) - (n - 1) : q[i] = t[(n - 1) + i]
    BY <1>5, <1>6
  <2>. QED  BY <2>2, <2>3
<1>. HIDE DEF r, q
<1>10. Flat(r)
  BY <1>5, <1>6, <1>8, <1>9 DEF Flat
<1>11. Headed(q)
  <2>1. ASSUME NEW i \in DOMAIN q PROVE q[1].line = "header"
    <3>1. n <= Len(t) /\ (n - 1) + 1 = n /\ 1 \in 1 .. Len(t) - (n - 1)
      BY <1>5, <1>6, <1>9, <2>1
    <3>. QED  BY <1>6, <1>9, <3>1
  <2>. QED  BY <2>1 DEF Headed
<1>12. \A key : /\ RootAt(r, key) \in 1 .. n
                /\ RootAt(r, key) < n => /\ r[RootAt(r, key)].line = "pair"
                                         /\ r[RootAt(r, key)].key = key
                /\ ~ (RootAt(r, key) < n) => ~ HasKey(r, key)
                /\ \A i \in Pairs(r) : r[i].key = key => RootAt(r, key) <= i
  <2>1. \A k \in Nat : k < n <=> k <= Len(r)
    BY <1>6, <1>9
  <2>2. Len(r) + 1 = n /\ n \in Nat
    BY <1>6, <1>9
  <2>. QED  BY <1>8, <2>1, <2>2, RootAtIs
<1>13. /\ DOMAIN new = DOMAIN t
       /\ \A i \in DOMAIN t : ~ (i < n) => new[i] = t[i]
       /\ \A i \in DOMAIN t : i < n =>
            \/ new[i] = t[i]
            \/ new[i] \in {one, two} /\ RootAt(r, new[i].key) = i
       /\ \A p \in {one, two}, i \in DOMAIN t : i < n /\ RootAt(r, p.key) = i =>
            new[i] \in {one, two} /\ RootAt(r, new[i].key) = i
  <2>1. ASSUME NEW i \in DOMAIN t, \E m \in DOMAIN top : i < n /\ RootAt(r, top[m].key) = i
        PROVE  new[i] \in {one, two} /\ RootAt(r, new[i].key) = i
    <3>1. new[i] = CHOOSE p \in {one, two} : RootAt(r, p.key) = i
      BY <1>4, <2>1
    <3>2. \E p \in {one, two} : RootAt(r, p.key) = i
      BY <1>3, <2>1
    <3>. HIDE DEF new, one, two, top
    <3>. QED  BY <3>1, <3>2
  <2>2. ASSUME NEW i \in DOMAIN t, ~ \E m \in DOMAIN top : i < n /\ RootAt(r, top[m].key) = i
        PROVE  new[i] = t[i]
    BY <2>2
  <2>3. DOMAIN new = DOMAIN t
    OBVIOUS
  <2>4. ASSUME NEW p \in {one, two}, NEW i \in DOMAIN t, i < n, RootAt(r, p.key) = i
        PROVE  \E m \in DOMAIN top : i < n /\ RootAt(r, top[m].key) = i
    <3>. HIDE DEF one, two, top
    <3>. QED  BY <1>3, <2>4
  <2>. HIDE DEF new
  <2>. QED  BY <2>1, <2>2, <2>3, <2>4
<1>. DEFINE T == Range(t) \cup {one, two}
<1>14. new \in Seq(T)
  <2>1. \A i \in DOMAIN t : new[i] \in T
    BY <1>13 DEF Range
  <2>2. new = [i \in 1 .. Len(t) |-> new[i]]
    BY <1>5
  <2>. HIDE DEF new, T
  <2>. QED  BY <1>5, <2>1, <2>2
<1>15. pending = Unless(one) \o Unless(two)
  BY <1>3
<1>. HIDE DEF new, T, pending, one, two, top
<1>. DEFINE r2 == SubSeq(new, 1, n - 1)
            q2 == SubSeq(new, n, Len(t))
<1>16. Len(new) = Len(t)
  BY <1>5, <1>13, <1>14
<1>17. /\ r2 \in Seq(T) /\ DOMAIN r2 = 1 .. n - 1 /\ (\A i \in 1 .. n - 1 : r2[i] = new[i])
       /\ q2 \in Seq(T) /\ Len(q2) = Len(t) - (n - 1)
       /\ \A i \in 1 .. Len(t) - (n - 1) : q2[i] = new[(n - 1) + i]
  BY <1>5, <1>7, <1>14, <1>16, SplitPlaces
<1>. HIDE DEF r2, q2
<1>18. q2 = q
  <2>1. q \in Seq(T)
    <3>1. q \in Seq(Range(q))
      BY <1>8 DEF AreLines
    <3>2. Range(q) \subseteq T
      <4>1. \A i \in 1 .. Len(t) - (n - 1) : (n - 1) + i \in DOMAIN t
        BY <1>5, <1>6
      <4>. QED  BY <1>9, <4>1 DEF Range, T
    <3>. QED  BY <3>1, <3>2
  <2>2. ASSUME NEW i \in 1 .. Len(t) - (n - 1) PROVE q2[i] = q[i]
    <3>1. (n - 1) + i \in DOMAIN t /\ ~ ((n - 1) + i < n)
      BY <1>5, <1>6
    <3>. QED  BY <1>9, <1>13, <1>17, <3>1
  <2>. QED  BY <1>9, <1>17, <2>1, <2>2, SameSequence
<1>19. AreLines(r2)
  <2>1. r2 \in Seq(Range(r2))
    BY <1>17, RangeIs
  <2>2. \A i \in 1 .. n - 1 : i \in DOMAIN t /\ i < n
    BY <1>5, <1>6
  <2>3. IsLine(one) /\ IsLine(two)
    BY <1>2 DEF IsLine
  <2>. QED  BY <1>13, <1>17, <2>1, <2>2, <2>3 DEF AreLines
<1>20. /\ RootPatched(r, r2) /\ \A k : HasKey(r2, k) <=> HasKey(r, k)
       /\ \A i \in Pairs(r2) : i \in Pairs(r) /\ r2[i].key = r[i].key
  <2>1. ASSUME NEW i \in DOMAIN r
        PROVE  \/ r2[i] = r[i]
               \/ /\ r[i].line = "pair" /\ r2[i].line = "pair"
                  /\ r2[i].key = r[i].key /\ r[i].key \in RootKeys
    <3>1. i \in DOMAIN t /\ i < n /\ r[i] = t[i] /\ r2[i] = new[i]
      BY <1>5, <1>6, <1>9, <1>17
    <3>. QED  BY <1>2, <1>12, <1>13, <3>1
  <2>2. RootPatched(r, r2) /\ \A k : HasKey(r2, k) <=> HasKey(r, k)
    BY <1>9, <1>10, <1>17, <1>19, <2>1, RootReplaced
  <2>3. \A i \in Pairs(r2) : i \in Pairs(r) /\ r2[i].key = r[i].key
    BY <1>9, <1>17, <2>1 DEF Pairs
  <2>. QED  BY <2>2, <2>3
<1>20a. ASSUME NEW p \in {one, two}, RootAt(r, p.key) < n PROVE RootSays(r2, p)
  <2>. DEFINE i == RootAt(r, p.key)
  <2>1. /\ i \in 1 .. n /\ r[i].key = p.key /\ \A j \in Pairs(r) : r[j].key = p.key => i <= j
    BY <1>12, <1>20a
  <2>2. i \in 1 .. n - 1 /\ i \in DOMAIN t /\ i < n
    BY <1>5, <1>6, <1>20a, <2>1
  <2>3. new[i] \in {one, two} /\ RootAt(r, new[i].key) = i
    BY <1>13, <2>2
  <2>4. r[i].key = new[i].key
    BY <1>12, <2>2, <2>3
  <2>. HIDE DEF i
  <2>5. new[i] = p
    BY <1>2, <2>1, <2>3, <2>4
  <2>6. i \in DOMAIN r2 /\ r2[i] = p
    BY <1>17, <2>2, <2>5
  <2>. QED  BY <1>20, <2>1, <2>6 DEF RootSays
<1>20b. AreLines(<<one>>) /\ AreLines(<<two>>)
  <2>1. ASSUME NEW p, IsLine(p) PROVE AreLines(<<p>>)
    <3>. DEFINE b == <<p>>
    <3>1. b \in Seq({p}) /\ DOMAIN b = {1} /\ b[1] = p
      OBVIOUS
    <3>. HIDE DEF b
    <3>2. b \in Seq(Range(b))
      BY <3>1, RangeIs
    <3>3. AreLines(b)
      BY <2>1, <3>1, <3>2 DEF AreLines
    <3>. QED  BY <3>3 DEF b
  <2>2. IsLine(one) /\ IsLine(two)
    BY <1>2 DEF IsLine
  <2>. QED  BY <2>1, <2>2
<1>. DEFINE r3 == r2 \o Unless(one)
            r4 == r3 \o Unless(two)
<1>21. /\ RootPatched(r, r3) /\ \A k : k # "model" => (HasKey(r3, k) <=> HasKey(r, k))
       /\ RootSays(r3, one) /\ (RootAt(r, two.key) < n => RootSays(r3, two))
  <2>1. CASE RootAt(r, one.key) < n
    <3>1. r3 = r2
      <4>1. Unless(one) = <<>>
        BY <2>1
      <4>. QED  BY <1>17, <4>1
    <3>. HIDE DEF r3
    <3>. QED  BY <1>20, <1>20a, <2>1, <3>1
  <2>2. CASE ~ (RootAt(r, one.key) < n)
    <3>1. r3 = r2 \o <<Pair("model", x)>>
      BY <1>2, <2>2
    <3>2. ~ HasKey(r2, "model")
      BY <1>2, <1>12, <1>20, <2>2
    <3>3. Flat(r2) /\ "model" \in RootKeys
      BY <1>2, <1>20 DEF RootPatched
    <3>. HIDE DEF r3
    <3>4. RootPatched(r, r3) /\ \A k : k # "model" => (HasKey(r3, k) <=> HasKey(r, k))
      BY <1>20, <3>1, <3>2, <3>3, AndRoot
    <3>5. RootSays(r3, one)
      BY <1>2, <1>19, <3>1, <3>2, RootSaysNew
    <3>6. RootAt(r, two.key) < n => RootSays(r3, two)
      <4>1. AreLines(<<one>>)
        BY <1>20b
      <4>2. r3 = r2 \o <<one>>
        BY <1>2, <3>1
      <4>. QED  BY <1>2, <1>19, <1>20a, <4>1, <4>2, RootSaysJoin
    <3>. QED  BY <3>4, <3>5, <3>6
  <2>. QED  BY <2>1, <2>2
<1>. HIDE DEF r3
<1>22. RootPatched(r, r4) /\ RootSays(r4, one) /\ RootSays(r4, two)
  <2>1. CASE RootAt(r, two.key) < n
    <3>1. r4 = r3
      <4>1. Unless(two) = <<>> /\ r3 \in Seq(Range(r3))
        BY <1>21, <2>1 DEF RootPatched, Flat, AreLines
      <4>. QED  BY <4>1
    <3>. HIDE DEF r4
    <3>. QED  BY <1>21, <2>1, <3>1
  <2>2. CASE ~ (RootAt(r, two.key) < n)
    <3>1. r4 = r3 \o <<Pair("model_provider", y)>>
      BY <1>2, <2>2
    <3>2. ~ HasKey(r3, "model_provider")
      BY <1>2, <1>12, <1>21, <2>2
    <3>3. Flat(r3) /\ "model_provider" \in RootKeys
      BY <1>2, <1>21 DEF RootPatched
    <3>. HIDE DEF r4
    <3>4. RootPatched(r, r4)
      BY <1>21, <3>1, <3>2, <3>3, AndRoot
    <3>5. AreLines(r3)
      BY <3>3 DEF Flat
    <3>6. RootSays(r4, two)
      BY <1>2, <3>1, <3>2, <3>5, RootSaysNew
    <3>7. RootSays(r4, one)
      <4>1. r4 = r3 \o <<two>>
        BY <1>2, <3>1
      <4>. QED  BY <1>2, <1>21, <1>20b, <3>5, <4>1, RootSaysJoin
    <3>. QED  BY <3>4, <3>6, <3>7
  <2>. QED  BY <2>1, <2>2
<1>. HIDE DEF r4
<1>23. r2 \o pending = r4
  <2>. DEFINE a == Unless(one)
              b == Unless(two)
  <2>1. a \in Seq(T) /\ b \in Seq(T)
    <3>1. one \in T /\ two \in T
      BY DEF T
    <3>2. <<one>> \in Seq(T) /\ <<two>> \in Seq(T) /\ <<>> \in Seq(T)
      BY <3>1
    <3>. QED  BY <3>2
  <2>2. r4 = (r2 \o a) \o b
    BY DEF r3, r4
  <2>. HIDE DEF a, b
  <2>3. (r2 \o a) \o b = r2 \o (a \o b)
    <3>1. r2 \in Seq(T)
      BY <1>17
    <3>. QED  BY ONLY <2>1, <3>1, ConcatAssociative
  <2>. QED  BY <1>15, <2>2, <2>3 DEF a, b
<1>24. AreLines(gap) /\ \A i \in DOMAIN gap : gap[i] = Blank
  <2>1. gap \in Seq({Blank})
    OBVIOUS
  <2>. HIDE DEF gap
  <2>2. gap \in Seq(Range(gap)) /\ \A i \in DOMAIN gap : gap[i] = Blank
    BY <2>1, RangeIs
  <2>. QED  BY <2>2 DEF AreLines, IsLine
<1>25. u = (r4 \o gap) \o q
  BY <1>1, <1>18, <1>23 DEF r2, q2
<1>. HIDE DEF gap
<1>26. RootIsPatched(t, (r4 \o gap) \o q)
  BY <1>8, <1>10, <1>11, <1>22, <1>24, RootJoin DEF RootIsPatched
<1>27. RootDone(t, (r4 \o gap) \o q, one, two)
  <2>. DEFINE w == r4 \o gap
  <2>1. AreLines(r4) /\ Flat(r4)
    BY <1>22 DEF RootPatched, Flat
  <2>2. RootSays(w, one) /\ RootSays(w, two)
    BY <1>2, <1>22, <1>24, <2>1, RootSaysJoin
  <2>3. AreLines(w) /\ \A l : l \in Headings(w) <=> l \in Headings(r4)
    BY <1>24, <2>1, AndBlank
  <2>. HIDE DEF w
  <2>4. Flat(w)
    <3>1. \A l : l \notin Headings(w)
      BY <2>1, <2>3, FlatIs
    <3>. QED  BY <2>3, <3>1 DEF Flat, Headings, Range
  <2>5. w \o q = w \o SubSeq(t, HeaderFrom(t, 1), Len(t))
    BY DEF q, n
  <2>6. RootDone(t, w \o q, one, two)
    BY <2>2, <2>4, <2>5 DEF RootDone
  <2>. QED  BY <2>6 DEF w
<1>. QED  BY <1>25, <1>26, <1>27 DEF u, top, one, two

(* The whole edit of config.toml.                                          *)
TomlPatched(t, u) ==
  /\ AreLines(u) /\ 1 <= Len(u)
  /\ ValidToml(t) => ValidToml(u)
  /\ \A e : e[1] # Managed /\ ~ (e[1] = "" /\ e[2] \in RootKeys) =>
       (e \in Entries(u) <=> e \in Entries(t))
  /\ \A x : x # Header(Managed) => (x \in Headings(u) <=> x \in Headings(t))

(* An empty text.                                                          *)
LEMMA NoLines == AreLines(<<>>)
<1>. DEFINE t == <<>>
<1>1. t \in Seq({}) /\ DOMAIN t = {}
  OBVIOUS
<1>. HIDE DEF t
<1>2. t \in Seq(Range(t))
  BY <1>1, RangeIs
<1>3. AreLines(t)
  BY <1>1, <1>2 DEF AreLines
<1>. QED  BY <1>3 DEF t

(* The section, then the root keys.                                        *)
LEMMA PatchToml ==
  ASSUME NEW t, AreLines(t), NEW o, NEW old, old # Broken,
         t = IF old = Missing THEN <<>> ELSE old.lines
  PROVE  \E u : /\ PatchTOML(old, CodexRoot(o), Header(Managed), CodexSection(o)) = Toml(u)
                /\ TomlPatched(t, u)
<1>. DEFINE s == CodexSection(o)
            v == PatchSection(t, Header(Managed), s)
            top == CodexRoot(o)
            u == PatchRoot(v, top)
<1>1. Section(s) /\ ValidToml(s)
  BY CodexSectionIs
<1>2. PatchTOML(old, top, Header(Managed), s) = Toml(u)
  <2>. HIDE DEF s, top
  <2>. QED  BY DEF PatchTOML
<1>. HIDE DEF s
<1>3. SectionPatched(t, v)
  BY <1>1, SectionIsPatched
<1>. HIDE DEF v
<1>4. top = <<Pair("model", DefaultModel(o, "gpt")), Pair("model_provider", Managed)>>
  BY DEF CodexRoot
<1>5. RootIsPatched(v, u)
  BY <1>3, <1>4, RootSet DEF SectionPatched
<1>. HIDE DEF u, top
<1>6. 1 <= Len(u)
  <2>1. DOMAIN u # {}
    BY <1>3, <1>5 DEF SectionPatched, RootIsPatched, Headings, Range
  <2>2. DOMAIN u = 1 .. Len(u) /\ Len(u) \in Nat
    <3>1. AreLines(u)
      BY <1>5 DEF RootIsPatched
    <3>. QED  BY <3>1 DEF AreLines
  <2>. QED  BY <2>1, <2>2
<1>7. TomlPatched(t, u)
  BY <1>3, <1>5, <1>6 DEF SectionPatched, RootIsPatched, TomlPatched
<1>. QED  BY <1>2, <1>7 DEF s, u, top

-----------------------------------------------------------------------------
(* What a plan makes of a file.                                            *)
Kept(file, old, new, o) ==
  old \notin {Missing, Broken} /\ old.kind # "bare" /\ Valid(old)
    /\ (old.kind = "jsonc" => ~ EndsInNote(old.tokens)) =>
  /\ new.kind = old.kind
  /\ Valid(new)
  /\ Others(new) = Others(old)
  /\ old.kind = "jsonc" =>
       /\ {t \in Inside(new, "providers") : ~ Ours(t)}
            = {t \in Inside(old, "providers") : ~ Ours(t)}
       /\ Inside(old, "policies") \subseteq Inside(new, "policies")
  /\ old.kind = "json" =>
       LET managed == DOMAIN Planned(file, Missing, o).values
       IN \A k \in DOMAIN old.values \ managed :
            k \in DOMAIN new.values /\ new.values[k] = old.values[k]

(* config.toml: what UserKept says of it.                                  *)
LEMMA TomlKept ==
  ASSUME NEW old, IsDocument("config.toml", old), NEW o, NEW new,
         new = Planned("config.toml", old, o), new # Broken
  PROVE  /\ IsDocument("config.toml", new) /\ Kept("config.toml", old, new, o)
         /\ new.kind = "toml" /\ 1 <= Len(new.lines)
<1>1. /\ Missing.kind = "missing" /\ Broken.kind = "broken"
      /\ \A l : Toml(l).kind = "toml" /\ Toml(l).lines = l
  BY DEF Missing, Broken, Toml
<1>2. new = PatchTOML(old, CodexRoot(o), Header(Managed), CodexSection(o))
  BY DEF Planned
<1>3. old # Broken
  BY <1>2 DEF PatchTOML
<1>. DEFINE t == IF old = Missing THEN <<>> ELSE old.lines
<1>4. AreLines(t)
  BY <1>3, NoLines DEF IsDocument
<1>5. PICK u : new = Toml(u) /\ TomlPatched(t, u)
  BY <1>2, <1>3, <1>4, PatchToml
<1>6. new.kind = "toml" /\ new.lines = u /\ 1 <= Len(u) /\ AreLines(u)
  BY <1>1, <1>5 DEF TomlPatched
<1>7. IsDocument("config.toml", new)
  BY <1>5, <1>6 DEF IsDocument
<1>8. ASSUME old \notin {Missing, Broken}, Valid(old)
      PROVE  /\ new.kind = old.kind /\ Valid(new) /\ Others(new) = Others(old) /\ old.kind = "toml"
  <2>1. old.kind = "toml" /\ old.lines = t
    BY <1>8 DEF IsDocument
  <2>2. Valid(new)
    BY <1>5, <1>6, <1>8, <2>1 DEF Valid, TomlPatched
  <2>. DEFINE User(e) == e[1] # Managed /\ ~ (e[1] = "" /\ e[2] \in {"model", "model_provider"})
  <2>3. {e \in Entries(u) : User(e)} = {e \in Entries(t) : User(e)}
    BY <1>5 DEF TomlPatched, RootKeys
  <2>4. {l \in Range(u) : l.line = "header" /\ l.name # Managed}
          = {l \in Range(t) : l.line = "header" /\ l.name # Managed}
    <3>1. Header(Managed).name = Managed
      BY DEF Header
    <3>. QED  BY <1>5, <3>1 DEF TomlPatched, Headings
  <2>5. Others(new) = {e \in Entries(u) : User(e)}
                        \cup {<<h>> : h \in {l \in Range(u) : l.line = "header" /\ l.name # Managed}}
    BY <1>6 DEF Others
  <2>6. Others(old) = {e \in Entries(t) : User(e)}
                        \cup {<<h>> : h \in {l \in Range(t) : l.line = "header" /\ l.name # Managed}}
    BY <2>1 DEF Others
  <2>7. Others(new) = Others(old)
    BY <2>3, <2>4, <2>5, <2>6
  <2>. QED  BY <1>6, <2>1, <2>2, <2>7
<1>9. Kept("config.toml", old, new, o)
  BY <1>8 DEF Kept
<1>. QED  BY <1>6, <1>7, <1>9

(* What is inside a member.                                                *)
LEMMA InsideIs ==
  ASSUME NEW doc, NEW key, NEW y
  PROVE  y \in Inside(doc, key) <=> IsInside(doc.tokens, key, y) /\ y # Comma
<1>. DEFINE I == {j \in Members(doc.tokens) :
                    doc.tokens[j].key = key /\ doc.tokens[j].value.is = "nested"}
            R(i) == Range(doc.tokens[i].value.tokens)
            U == UNION {R(i) : i \in I}
<1>1. y \in Inside(doc, key) <=> y \in U /\ y # Comma
  BY DEF Inside
<1>2. IsInside(doc.tokens, key, y) <=> \E i \in I : y \in R(i)
  BY DEF IsInside
<1>3. y \in U <=> \E i \in I : y \in R(i)
  OBVIOUS
<1>. HIDE DEF U, R, I
<1>. QED  BY ONLY <1>1, <1>2, <1>3

(* An empty object.                                                        *)
LEMMA NoMembers == AreMembers(<<>>)
<1>. DEFINE t == <<>>
<1>1. t \in Seq({}) /\ DOMAIN t = {}
  OBVIOUS
<1>. HIDE DEF t
<1>2. t \in Seq(Range(t))
  BY <1>1, RangeIs
<1>3. AreMembers(t)
  BY <1>1, <1>2 DEF AreMembers, AreTokens, Members
<1>. QED  BY <1>3 DEF t

(* opencode.jsonc: what UserKept says of it.                               *)
LEMMA JsoncKept ==
  ASSUME NEW file \in {"opencode.jsonc", "opencode.json"}, NEW old, IsDocument(file, old), NEW o, NEW new,
         new = Planned(file, old, o), new # Broken
  PROVE  IsDocument(file, new) /\ Kept(file, old, new, o) /\ new.kind = "jsonc"
<1>1. /\ Missing.kind = "missing" /\ Broken.kind = "broken" /\ Comma.token = "comma"
      /\ \A l : Jsonc(l).kind = "jsonc" /\ Jsonc(l).tokens = l
  BY DEF Missing, Broken, Jsonc, Comma
<1>2. new = PatchJSONC(old, o)
  BY DEF Planned
<1>3. old # Broken
  BY <1>2 DEF PatchJSONC
<1>. DEFINE t0 == IF old = Missing \/ old.kind = "bare" THEN <<>> ELSE old.tokens
<1>4. AreMembers(t0)
  BY <1>3, NoMembers DEF IsDocument
<1>5. PICK t : new = Jsonc(t) /\ Patched(t0, t)
  BY <1>2, <1>3, <1>4, PatchJsonc
<1>6. new.kind = "jsonc" /\ new.tokens = t /\ AreMembers(t)
  BY <1>1, <1>5 DEF Patched
<1>7. IsDocument(file, new)
  BY <1>5, <1>6 DEF IsDocument
<1>8. ASSUME old \notin {Missing, Broken}, old.kind # "bare", Valid(old), old.kind = "jsonc" => ~ EndsInNote(old.tokens)
      PROVE  /\ new.kind = old.kind /\ Valid(new) /\ Others(new) = Others(old) /\ old.kind = "jsonc"
             /\ {y \in Inside(new, "providers") : ~ Ours(y)}
                  = {y \in Inside(old, "providers") : ~ Ours(y)}
             /\ Inside(old, "policies") \subseteq Inside(new, "policies")
  <2>1. old.kind = "jsonc" /\ old.tokens = t0
    BY <1>8 DEF IsDocument
  <2>2. ValidJsonc(t0) /\ ~ EndsInNote(t0)
    BY <1>8, <2>1 DEF Valid
  <2>3. Valid(new)
    BY <1>5, <1>6, <2>2 DEF Valid, Patched
  <2>4. Others(new) = Others(old)
    <3>1. \A x : x.token # "comma" => x # Comma
      BY <1>1
    <3>2. {y \in Range(t) : /\ y.token # "comma"
                            /\ y.token = "member" => y.key \notin {"$schema", "model", "providers", "policies"}}
            = {y \in Range(t0) : /\ y.token # "comma"
                                 /\ y.token = "member" => y.key \notin {"$schema", "model", "providers", "policies"}}
      BY <1>5, <2>2, <3>1 DEF Patched, FreeSame, OurKeys
    <3>. QED  BY <1>6, <2>1, <3>2 DEF Others
  <2>5. \A key, y : y \in Inside(new, key) <=> IsInside(t, key, y) /\ y # Comma
    BY <1>6, InsideIs
  <2>6. \A key, y : y \in Inside(old, key) <=> IsInside(t0, key, y) /\ y # Comma
    BY <2>1, InsideIs
  <2>7. {y \in Inside(new, "providers") : ~ Ours(y)} = {y \in Inside(old, "providers") : ~ Ours(y)}
    BY <1>5, <2>2, <2>5, <2>6 DEF Patched, ProvidersSame
  <2>8. Inside(old, "policies") \subseteq Inside(new, "policies")
    BY <1>5, <2>2, <2>5, <2>6 DEF Patched
  <2>. QED  BY <1>6, <2>1, <2>3, <2>4, <2>7, <2>8
<1>9. Kept(file, old, new, o)
  BY <1>8 DEF Kept
<1>. QED  BY <1>6, <1>7, <1>9

(* settings.json and auth.json: what UserKept says of them.                *)
LEMMA JsonKept ==
  ASSUME NEW file \in {"settings.json", "auth.json"}, NEW old, IsDocument(file, old), NEW o, NEW new,
         new = Planned(file, old, o), new # Broken
  PROVE  IsDocument(file, new) /\ Kept(file, old, new, o) /\ new.kind = "json"
<1>. DEFINE values == IF file = "settings.json" THEN ClaudeValues(o) ELSE AuthValues
<1>1. \A d : Planned(file, d, o) = MergeJSON(d, values)
  BY DEF Planned
<1>. HIDE DEF values
<1>2. /\ Missing.kind = "missing" /\ Broken.kind = "broken" /\ Missing # Broken
      /\ \A v, l : Object(v, l).kind = "json" /\ Object(v, l).values = v
  BY DEF Missing, Broken, Object
<1>3. DOMAIN Planned(file, Missing, o).values = DOMAIN values
  BY <1>1, <1>2 DEF MergeJSON
<1>4. old # Broken
  BY <1>1 DEF MergeJSON
<1>5. new.kind = "json" /\ (old # Missing => new.values = Over(values, old.values))
  BY <1>1, <1>2, <1>4 DEF MergeJSON
<1>6. IsDocument(file, new)
  BY <1>5 DEF IsDocument
<1>7. ASSUME old # Missing PROVE old.kind = "json"
  BY <1>4, <1>7 DEF IsDocument
<1>8. ASSUME old # Missing, NEW k \in DOMAIN old.values \ DOMAIN values
      PROVE  k \in DOMAIN new.values /\ new.values[k] = old.values[k]
  BY <1>5, <1>8 DEF Over
<1>9. Others(new) = {} /\ (old # Missing => Others(old) = {}) /\ Valid(new)
  BY <1>5, <1>7 DEF Others, Valid
<1>. QED  BY <1>3, <1>5, <1>6, <1>7, <1>8, <1>9 DEF Kept

(* Every plan keeps what is the user's, and is there to edit itself, even when it *)
(* is written in part.                                                     *)
LEMMA PlannedKept ==
  ASSUME NEW file \in Files, NEW old, IsDocument(file, old), NEW o, NEW new,
         new = Planned(file, old, o), new # Broken
  PROVE  IsDocument(file, new) /\ Kept(file, old, new, o) /\ IsDocument(file, Part(new))
<1>1. CASE file = "config.toml"
  <2>1. /\ IsDocument(file, new) /\ Kept(file, old, new, o)
        /\ new.kind = "toml" /\ 1 <= Len(new.lines)
    BY <1>1, TomlKept
  <2>2. AreLines(new.lines)
    BY <1>1, <2>1 DEF IsDocument, Missing, Broken
  <2>3. 1 \in 0 .. Len(new.lines)
    BY <2>1, <2>2 DEF AreLines
  <2>4. AreLines(SubSeq(new.lines, 1, 1))
    BY <2>2, <2>3, LinesSplit
  <2>5. Part(new) = Toml(SubSeq(new.lines, 1, 1))
    BY <2>1 DEF Part
  <2>6. \A l : AreLines(l) => IsDocument("config.toml", Toml(l))
    <3>1. \A l : Toml(l).kind = "toml" /\ Toml(l).lines = l
      BY DEF Toml
    <3>. QED  BY <3>1 DEF IsDocument
  <2>. QED  BY <1>1, <2>1, <2>4, <2>5, <2>6
<1>2. CASE file # "config.toml"
  <2>1. /\ IsDocument(file, new) /\ Kept(file, old, new, o) /\ new.kind # "toml"
    BY <1>2, JsonKept, JsoncKept DEF Files
  <2>2. Part(new) = Broken
    BY <2>1 DEF Part
  <2>. QED  BY <2>1, <2>2 DEF IsDocument
<1>. QED  BY <1>1, <1>2

-----------------------------------------------------------------------------
(* The files of a plan: FlattenSeq, by induction.                          *)
LEMMA NatSetInduction ==
  ASSUME NEW S, 0 \in S, \A n \in Nat : n \in S => n + 1 \in S
  PROVE  Nat \subseteq S
<1>1. SUFFICES ASSUME Nat \ S # {} PROVE FALSE
  OBVIOUS
<1>2. PICK m \in Nat \ S : \A k \in Nat \ S : m <= k
  BY <1>1, HasFirst
<1>3. m - 1 \in Nat /\ ~ (m <= m - 1) /\ (m - 1) + 1 = m
  BY <1>2
<1>. QED  BY <1>2, <1>3

(* f holds the concatenations of the first sequences of ss.                *)
Flattens(ss, n, f) == f = [i \in 1 .. n |-> IF i = 1 THEN ss[i] ELSE f[i - 1] \o ss[i]]

(* There is such a function, for every length.                             *)
LEMMA FlattensExists ==
  ASSUME NEW ss, NEW n \in Nat
  PROVE  \E f : Flattens(ss, n, f)
<1>. DEFINE S == {m \in Nat : \E f : Flattens(ss, m, f)}
<1>1. 0 \in S
  <2>1. Flattens(ss, 0, [i \in 1 .. 0 |-> 0])
    BY DEF Flattens
  <2>. QED  BY <2>1
<1>2. ASSUME NEW m \in Nat, m \in S PROVE m + 1 \in S
  <2>1. PICK f : Flattens(ss, m, f)
    BY <1>2
  <2>. DEFINE g == [i \in 1 .. (m + 1) |->
                      IF i \in 1 .. m THEN f[i] ELSE IF i = 1 THEN ss[i] ELSE f[i - 1] \o ss[i]]
  <2>2. ASSUME NEW i \in 1 .. (m + 1)
        PROVE  g[i] = IF i = 1 THEN ss[i] ELSE g[i - 1] \o ss[i]
    <3>1. CASE i = 1
      BY <2>1, <3>1 DEF Flattens
    <3>2. CASE i # 1
      <4>1. i - 1 \in 1 .. m /\ i - 1 \in 1 .. (m + 1)
        BY <3>2
      <4>2. g[i - 1] = f[i - 1]
        BY <4>1
      <4>3. CASE i \in 1 .. m
        BY <2>1, <3>2, <4>2, <4>3 DEF Flattens
      <4>4. CASE i \notin 1 .. m
        BY <3>2, <4>2, <4>4
      <4>. QED  BY <4>3, <4>4
    <3>. QED  BY <3>1, <3>2
  <2>3. g = [i \in 1 .. (m + 1) |-> IF i = 1 THEN ss[i] ELSE g[i - 1] \o ss[i]]
    BY <2>2
  <2>. HIDE DEF g
  <2>4. Flattens(ss, m + 1, g)
    BY <2>3 DEF Flattens
  <2>. QED  BY <2>4
<1>. HIDE DEF S
<1>3. Nat \subseteq S
  BY <1>1, <1>2, NatSetInduction
<1>. QED  BY <1>3 DEF S

(* And FlattenSeq is its last value.                                       *)
LEMMA FlattenSeqFlattens ==
  ASSUME NEW ss, Len(ss) \in Nat, Len(ss) # 0
  PROVE  \E f : Flattens(ss, Len(ss), f) /\ FlattenSeq(ss) = f[Len(ss)]
<1>. DEFINE f == CHOOSE f : f = [i \in 1 .. Len(ss) |-> IF i = 1 THEN ss[i] ELSE f[i - 1] \o ss[i]]
<1>1. \E g : g = [i \in 1 .. Len(ss) |-> IF i = 1 THEN ss[i] ELSE g[i - 1] \o ss[i]]
  BY FlattensExists DEF Flattens
<1>2. f = [i \in 1 .. Len(ss) |-> IF i = 1 THEN ss[i] ELSE f[i - 1] \o ss[i]]
  BY <1>1
<1>3. FlattenSeq(ss) = f[Len(ss)]
  BY DEF FlattenSeq
<1>. QED  BY <1>2, <1>3 DEF Flattens

(* FlattenSeq puts sequences of elements together to one of elements.      *)
LEMMA FlattenTyped ==
  ASSUME NEW T, NEW ss \in Seq(Seq(T))
  PROVE  FlattenSeq(ss) \in Seq(T)
<1>. DEFINE n == Len(ss)
<1>0. n \in Nat /\ \A i \in 1 .. n : ss[i] \in Seq(T)
  OBVIOUS
<1>1. CASE n = 0
  <2>1. FlattenSeq(ss) = ss
    BY <1>1 DEF FlattenSeq
  <2>2. ss = <<>>
    BY <1>1
  <2>. QED  BY <2>1, <2>2
<1>2. CASE n # 0
  <2>1. PICK f : Flattens(ss, n, f) /\ FlattenSeq(ss) = f[n]
    BY <1>0, <1>2, FlattenSeqFlattens
  <2>. HIDE DEF n
  <2>. DEFINE S == {i \in Nat : i \in 1 .. n => f[i] \in Seq(T)}
  <2>2. 0 \in S
    OBVIOUS
  <2>3. ASSUME NEW i \in Nat, i \in S PROVE i + 1 \in S
    <3>1. SUFFICES ASSUME i + 1 \in 1 .. n PROVE f[i + 1] \in Seq(T)
      OBVIOUS
    <3>2. f[i + 1] = IF i + 1 = 1 THEN ss[i + 1] ELSE f[(i + 1) - 1] \o ss[i + 1]
      BY <2>1, <3>1 DEF Flattens
    <3>3. CASE i = 0
      BY <1>0, <3>1, <3>2, <3>3
    <3>4. CASE i # 0
      <4>1. (i + 1) - 1 = i /\ i + 1 # 1 /\ i \in 1 .. n
        BY <1>0, <3>1, <3>4
      <4>2. f[i + 1] = f[i] \o ss[i + 1]
        BY <3>2, <4>1
      <4>3. f[i] \in Seq(T) /\ ss[i + 1] \in Seq(T)
        BY <1>0, <2>3, <3>1, <4>1
      <4>. QED  BY <4>2, <4>3, ConcatPlaces
    <3>. QED  BY <3>3, <3>4
  <2>. HIDE DEF S
  <2>4. Nat \subseteq S
    BY <2>2, <2>3, NatSetInduction
  <2>5. f[n] \in Seq(T)
    BY <1>0, <1>2, <2>4 DEF S
  <2>. QED  BY <2>1, <2>5
<1>. QED  BY <1>1, <1>2

(* The files of an agent.                                                  *)
LEMMA FilesOf ==
  ASSUME NEW agent \in Agents, NEW d
  PROVE  AgentFiles(agent, d) \in Seq(Files)
<1>1. \A f \in Files : <<f>> \in Seq(Files)
  OBVIOUS
<1>2. \A f, g \in Files : <<f, g>> \in Seq(Files)
  OBVIOUS
<1>3. OpenCodeFile(d) \in Files /\ {"settings.json", "config.toml", "auth.json"} \subseteq Files
  BY DEF OpenCodeFile, Files
<1>4. CASE agent = "claude-code"
  BY <1>1, <1>3, <1>4 DEF AgentFiles
<1>5. CASE agent = "codex"
  BY <1>2, <1>3, <1>5 DEF AgentFiles
<1>6. CASE agent = "opencode"
  BY <1>1, <1>3, <1>6 DEF AgentFiles
<1>. QED  BY <1>4, <1>5, <1>6 DEF Agents

-----------------------------------------------------------------------------
(* What the files hold is there to edit, and the plan of a run is made of it. *)
DiskReads == disk = [f \in Files |-> disk[f]] /\ \A f \in Files : IsDocument(f, disk[f])
IsPlanned(change, o) ==
  /\ change.file \in Files
  /\ IsDocument(change.file, change.old)
  /\ change.new = Planned(change.file, change.old, o)
  /\ change.new # Broken
PlanMade ==
  /\ DOMAIN plan = 1 .. Len(plan) /\ Len(plan) \in Nat
  /\ \A i \in DOMAIN plan : IsPlanned(plan[i], options)
AtChange ==
  /\ at \in Nat \ {0}
  /\ pc \in {"saving", "replace", "writing"} => at \in DOMAIN plan

KeptInv == DiskReads /\ PlanMade /\ AtChange

(* A run plans files that are there to edit.                               *)
LEMMA PlanIsMade ==
  ASSUME DiskReads, NEW chosen \in Seq(Agents), NEW o,
         \A i \in DOMAIN Plan(chosen, o) : Plan(chosen, o)[i].new # Broken
  PROVE  LET p == Plan(chosen, o)
         IN /\ DOMAIN p = 1 .. Len(p) /\ Len(p) \in Nat
            /\ \A i \in DOMAIN p : IsPlanned(p[i], o)
<1>. DEFINE of == [i \in DOMAIN chosen |-> AgentFiles(chosen[i], disk)]
            files == FlattenSeq(of)
            p == Plan(chosen, o)
<1>1. of \in Seq(Seq(Files))
  <2>1. \A i \in DOMAIN chosen : AgentFiles(chosen[i], disk) \in Seq(Files)
    BY FilesOf
  <2>2. DOMAIN chosen = 1 .. Len(chosen) /\ Len(chosen) \in Nat
    OBVIOUS
  <2>. QED  BY <2>1, <2>2
<1>. HIDE DEF of
<1>2. files \in Seq(Files)
  BY <1>1, FlattenTyped
<1>3. p = [i \in DOMAIN files |-> [file |-> files[i], old |-> disk[files[i]],
                                   new |-> Planned(files[i], disk[files[i]], o)]]
  BY DEF Plan, of
<1>. HIDE DEF files, p
<1>4. DOMAIN p = DOMAIN files /\ DOMAIN files = 1 .. Len(files) /\ Len(files) \in Nat
  BY <1>2, <1>3
<1>5. Len(p) = Len(files)
  BY <1>3, <1>4
<1>6. ASSUME NEW i \in DOMAIN p PROVE IsPlanned(p[i], o)
  <2>1. files[i] \in Files
    BY <1>2, <1>4
  <2>2. p[i].file = files[i] /\ p[i].old = disk[files[i]] /\ p[i].new = Planned(files[i], disk[files[i]], o)
    BY <1>3, <1>4
  <2>3. p[i].new # Broken
    BY DEF p
  <2>. QED  BY <2>1, <2>2, <2>3 DEF IsPlanned, DiskReads
<1>. QED  BY <1>4, <1>5, <1>6 DEF p

(* A document that is written keeps the disk readable.                     *)
LEMMA DiskWritten ==
  ASSUME DiskReads, NEW f \in Files, NEW doc, IsDocument(f, doc), disk' = [disk EXCEPT ![f] = doc]
  PROVE  DiskReads'
BY DEF DiskReads

(* What a run writes is there to edit.                                     *)
LEMMA PlannedFits ==
  ASSUME KeptInv, at \in DOMAIN plan
  PROVE  /\ Change.file \in Files
         /\ IsDocument(Change.file, Change.new) /\ IsDocument(Change.file, Part(Change.new))
<1>1. IsPlanned(Change, options)
  BY DEF KeptInv, PlanMade, Change
<1>. QED  BY <1>1, PlannedKept DEF IsPlanned

(* Every step keeps the invariant.                                         *)
LEMMA KeptStep ==
  ASSUME KeptInv, [Next]_vars
  PROVE  KeptInv'
<1>. USE DEF KeptInv
<1>1. ASSUME NEW chosen \in Selections, NEW o \in OptionChoices, Begin(chosen, o) PROVE KeptInv'
  <2>1. /\ plan' = Plan(chosen, o) /\ options' = o /\ pc' = "review" /\ at' = 1 /\ disk' = disk
        /\ \A i \in DOMAIN Plan(chosen, o) : Plan(chosen, o)[i].new # Broken
    BY <1>1 DEF Begin
  <2>2. chosen \in Seq(Agents)
    BY SelectionsAssumption
  <2>3. PlanMade'
    BY <2>1, <2>2, PlanIsMade DEF PlanMade
  <2>4. DiskReads' /\ AtChange'
    BY <2>1 DEF DiskReads, AtChange
  <2>. QED  BY <2>3, <2>4
<1>2. ASSUME Ended, disk' = disk PROVE KeptInv'
  <2>1. plan' = <<>> /\ at' = 1 /\ pc' = "idle"
    BY <1>2 DEF Ended
  <2>2. PlanMade' /\ AtChange'
    BY <2>1 DEF PlanMade, AtChange
  <2>3. DiskReads'
    BY <1>2 DEF DiskReads
  <2>. QED  BY <2>2, <2>3
<1>3. ASSUME disk' = disk, UNCHANGED <<plan, options>>,
             \/ UNCHANGED <<at, pc>>
             \/ at' = at /\ pc' \notin {"saving", "replace", "writing"}
             \/ at' = at + 1 /\ pc' \notin {"saving", "replace", "writing"}
             \/ at' = at /\ at \in DOMAIN plan
      PROVE  KeptInv'
  <2>1. DiskReads' /\ PlanMade'
    BY <1>3 DEF DiskReads, PlanMade
  <2>2. AtChange'
    BY <1>3 DEF AtChange
  <2>. QED  BY <2>1, <2>2
<1>4. CASE Decline
  BY <1>2, <1>4 DEF Decline
<1>5. CASE Confirm
  BY <1>3, <1>5 DEF Confirm
<1>6. CASE Skip
  BY <1>3, <1>6 DEF Skip
<1>7. CASE StartBackup
  <2>1. at \in DOMAIN plan
    BY <1>7 DEF StartBackup, PlanMade, AtChange
  <2>. QED  BY <1>3, <1>7, <2>1 DEF StartBackup
<1>8. CASE EndBackup
  <2>1. at \in DOMAIN plan
    BY <1>8 DEF EndBackup, AtChange
  <2>. QED  BY <1>3, <1>8, <2>1 DEF EndBackup
<1>9. CASE NoBackup
  <2>1. at \in DOMAIN plan
    BY <1>9 DEF NoBackup, PlanMade, AtChange
  <2>. QED  BY <1>3, <1>9, <2>1 DEF NoBackup
<1>10. CASE Rename \/ EndWrite
  <2>1. /\ at \in DOMAIN plan /\ disk' = [disk EXCEPT ![Change.file] = Change.new]
        /\ UNCHANGED <<plan, options>> /\ at' = at + 1 /\ pc' = "apply"
    BY <1>10 DEF Rename, EndWrite, AtChange
  <2>2. DiskReads'
    BY <2>1, PlannedFits, DiskWritten
  <2>3. PlanMade' /\ AtChange'
    BY <2>1 DEF PlanMade, AtChange
  <2>. QED  BY <2>2, <2>3
<1>11. CASE RenameRefused
  <2>1. /\ at \in DOMAIN plan /\ disk' = [disk EXCEPT ![Change.file] = Part(Change.new)]
        /\ UNCHANGED <<plan, options, at>> /\ pc' = "writing"
    BY <1>11 DEF RenameRefused, AtChange
  <2>2. DiskReads'
    BY <2>1, PlannedFits, DiskWritten
  <2>3. PlanMade' /\ AtChange'
    BY <2>1 DEF PlanMade, AtChange
  <2>. QED  BY <2>2, <2>3
<1>12. CASE Finish \/ Stop
  BY <1>2, <1>12 DEF Finish, Stop
<1>13. ASSUME NEW file \in Files, Edit(file) PROVE KeptInv'
  <2>1. PICK doc \in Edited(file, disk[file]) : IsDocument(file, doc) /\ disk' = [disk EXCEPT ![file] = doc]
    BY <1>13 DEF Edit
  <2>2. DiskReads'
    BY <2>1, DiskWritten
  <2>3. PlanMade' /\ AtChange'
    BY <1>13 DEF Edit, run, PlanMade, AtChange
  <2>. QED  BY <2>2, <2>3
<1>14. CASE Tick \/ UNCHANGED vars
  BY <1>3, <1>14 DEF Tick, vars, run
<1>. QED  BY <1>1, <1>4, <1>5, <1>6, <1>7, <1>8, <1>9, <1>10, <1>11, <1>12, <1>13, <1>14 DEF Next

(* A plan keeps what UserKept names: what it makes of config.toml          *)
(* (edit_toml.go), of opencode.jsonc (edit_jsonc.go) and of the JSON files *)
(* (edit_json.go) is valid when the file was, and holds every other key    *)
(* and table, and of JSONC every other member, rule and comment, for files *)
(* of any length and any options.  Not for a bare {} behind comments, a    *)
(* list of rules that ends in a comment, and the TOML that is no line of   *)
(* ConfigFiles: there the code does lose or break what is the user's.      *)
THEOREM UsersKept == Spec => []UserKept
<1>1. Init => KeptInv
  <2>1. SUFFICES ASSUME Init PROVE KeptInv
    OBVIOUS
  <2>2. DiskReads
    BY <2>1, FoundAssumption DEF Init, DiskReads
  <2>3. PlanMade /\ AtChange
    BY <2>1 DEF Init, PlanMade, AtChange
  <2>. QED  BY <2>2, <2>3 DEF KeptInv
<1>2. KeptInv /\ [Next]_vars => KeptInv'
  BY KeptStep
<1>3. KeptInv => UserKept
  <2>1. ASSUME KeptInv, NEW i \in DOMAIN plan
        PROVE  Kept(plan[i].file, plan[i].old, plan[i].new, options)
    <3>1. IsPlanned(plan[i], options)
      BY <2>1 DEF KeptInv, PlanMade
    <3>. QED  BY <3>1, PlannedKept DEF IsPlanned
  <2>. QED  BY <2>1 DEF UserKept, Kept
<1>. QED  BY <1>1, <1>2, <1>3, PTL DEF Spec

-----------------------------------------------------------------------------
(* Once more: an edit that is done changes nothing.                        *)

(* To merge the same values once more changes nothing.                     *)
LEMMA OverOver ==
  ASSUME NEW new, new = [k \in DOMAIN new |-> new[k]], NEW old
  PROVE  Over(new, Over(new, old)) = Over(new, old) /\ Over(new, new) = new
<1>. DEFINE D == DOMAIN new \cup DOMAIN old
            u == Over(new, old)
            w == Over(new, u)
<1>1. u = [k \in D |-> IF k \in DOMAIN new THEN new[k] ELSE old[k]]
  BY DEF Over
<1>2. DOMAIN u = D /\ \A k \in D : u[k] = IF k \in DOMAIN new THEN new[k] ELSE old[k]
  BY <1>1
<1>3. w = [k \in DOMAIN new \cup DOMAIN u |-> IF k \in DOMAIN new THEN new[k] ELSE u[k]]
  BY DEF Over
<1>. HIDE DEF u, w
<1>4. DOMAIN new \cup DOMAIN u = D
  BY <1>2
<1>5. w = [k \in D |-> IF k \in DOMAIN new THEN new[k] ELSE u[k]]
  BY <1>3, <1>4
<1>6. \A k \in D : (IF k \in DOMAIN new THEN new[k] ELSE u[k]) = IF k \in DOMAIN new THEN new[k] ELSE old[k]
  BY <1>2
<1>7. w = u
  BY <1>1, <1>5, <1>6
<1>8. Over(new, new) = new
  <2>1. Over(new, new) = [k \in DOMAIN new \cup DOMAIN new |-> IF k \in DOMAIN new THEN new[k] ELSE new[k]]
    BY DEF Over
  <2>2. DOMAIN new \cup DOMAIN new = DOMAIN new
    OBVIOUS
  <2>3. Over(new, new) = [k \in DOMAIN new |-> new[k]]
    BY <2>1, <2>2
  <2>. QED  BY <2>3
<1>. QED  BY <1>7, <1>8 DEF u, w

(* What settings.json is told.                                             *)
LEMMA ClaudeValuesAre ==
  ASSUME NEW o
  PROVE  LET v == ClaudeValues(o)
         IN /\ v = [k \in DOMAIN v |-> v[k]]
            /\ "BASE_URL" \in DOMAIN v /\ v["BASE_URL"] = o.port
<1>. DEFINE models == ModelsFor(o, "claude")
            proxy == [k \in {"BASE_URL", "AUTH_TOKEN"} |->
                        IF k = "BASE_URL" THEN o.port ELSE "placeholder"]
            slots == [k \in {"MODEL", "opus", "sonnet", "haiku"} |->
                        IF k = "MODEL" THEN Head(models) ELSE Slot(models, k)]
            v == ClaudeValues(o)
<1>1. v = IF models = <<>> THEN proxy ELSE Over(slots, proxy)
  BY DEF ClaudeValues
<1>2. /\ proxy = [k \in DOMAIN proxy |-> proxy[k]]
      /\ "BASE_URL" \in DOMAIN proxy /\ proxy["BASE_URL"] = o.port
      /\ "BASE_URL" \notin DOMAIN slots
  OBVIOUS
<1>. HIDE DEF proxy, slots, v
<1>3. Over(slots, proxy) = [k \in DOMAIN slots \cup DOMAIN proxy |-> IF k \in DOMAIN slots THEN slots[k] ELSE proxy[k]]
  BY DEF Over
<1>. QED  BY <1>1, <1>2, <1>3 DEF v

(* What a document of JSON says once the editor was there.                 *)
LEMMA JsonSettled ==
  ASSUME NEW old, NEW v, v = [k \in DOMAIN v |-> v[k]], NEW d, d = MergeJSON(old, v), d # Broken
  PROVE  /\ MergeJSON(d, v) = d
         /\ \A k \in DOMAIN v : d.values[k] = v[k]
         /\ d.kind = "json"
<1>1. old # Broken
  BY DEF MergeJSON
<1>. DEFINE w == IF old = Missing THEN v ELSE Over(v, old.values)
<1>2. d = Object(w, "encoded")
  BY <1>1 DEF MergeJSON
<1>3. Over(v, w) = w
  BY OverOver
<1>4. \A k \in DOMAIN v : w[k] = v[k]
  BY DEF Over
<1>. HIDE DEF w
<1>5. d.kind = "json" /\ d.values = w
  BY <1>2 DEF Object
<1>6. d # Missing /\ d # Broken
  BY <1>5 DEF Missing, Broken
<1>7. MergeJSON(d, v) = Object(Over(v, d.values), "encoded")
  BY <1>6 DEF MergeJSON
<1>. QED  BY <1>2, <1>3, <1>4, <1>5, <1>7

-----------------------------------------------------------------------------
(* A text says a member when the first of its name is this one.            *)
Says(t, key, value) ==
  Named(t, key) # 0 /\ t[Named(t, key)] = Member(key, value)

(* A member is said where no earlier one has its name.                     *)
LEMMA SaysIs ==
  ASSUME NEW S, NEW t \in Seq(S), NEW key, NEW value, NEW n \in DOMAIN t,
         t[n] = Member(key, value),
         \A i \in DOMAIN t : i < n /\ t[i].token = "member" => t[i].key # key
  PROVE  Says(t, key, value) /\ Named(t, key) = n
<1>1. t[n].token = "member" /\ t[n].key = key
  BY DEF Member
<1>2. n \in Members(t) /\ Members(t) \subseteq DOMAIN t /\ DOMAIN t \subseteq Nat \ {0}
  BY <1>1 DEF Members
<1>3. Named(t, key) # 0
  BY <1>1, <1>2, NamedIs
<1>4. /\ Named(t, key) \in Members(t) /\ t[Named(t, key)].key = key
      /\ Named(t, key) <= n
  BY <1>1, <1>2, <1>3, NamedIs
<1>5. ~ (Named(t, key) < n)
  BY <1>2, <1>4 DEF Members
<1>6. Named(t, key) = n
  BY <1>2, <1>4, <1>5
<1>. QED  BY <1>3, <1>6 DEF Says

(* To say it again changes nothing.                                        *)
LEMMA SetSame ==
  ASSUME NEW t, t \in Seq(Range(t)), NEW key, NEW value, Says(t, key, value)
  PROVE  SetMember(t, key, value) = t
<1>. DEFINE n == Named(t, key)
            u == [t EXCEPT ![n].value = value]
<1>1. SetMember(t, key, value) = u
  BY DEF SetMember, Says
<1>2. t = [i \in DOMAIN t |-> t[i]]
  OBVIOUS
<1>3. [t[n] EXCEPT !.value = value] = t[n]
  BY DEF Says, Member
<1>. HIDE DEF n
<1>4. u = [i \in DOMAIN t |-> IF i = n THEN [t[n] EXCEPT !.value = value] ELSE t[i]]
  OBVIOUS
<1>. HIDE DEF u
<1>5. u = t
  BY <1>2, <1>3, <1>4
<1>. QED  BY <1>1, <1>5

(* A member that is set is said.                                           *)
LEMMA SetSays ==
  ASSUME NEW t, AreTokens(t, "member"), NEW key, NEW value
  PROVE  AreTokens(SetMember(t, key, value), "member") /\ Says(SetMember(t, key, value), key, value)
<1>. DEFINE u == SetMember(t, key, value)
<1>1. AreTokens(u, "member") /\ Named(u, key) \in Members(u) /\ u[Named(u, key)] = Member(key, value)
  BY SetIs DEF HasSet
<1>. HIDE DEF u
<1>2. Members(u) \subseteq Nat \ {0}
  BY <1>1 DEF AreTokens, Members
<1>. QED  BY <1>1, <1>2 DEF Says, u

(* What a text says it says with another member set.                       *)
LEMMA SetLeaves ==
  ASSUME NEW t, AreTokens(t, "member"), NEW key, NEW value,
         NEW other, other # key, NEW said, Says(t, other, said)
  PROVE  Says(SetMember(t, key, value), other, said)
<1>. DEFINE M == Member(key, value)
            X == Member(other, said)
            u == SetMember(t, key, value)
            T == Range(t) \cup {M, Comma}
            p == Named(t, other)
<1>1. t \in Seq(Range(t)) /\ t \in Seq(T) /\ DOMAIN t = 1 .. Len(t) /\ Len(t) \in Nat
  BY DEF AreTokens
<1>2. /\ M.token = "member" /\ M.key = key /\ Comma.token = "comma"
      /\ X.token = "member" /\ X.key = other
  BY DEF Member, Comma
<1>3. /\ p \in DOMAIN t /\ t[p] = X
      /\ \A i \in DOMAIN t : i < p /\ t[i].token = "member" => t[i].key # other
  <2>1. p # 0 /\ t[p] = X
    BY DEF Says
  <2>2. p \in Members(t) /\ \A i \in Members(t) : t[i].key = other => p <= i
    BY <1>1, <2>1, NamedIs
  <2>. HIDE DEF p
  <2>3. p \in DOMAIN t
    BY <2>2 DEF Members
  <2>4. ASSUME NEW i \in DOMAIN t, i < p, t[i].token = "member", t[i].key = other PROVE FALSE
    <3>1. i \in Members(t)
      BY <2>4 DEF Members
    <3>2. p <= i
      BY <2>2, <2>4, <3>1
    <3>. QED  BY <1>1, <2>3, <2>4, <3>2
  <2>. QED  BY <2>1, <2>3, <2>4
<1>. HIDE DEF p
<1>4. AreTokens(u, "member")
  BY SetSays
<1>. HIDE DEF u, M, X
<1>5. u \in Seq(Range(u))
  BY <1>4 DEF AreTokens
<1>6. CASE Named(t, key) # 0
  <2>. DEFINE m == Named(t, key)
  <2>1. m \in Members(t) /\ t[m].key = key
    BY <1>1, <1>6, NamedIs
  <2>2. u = [t EXCEPT ![m].value = value]
    BY <1>6 DEF SetMember, u
  <2>. HIDE DEF m
  <2>3. DOMAIN u = DOMAIN t /\ \A i \in DOMAIN t \ {m} : u[i] = t[i]
    BY <2>2
  <2>4. u[m] = [t[m] EXCEPT !.value = value]
    BY <2>1, <2>2 DEF Members
  <2>5. t[m] = Member(key, t[m].value)
    BY <2>1 DEF AreTokens, Members, Comma, Note, Rule
  <2>6. u[m].key = key
    BY <2>4, <2>5 DEF Member
  <2>7. p # m
    BY <1>2, <1>3, <2>1
  <2>8. u[p] = X /\ p \in DOMAIN u
    BY <1>3, <2>3, <2>7
  <2>9. ASSUME NEW i \in DOMAIN u, i < p, u[i].token = "member" PROVE u[i].key # other
    BY <1>3, <2>3, <2>6, <2>9
  <2>. QED  BY <1>5, <2>8, <2>9, SaysIs DEF X, u
<1>7. CASE Named(t, key) = 0
  <2>1. PICK n, new : Inserts(t, key, value, n, new)
    BY <1>7, SetInserts
  <2>2. n \in 0 .. Len(t) /\ u = Inserted(t, n, new) /\ new \in {<<M>>, <<M, Comma>>, <<Comma, M>>}
    BY <2>1 DEF Inserts, M, u
  <2>3. new \in Seq(T) /\ Len(new) \in {1, 2} /\ \A i \in 1 .. Len(new) : new[i] \in {M, Comma}
    <3>1. M \in T /\ Comma \in T
      OBVIOUS
    <3>. HIDE DEF T
    <3>2. CASE new = <<M>>
      BY <3>1, <3>2
    <3>3. CASE new = <<M, Comma>>
      BY <3>1, <3>3
    <3>4. CASE new = <<Comma, M>>
      BY <3>1, <3>4
    <3>. QED  BY <2>2, <3>2, <3>3, <3>4
  <2>4. Places(u, t, n, new)
    <3>. HIDE DEF T
    <3>. QED  BY <1>1, <2>2, <2>3, InsertedPlaces
  <2>5. /\ DOMAIN u = 1 .. Len(t) + Len(new)
        /\ \A i \in 1 .. n : u[i] = t[i]
        /\ \A i \in n + 1 .. n + Len(new) : u[i] = new[i - n]
        /\ \A i \in n + Len(new) + 1 .. Len(t) + Len(new) : u[i] = t[i - Len(new)]
    BY <2>4 DEF Places
  <2>. DEFINE k == Len(new)
  <2>6. k \in Nat /\ n \in Nat /\ n <= Len(t)
    BY <1>1, <2>2, <2>3
  <2>7. \A i \in n + 1 .. n + k : u[i].token = "member" => u[i].key # other
    <3>1. ASSUME NEW i \in n + 1 .. n + k PROVE u[i] \in {M, Comma}
      <4>1. i - n \in 1 .. k
        BY <2>6
      <4>. QED  BY <2>3, <2>5, <4>1
    <3>. QED  BY <1>2, <3>1
  <2>. HIDE DEF k
  <2>8. CASE p <= n
    <3>1. p \in 1 .. n /\ p \in DOMAIN u
      BY <1>1, <1>3, <2>5, <2>6, <2>8 DEF k
    <3>2. u[p] = X
      BY <1>3, <2>5, <3>1
    <3>3. ASSUME NEW i \in DOMAIN u, i < p, u[i].token = "member" PROVE u[i].key # other
      <4>1. i \in 1 .. n /\ i \in DOMAIN t
        BY <1>1, <2>5, <2>6, <2>8, <3>1, <3>3
      <4>. QED  BY <1>3, <2>5, <3>3, <4>1
    <3>. QED  BY <1>5, <3>1, <3>2, <3>3, SaysIs DEF X, u
  <2>9. CASE p > n
    <3>1. /\ p + k \in n + k + 1 .. Len(t) + k /\ (p + k) - k = p
          /\ p + k \in DOMAIN u
      BY <1>1, <1>3, <2>5, <2>6, <2>9 DEF k
    <3>2. u[p + k] = X
      BY <1>3, <2>5, <3>1 DEF k
    <3>3. ASSUME NEW i \in DOMAIN u, i < p + k, u[i].token = "member" PROVE u[i].key # other
      <4>1. CASE i \in 1 .. n
        <5>1. i \in DOMAIN t /\ i < p
          BY <1>1, <1>3, <2>6, <2>9, <4>1
        <5>. QED  BY <1>3, <2>5, <3>3, <4>1, <5>1
      <4>2. CASE i \in n + 1 .. n + k
        BY <2>7, <3>3, <4>2
      <4>3. CASE i > n + k
        <5>1. i \in n + k + 1 .. Len(t) + k /\ i - k \in DOMAIN t /\ i - k < p
          BY <1>1, <1>3, <2>5, <2>6, <3>3, <4>3 DEF k
        <5>2. u[i] = t[i - k]
          BY <2>5, <5>1 DEF k
        <5>. QED  BY <1>3, <3>3, <5>1, <5>2
      <4>. QED  BY <1>1, <2>5, <2>6, <4>1, <4>2, <4>3 DEF k
    <3>. QED  BY <1>5, <3>1, <3>2, <3>3, SaysIs DEF X, u
  <2>. QED  BY <1>1, <1>3, <2>6, <2>8, <2>9
<1>. QED  BY <1>6, <1>7

AllowedIn(rules, id) ==
  /\ \E x \in Range(rules) : x.token = "rule" /\ x.resource = id
  /\ \E x \in Range(rules) : x.token = "rule" /\ x.effect = "allow"

(* Rules that allow both providers are left alone.                         *)
LEMMA AllowedStays ==
  ASSUME NEW rules, \A id \in {Providers[1], Providers[2]} : AllowedIn(rules, id)
  PROVE  AllowIn(rules, Providers) = rules
<1>. DEFINE told == {t \in Range(rules) : t.token = "rule"}
            Allowed(id) == (\E x \in told : x.resource = id) /\ (\E x \in told : x.effect = "allow")
            Unless(id) == IF Allowed(id) THEN <<>> ELSE <<Rule("allow", id)>>
            both == IF Allowed(Providers[1]) \/ Allowed(Providers[2]) THEN <<>> ELSE <<Comma>>
            new == Unless(Providers[1]) \o both \o Unless(Providers[2])
            content == IF rules # <<>> /\ Last(rules) = Comma THEN Front(rules) ELSE rules
            gap == IF content = <<>> \/ Last(rules).token = "note" THEN <<>> ELSE <<Comma>>
<1>1. Allowed(Providers[1]) /\ Allowed(Providers[2])
  BY DEF AllowedIn
<1>2. Unless(Providers[1]) = <<>> /\ Unless(Providers[2]) = <<>> /\ both = <<>>
  BY <1>1
<1>3. new = <<>>
  <2>. HIDE DEF Unless, both
  <2>1. new = <<>> \o <<>> \o <<>>
    BY <1>2
  <2>. QED  BY <2>1
<1>4. AllowIn(rules, Providers) = IF new = <<>> \/ ~ \E r \in told : r.effect = "deny" THEN rules
                                  ELSE content \o gap \o new
  BY DEF AllowIn
<1>. QED  BY <1>3, <1>4

(* To allow the providers once more changes nothing.                       *)
LEMMA AllowedOnce ==
  ASSUME NEW rules, AreTokens(rules, "rule")
  PROVE  LET X == AllowIn(rules, Providers) IN AllowIn(X, Providers) = X
<1>. DEFINE r == Rule("allow", Providers[1])
            q == Rule("allow", Providers[2])
            T == Range(rules) \cup {Comma, r, q}
            told == {t \in Range(rules) : t.token = "rule"}
            Allowed(id) == (\E x \in told : x.resource = id) /\ (\E x \in told : x.effect = "allow")
            Unless(id) == IF Allowed(id) THEN <<>> ELSE <<Rule("allow", id)>>
            both == IF Allowed(Providers[1]) \/ Allowed(Providers[2]) THEN <<>> ELSE <<Comma>>
            new == Unless(Providers[1]) \o both \o Unless(Providers[2])
            content == IF rules # <<>> /\ Last(rules) = Comma THEN Front(rules) ELSE rules
            gap == IF content = <<>> \/ Last(rules).token = "note" THEN <<>> ELSE <<Comma>>
            denied == \E x \in told : x.effect = "deny"
            X == AllowIn(rules, Providers)
<1>1. rules \in Seq(T) /\ Len(rules) \in Nat /\ r \in T /\ q \in T /\ Comma \in T
  BY DEF AreTokens
<1>2. /\ r.token = "rule" /\ r.effect = "allow" /\ r.resource = Providers[1] /\ r # Comma
      /\ q.token = "rule" /\ q.effect = "allow" /\ q.resource = Providers[2] /\ q # Comma
      /\ Comma.token = "comma"
  BY DEF Rule, Comma
<1>3. /\ Allowed(Providers[1]) \/ r \in Range(new)
      /\ Allowed(Providers[2]) \/ q \in Range(new)
      /\ new \in Seq(T)
  <2>. HIDE DEF Allowed, r, q, T
  <2>0. <<>> \in Seq(T) /\ <<r>> \in Seq(T) /\ <<q>> \in Seq(T)
    BY <1>1
  <2>1. CASE Allowed(Providers[1]) /\ Allowed(Providers[2])
    <3>1. new = <<>>
      BY <2>1 DEF r, q
    <3>. QED  BY <2>0, <2>1, <3>1
  <2>2. CASE Allowed(Providers[1]) /\ ~ Allowed(Providers[2])
    <3>1. new = <<q>>
      BY <2>2 DEF r, q
    <3>. HIDE DEF new
    <3>2. q \in Range(new)
      BY <3>1 DEF Range
    <3>. QED  BY <2>0, <2>2, <3>1, <3>2
  <2>3. CASE ~ Allowed(Providers[1]) /\ Allowed(Providers[2])
    <3>1. new = <<r>>
      BY <2>3 DEF r, q
    <3>. HIDE DEF new
    <3>2. r \in Range(new)
      BY <3>1 DEF Range
    <3>. QED  BY <2>0, <2>3, <3>1, <3>2
  <2>4. CASE ~ Allowed(Providers[1]) /\ ~ Allowed(Providers[2])
    <3>1. new = <<r>> \o <<Comma>> \o <<q>>
      BY <2>4 DEF r, q
    <3>2. <<r>> \o <<Comma>> = <<r, Comma>> /\ <<r, Comma>> \o <<q>> = <<r, Comma, q>>
      BY <1>1, Triple
    <3>3. new = <<r, Comma, q>>
      BY <3>1, <3>2
    <3>. HIDE DEF new
    <3>4. r \in Range(new) /\ q \in Range(new)
      BY <3>3 DEF Range
    <3>5. <<r, Comma, q>> \in Seq(T)
      BY <1>1
    <3>. QED  BY <3>3, <3>4, <3>5
  <2>. QED  BY <2>1, <2>2, <2>3, <2>4
<1>4. X = IF new = <<>> \/ ~ denied THEN rules ELSE content \o gap \o new
  BY DEF AllowIn
<1>5. CASE new = <<>> \/ ~ denied
  <2>1. X = rules
    BY <1>4, <1>5
  <2>. HIDE DEF X
  <2>2. AllowIn(X, Providers) = X
    BY <2>1 DEF X
  <2>. QED  BY <2>2 DEF X
<1>6. CASE new # <<>> /\ denied
  <2>1. X = (content \o gap) \o new
    BY <1>4, <1>6
  <2>2. rules # <<>>
    BY <1>6 DEF Range
  <2>. HIDE DEF T, new, r, q
  <2>3. content \in Seq(T)
    BY <1>1, <2>2 DEF Front
  <2>4. gap \in Seq(T)
    BY <1>1
  <2>. HIDE DEF content, gap
  <2>5. content \o gap \in Seq(T)
    BY <2>3, <2>4
  <2>6. \A x \in Range(new) : x \in Range(X)
    <3>. DEFINE p == content \o gap
    <3>. HIDE DEF p
    <3>1. /\ DOMAIN new = 1 .. Len(new) /\ Len(p) \in Nat /\ DOMAIN X = 1 .. Len(p) + Len(new)
          /\ \A i \in 1 .. Len(new) : X[Len(p) + i] = new[i]
      <4>1. p \in Seq(T) /\ new \in Seq(T) /\ X = p \o new
        BY <1>3, <2>1, <2>5 DEF p
      <4>. HIDE DEF X
      <4>. QED  BY ONLY <4>1, ConcatPlaces
    <3>. HIDE DEF X
    <3>2. Len(new) \in Nat
      BY <1>3
    <3>3. ASSUME NEW i \in DOMAIN new PROVE new[i] \in Range(X)
      <4>1. Len(p) + i \in DOMAIN X /\ i \in 1 .. Len(new)
        BY <3>1, <3>2
      <4>. QED  BY <3>1, <4>1 DEF Range
    <3>. QED  BY <3>3 DEF Range
  <2>7. \A x \in Range(rules) : x # Comma => x \in Range(X)
    BY RulesAllowed
  <2>. HIDE DEF X
  <2>8. \A x \in told : x \in Range(X)
    BY <1>2, <2>7
  <2>9. AllowedIn(X, Providers[1])
    <3>1. CASE Allowed(Providers[1])
      BY <2>8, <3>1 DEF AllowedIn
    <3>2. CASE r \in Range(new)
      BY <1>2, <2>6, <3>2 DEF AllowedIn
    <3>. QED  BY <1>3, <3>1, <3>2
  <2>10. AllowedIn(X, Providers[2])
    <3>1. CASE Allowed(Providers[2])
      BY <2>8, <3>1 DEF AllowedIn
    <3>2. CASE q \in Range(new)
      BY <1>2, <2>6, <3>2 DEF AllowedIn
    <3>. QED  BY <1>3, <3>1, <3>2
  <2>11. AllowIn(X, Providers) = X
    BY <2>9, <2>10, AllowedStays
  <2>. QED  BY <2>11 DEF X
<1>. QED  BY <1>5, <1>6

(* A provider that is set is said among the providers, and the other one stays. *)
LEMMA ProviderSays ==
  ASSUME NEW t, AreMembers(t), Listable(t), NEW id \in {Providers[1], Providers[2]}, NEW value,
         NEW Y, Named(t, "providers") # 0 => Y = t[Named(t, "providers")].value.tokens
  PROVE  \E X : /\ SetProvider(t, id, value) = SetMember(t, "providers", Nested(X))
                /\ AreTokens(X, "member") /\ Says(X, id, value)
                /\ Named(t, "providers") # 0 => \A other, said : other # id /\ Says(Y, other, said) => Says(X, other, said)
<1>. DEFINE n == Named(t, "providers")
            M == Member(id, value)
<1>1. /\ M.token = "member" /\ M.key = id /\ M # Comma /\ M = Member(M.key, M.value)
  BY DEF Member, Comma
<1>2. CASE n = 0
  <2>. DEFINE X == <<M>>
  <2>1. SetProvider(t, id, value) = SetMember(t, "providers", Nested(X))
    BY <1>2 DEF SetProvider
  <2>2. DOMAIN X = {1} /\ X[1] = M /\ X \in Seq({M})
    OBVIOUS
  <2>. HIDE DEF X, M
  <2>3. X \in Seq(Range(X))
    BY <2>2, RangeIs
  <2>4. AreTokens(X, "member")
    BY <1>1, <2>2, <2>3 DEF AreTokens
  <2>5. Says(X, id, value)
    <3>1. X[1] = Member(id, value) /\ 1 \in DOMAIN X /\ \A i \in DOMAIN X : ~ (i < 1)
      BY <2>2 DEF M
    <3>. QED  BY <2>3, <3>1, SaysIs
  <2>. QED  BY <1>2, <2>1, <2>4, <2>5
<1>3. CASE n # 0
  <2>. DEFINE X == SetMember(Y, id, value)
  <2>1. n \in Members(t) /\ t[n].key = "providers" /\ t[n].value.is = "nested"
    BY <1>3, NamedIs DEF AreMembers, AreTokens, Listable
  <2>2. Y = t[n].value.tokens
    BY <1>3
  <2>3. AreTokens(Y, "member")
    BY <2>1, <2>2 DEF AreMembers
  <2>4. SetProvider(t, id, value) = [t EXCEPT ![n].value.tokens = X]
    BY <1>3, <2>2 DEF SetProvider
  <2>5. AreTokens(X, "member") /\ Says(X, id, value)
    BY <2>3, SetSays
  <2>6. \A other, said : other # id /\ Says(Y, other, said) => Says(X, other, said)
    BY <2>3, SetLeaves
  <2>. HIDE DEF X, n
  <2>7. SetProvider(t, id, value) = SetMember(t, "providers", Nested(X))
    BY <1>3, <2>1, <2>4, ReplaceTokens DEF n
  <2>. QED  BY <2>5, <2>6, <2>7
<1>. QED  BY <1>2, <1>3

(* To put in what is there changes nothing.                                *)
LEMMA TokensSame ==
  ASSUME NEW t, t \in Seq(Range(t)), NEW key, NEW X, Says(t, key, Nested(X))
  PROVE  /\ t[Named(t, key)].value = Nested(X) /\ t[Named(t, key)].value.is = "nested"
         /\ t[Named(t, key)].value.tokens = X
         /\ [t EXCEPT ![Named(t, key)].value.tokens = X] = t
<1>. DEFINE n == Named(t, key)
            u == [t EXCEPT ![n].value.tokens = X]
            new == [t[n] EXCEPT !.value = [t[n].value EXCEPT !.tokens = X]]
<1>1. t[n] = Member(key, Nested(X))
  BY DEF Says
<1>2. t[n].value = Nested(X) /\ t[n].value.is = "nested" /\ t[n].value.tokens = X
  BY <1>1 DEF Member, Nested
<1>3. [t[n].value EXCEPT !.tokens = X] = Nested(X)
  BY <1>2 DEF Nested
<1>4. new = t[n]
  BY <1>1, <1>3 DEF Member
<1>. HIDE DEF n
<1>5. u = [t EXCEPT ![n] = new]
  OBVIOUS
<1>. HIDE DEF new, u
<1>6. u = [i \in DOMAIN t |-> IF i = n THEN new ELSE t[i]]
  BY <1>5
<1>7. t = [i \in DOMAIN t |-> t[i]]
  OBVIOUS
<1>8. u = t
  BY <1>4, <1>6, <1>7
<1>. QED  BY <1>2, <1>8 DEF n, u

(* To set a provider that is said changes nothing.                         *)
LEMMA ProviderSame ==
  ASSUME NEW t, t \in Seq(Range(t)), NEW X, X \in Seq(Range(X)), Says(t, "providers", Nested(X)),
         NEW id, NEW value, Says(X, id, value)
  PROVE  SetProvider(t, id, value) = t
<1>. DEFINE n == Named(t, "providers")
<1>1. n # 0
  BY DEF Says
<1>2. t[n].value.tokens = X /\ [t EXCEPT ![n].value.tokens = X] = t
  BY TokensSame
<1>3. SetMember(X, id, value) = X
  BY SetSame
<1>4. SetProvider(t, id, value) = [t EXCEPT ![n].value.tokens = SetMember(t[n].value.tokens, id, value)]
  BY <1>1 DEF SetProvider
<1>. HIDE DEF n
<1>. QED  BY <1>2, <1>3, <1>4

(* The edit of the policies is done at once and leaves the other members.  *)
LEMMA PoliciesSay ==
  ASSUME NEW t, AreMembers(t)
  PROVE  LET u == AddPolicyAllows(t, Providers)
         IN /\ u \in Seq(Range(u))
            /\ AddPolicyAllows(u, Providers) = u
            /\ \A key, value : key # "policies" /\ Says(t, key, value) => Says(u, key, value)
<1>. DEFINE key == "policies"
            n == Named(t, key)
            T == t[n].value.tokens
            X == AllowIn(T, Providers)
            u == AddPolicyAllows(t, Providers)
<1>0. AreTokens(t, "member") /\ t \in Seq(Range(t))
  BY DEF AreMembers, AreTokens
<1>1. CASE n = 0 \/ t[n].value.is # "nested"
  <2>1. u = t
    BY <1>1 DEF AddPolicyAllows
  <2>. QED  BY <1>0, <2>1
<1>2. CASE n # 0 /\ t[n].value.is = "nested"
  <2>1. u = [t EXCEPT ![n].value.tokens = X]
    BY <1>2 DEF AddPolicyAllows
  <2>2. n \in Members(t) /\ t[n].key = key
    BY <1>0, <1>2, NamedIs
  <2>3. AreTokens(T, "member") \/ AreTokens(T, "rule")
    BY <1>2, <2>2 DEF AreMembers
  <2>4. AllowIn(X, Providers) = X
    <3>1. CASE AreTokens(T, "rule")
      <4>. HIDE DEF T
      <4>. QED  BY <3>1, AllowedOnce
    <3>2. CASE AreTokens(T, "member")
      <4>. HIDE DEF T
      <4>1. ~ \E x \in Range(T) : x.token = "rule"
        BY <3>2 DEF AreTokens, Range, Comma, Note, Member
      <4>2. X = T
        BY <4>1 DEF AllowIn
      <4>. HIDE DEF X
      <4>. QED  BY <4>2 DEF X
    <3>. QED  BY <2>3, <3>1, <3>2
  <2>. HIDE DEF T, X, u
  <2>5. u = SetMember(t, key, Nested(X))
    BY <1>2, <2>1, ReplaceTokens
  <2>6. AreTokens(u, "member") /\ Says(u, key, Nested(X))
    BY <1>0, <2>5, SetSays
  <2>7. \A other, value : other # key /\ Says(t, other, value) => Says(u, other, value)
    BY <1>0, <2>5, SetLeaves
  <2>8. u \in Seq(Range(u))
    BY <2>6 DEF AreTokens
  <2>. DEFINE m == Named(u, key)
  <2>9. u[m].value.is = "nested" /\ u[m].value.tokens = X /\ [u EXCEPT ![m].value.tokens = X] = u
    BY <2>6, <2>8, TokensSame
  <2>10. m # 0
    BY <2>6 DEF Says
  <2>11. AddPolicyAllows(u, Providers) = [u EXCEPT ![m].value.tokens = AllowIn(u[m].value.tokens, Providers)]
    BY <2>9, <2>10 DEF AddPolicyAllows
  <2>. HIDE DEF m
  <2>12. AddPolicyAllows(u, Providers) = u
    BY <2>4, <2>9, <2>11
  <2>. QED  BY <2>7, <2>8, <2>12 DEF u
<1>. QED  BY <1>1, <1>2

(* The providers of the proxy, as a run with these options writes them.    *)
SaysProviders(t, o) ==
  \E X : /\ X \in Seq(Range(X)) /\ Says(t, "providers", Nested(X))
         /\ Says(X, Providers[1], Provider(o.port, ModelsFor(o, "gpt")))
         /\ Says(X, Providers[2], Provider(o.port, ModelsFor(o, "claude")))

(* The edit of opencode.jsonc, done once more, changes nothing, and the text says *)
(* the providers of the proxy.                                             *)
LEMMA JsoncSettled ==
  ASSUME NEW t0, AreMembers(t0), NEW o, NEW old, old # Broken,
         t0 = IF old = Missing \/ old.kind = "bare" THEN <<>> ELSE old.tokens,
         PatchJSONC(old, o) # Broken
  PROVE  \E u : /\ PatchJSONC(old, o) = Jsonc(u) /\ PatchJSONC(Jsonc(u), o) = Jsonc(u)
                /\ SaysProviders(u, o)
<1>. DEFINE gpt == ModelsFor(o, "gpt")
            p1 == Provider(o.port, gpt)
            p2 == Provider(o.port, ModelsFor(o, "claude"))
            schema == SetMember(t0, "$schema", Plain("opencode"))
            model == IF gpt = <<>> THEN schema ELSE SetMember(schema, "model", Plain(Head(gpt)))
            openai == SetProvider(model, Providers[1], p1)
            both == SetProvider(openai, Providers[2], p2)
            u == AddPolicyAllows(both, Providers)
            Plains(t) == /\ Says(t, "$schema", Plain("opencode"))
                         /\ gpt # <<>> => Says(t, "model", Plain(Head(gpt)))
<1>1. \A key, text : IsValueOf(key, Plain(text))
  BY DEF IsValueOf, Plain
<1>2. AreMembers(schema) /\ Says(schema, "$schema", Plain("opencode"))
  BY <1>1, SetKeeps, SetSays DEF AreMembers
<1>3. AreMembers(model) /\ Plains(model)
  <2>1. CASE gpt = <<>>
    BY <1>2, <2>1
  <2>2. CASE gpt # <<>>
    <3>. HIDE DEF schema
    <3>. DEFINE w == SetMember(schema, "model", Plain(Head(gpt)))
    <3>1. AreTokens(schema, "member")
      BY <1>2 DEF AreMembers
    <3>2. AreMembers(w)
      BY <1>1, <1>2, SetKeeps
    <3>3. Says(w, "model", Plain(Head(gpt)))
      BY <3>1, SetSays
    <3>4. Says(w, "$schema", Plain("opencode"))
      BY <1>2, <3>1, SetLeaves
    <3>5. model = w
      BY <2>2
    <3>. HIDE DEF model, w
    <3>. QED  BY <3>2, <3>3, <3>4, <3>5
  <2>. QED  BY <2>1, <2>2
<1>4. /\ ~ (Named(model, "providers") # 0 /\ model[Named(model, "providers")].value.is # "nested")
      /\ PatchJSONC(old, o) = Jsonc(u)
  BY DEF PatchJSONC
<1>. HIDE DEF model, gpt, p1, p2, Plains
<1>5. Listable(model)
  BY <1>4 DEF Listable
<1>6. PICK X1 : openai = SetMember(model, "providers", Nested(X1)) /\ AreTokens(X1, "member") /\ Says(X1, Providers[1], p1)
  BY <1>3, <1>5, ProviderSays
<1>7. AreMembers(openai) /\ Says(openai, "providers", Nested(X1)) /\ Plains(openai)
  <2>1. IsValueOf("providers", Nested(X1))
    BY <1>6 DEF IsValueOf, Nested
  <2>2. AreTokens(model, "member")
    BY <1>3 DEF AreMembers
  <2>. HIDE DEF openai
  <2>3. AreMembers(openai) /\ Says(openai, "providers", Nested(X1))
    BY <1>3, <1>6, <2>1, <2>2, SetKeeps, SetSays
  <2>4. Plains(openai)
    BY <1>3, <1>6, <2>2, SetLeaves DEF Plains
  <2>. QED  BY <2>3, <2>4
<1>. HIDE DEF openai
<1>8. openai \in Seq(Range(openai)) /\ AreTokens(openai, "member")
  BY <1>7 DEF AreMembers, AreTokens
<1>9. Listable(openai) /\ Named(openai, "providers") # 0 /\ openai[Named(openai, "providers")].value.tokens = X1
  BY <1>7, <1>8, TokensSame DEF Listable, Says
<1>10. Providers[1] # Providers[2]
  BY DEF Providers
<1>11. PICK X2 : /\ both = SetMember(openai, "providers", Nested(X2)) /\ AreTokens(X2, "member")
                 /\ Says(X2, Providers[2], p2) /\ Says(X2, Providers[1], p1)
  <2>1. \E X : /\ both = SetMember(openai, "providers", Nested(X))
               /\ AreTokens(X, "member") /\ Says(X, Providers[2], p2)
               /\ Named(openai, "providers") # 0 =>
                    \A other, said : other # Providers[2] /\ Says(X1, other, said) => Says(X, other, said)
    BY <1>7, <1>9, ProviderSays
  <2>. QED  BY <1>6, <1>9, <1>10, <2>1
<1>12. AreMembers(both) /\ Says(both, "providers", Nested(X2)) /\ Plains(both)
  <2>1. IsValueOf("providers", Nested(X2))
    BY <1>11 DEF IsValueOf, Nested
  <2>. HIDE DEF both
  <2>2. AreMembers(both) /\ Says(both, "providers", Nested(X2))
    BY <1>7, <1>8, <1>11, <2>1, SetKeeps, SetSays
  <2>3. Plains(both)
    BY <1>7, <1>8, <1>11, SetLeaves DEF Plains
  <2>. QED  BY <2>2, <2>3
<1>. HIDE DEF both
<1>13. /\ u \in Seq(Range(u)) /\ AddPolicyAllows(u, Providers) = u
       /\ \A key, value : key # "policies" /\ Says(both, key, value) => Says(u, key, value)
  BY <1>12, PoliciesSay
<1>. HIDE DEF u
<1>14. Says(u, "providers", Nested(X2)) /\ Plains(u)
  BY <1>12, <1>13 DEF Plains
<1>15. X2 \in Seq(Range(X2))
  BY <1>11 DEF AreTokens
<1>16. SetMember(u, "$schema", Plain("opencode")) = u
  BY <1>13, <1>14, SetSame DEF Plains
<1>17. gpt # <<>> => SetMember(u, "model", Plain(Head(gpt))) = u
  BY <1>13, <1>14, SetSame DEF Plains
<1>18. SetProvider(u, Providers[1], p1) = u /\ SetProvider(u, Providers[2], p2) = u
  BY <1>11, <1>13, <1>14, <1>15, ProviderSame
<1>19. u[Named(u, "providers")].value.is = "nested"
  BY <1>13, <1>14, TokensSame
<1>20. Jsonc(u) # Broken /\ Jsonc(u) # Missing /\ Jsonc(u).kind # "bare" /\ Jsonc(u).tokens = u
  BY DEF Jsonc, Broken, Missing
<1>21. PatchJSONC(Jsonc(u), o) = Jsonc(u)
  <2>. DEFINE v == Jsonc(u)
              a == SetMember(v.tokens, "$schema", Plain("opencode"))
              b == IF gpt = <<>> THEN a ELSE SetMember(a, "model", Plain(Head(gpt)))
              c == SetProvider(b, Providers[1], p1)
              d == SetProvider(c, Providers[2], p2)
  <2>1. PatchJSONC(v, o) = IF Named(b, "providers") # 0 /\ b[Named(b, "providers")].value.is # "nested" THEN Broken
                           ELSE Jsonc(AddPolicyAllows(d, Providers))
    BY <1>20 DEF PatchJSONC, gpt, p1, p2
  <2>2. a = u
    BY <1>16, <1>20
  <2>. HIDE DEF a, v
  <2>3. b = u
    BY <1>17, <2>2
  <2>. HIDE DEF b
  <2>4. c = u
    BY <1>18, <2>3
  <2>. HIDE DEF c
  <2>5. d = u
    BY <1>18, <2>4
  <2>. HIDE DEF d
  <2>6. PatchJSONC(v, o) = Jsonc(u)
    BY <1>13, <1>19, <2>1, <2>3, <2>5
  <2>. QED  BY <2>6 DEF v
<1>22. SaysProviders(u, o)
  BY <1>11, <1>14, <1>15 DEF SaysProviders, p1, p2, gpt
<1>. QED  BY <1>4, <1>21, <1>22

(* The lines p and q, joined, and where each of them is.                   *)
Joined(u, p, q) ==
  /\ AreLines(u) /\ Len(u) = Len(p) + Len(q) /\ DOMAIN u = 1 .. Len(u)
  /\ Len(p) \in Nat /\ Len(q) \in Nat /\ Len(u) \in Nat
  /\ DOMAIN p = 1 .. Len(p) /\ DOMAIN q = 1 .. Len(q)
  /\ \A i \in 1 .. Len(p) : u[i] = p[i]
  /\ \A i \in 1 .. Len(q) : u[Len(p) + i] = q[i]
  /\ SubSeq(u, 1, Len(p)) = p /\ SubSeq(u, Len(p) + 1, Len(u)) = q

(* Such lines are cut at their seam.                                       *)
LEMMA CutJoin ==
  ASSUME NEW p, AreLines(p), NEW q, AreLines(q), NEW u, u = p \o q
  PROVE  Joined(u, p, q)
<1>. DEFINE T == Range(p) \cup Range(q)
            m == Len(p)
            a == SubSeq(u, 1, m)
            c == SubSeq(u, m + 1, Len(u))
<1>1. p \in Seq(T) /\ q \in Seq(T)
  <2>1. p \in Seq(Range(p)) /\ q \in Seq(Range(q))
    BY DEF AreLines
  <2>. QED  BY <2>1
<1>. HIDE DEF T
<1>2. AreLines(u)
  BY LinesJoin
<1>3. /\ u \in Seq(T) /\ Len(u) = m + Len(q) /\ DOMAIN u = 1 .. m + Len(q)
      /\ DOMAIN p = 1 .. m /\ DOMAIN q = 1 .. Len(q) /\ m \in Nat /\ Len(q) \in Nat
      /\ \A i \in 1 .. m : u[i] = p[i]
      /\ \A i \in 1 .. Len(q) : u[m + i] = q[i]
  <2>. DEFINE w == p \o q
  <2>1. /\ w \in Seq(T) /\ Len(w) = m + Len(q) /\ DOMAIN w = 1 .. m + Len(q)
        /\ DOMAIN p = 1 .. m /\ DOMAIN q = 1 .. Len(q) /\ m \in Nat /\ Len(q) \in Nat
        /\ \A i \in 1 .. m : w[i] = p[i]
        /\ \A i \in 1 .. Len(q) : w[m + i] = q[i]
    BY <1>1, ConcatPlaces
  <2>2. u = w
    OBVIOUS
  <2>. HIDE DEF w, m
  <2>. QED  BY <2>1, <2>2
<1>. HIDE DEF m
<1>4. m \in 0 .. Len(u) /\ Len(u) - m = Len(q)
  BY <1>3
<1>5. /\ a \in Seq(T) /\ Len(a) = m /\ \A i \in 1 .. m : a[i] = u[i]
      /\ c \in Seq(T) /\ Len(c) = Len(u) - m /\ \A i \in 1 .. Len(u) - m : c[i] = u[m + i]
  BY <1>3, <1>4, SplitPlaces
<1>. HIDE DEF a, c
<1>6. a = p
  BY <1>1, <1>3, <1>5, SameSequence DEF m
<1>7. c = q
  <2>1. \A i \in 1 .. Len(q) : c[i] = q[i]
    BY <1>3, <1>4, <1>5
  <2>. QED  BY <1>1, <1>4, <1>5, <2>1, SameSequence
<1>. QED  BY <1>2, <1>3, <1>6, <1>7 DEF m, a, c, Joined

(* Joined texts, however they are grouped.                                 *)
LEMMA JoinAgain ==
  ASSUME NEW a, AreLines(a), NEW b, AreLines(b), NEW c, AreLines(c)
  PROVE  (a \o b) \o c = a \o (b \o c)
<1>. DEFINE T == Range(a) \cup Range(b) \cup Range(c)
<1>1. a \in Seq(Range(a)) /\ b \in Seq(Range(b)) /\ c \in Seq(Range(c))
  BY DEF AreLines
<1>2. a \in Seq(T) /\ b \in Seq(T) /\ c \in Seq(T)
  BY <1>1
<1>. HIDE DEF T
<1>. QED  BY ONLY <1>2, ConcatAssociative

-----------------------------------------------------------------------------
(* A text with the section s in it, the first of its name.                 *)
Sectioned(u, s, a, c) ==
  /\ u = (a \o s) \o c
  /\ AreLines(a) /\ AreLines(c) /\ Headed(c)
  /\ Header(Managed) \notin Headings(a)

(* The section has one header.                                             *)
LEMMA OneHeader ==
  ASSUME NEW s, Section(s), ValidToml(s), NEW i \in DOMAIN s, i # 1
  PROVE  s[i].line # "header"
<1>1. 1 \in DOMAIN s /\ i \in Nat /\ 1 < i /\ s[1] = Header(Managed) /\ Header(Managed).line = "header"
  BY DEF Section, AreLines, Header
<1>2. s[1].line = "header" /\ s[i].line = "header" => s[1] # s[i]
  BY <1>1 DEF ValidToml
<1>. QED  BY <1>1, <1>2 DEF Section

(* patchSection puts the section in such a place,                          *)
LEMMA SectionMade ==
  ASSUME NEW t, AreLines(t), NEW s, Section(s)
  PROVE  \E a, c : Sectioned(PatchSection(t, Header(Managed), s), s, a, c)
<1>. DEFINE n == SectionAt(t)
            e == HeaderFrom(t, n + 1)
            u == PatchSection(t, Header(Managed), s)
<1>1. Len(t) \in Nat /\ DOMAIN t = 1 .. Len(t) /\ t \in Seq(Range(t)) /\ AreLines(s)
  BY DEF AreLines, Section
<1>2. /\ n \in Nat /\ n >= 1
      /\ n <= Len(t) => t[n] = Header(Managed)
      /\ n > Len(t) => Header(Managed) \notin Headings(t)
      /\ \A i \in 1 .. Len(t) : t[i] = Header(Managed) => n <= i
  BY SectionAtIs
<1>3. u = IF n > Len(t)
            THEN IF t # <<>> /\ Last(t) # Blank THEN t \o <<Blank>> \o s ELSE t \o s
            ELSE SubSeq(t, 1, n - 1) \o s \o SubSeq(t, e, Len(t))
  BY DEF PatchSection, SectionAt, HeaderFrom
<1>. HIDE DEF u, n
<1>4. CASE n > Len(t)
  <2>1. ASSUME NEW v, AreLines(v), Header(Managed) \notin Headings(v)
        PROVE  Sectioned(v \o s, s, v, <<>>)
    <3>1. AreLines(<<>>)
      BY NoLines
    <3>2. AreLines(v \o s)
      BY <1>1, <2>1, LinesJoin
    <3>3. (v \o s) \o <<>> = v \o s
      <4>. DEFINE w == v \o s
      <4>1. w \in Seq(Range(w))
        BY <3>2 DEF AreLines
      <4>. HIDE DEF w
      <4>2. w \o <<>> = w
        BY <4>1
      <4>. QED  BY <4>2 DEF w
    <3>4. Headed(<<>>)
      BY DEF Headed
    <3>. QED  BY <2>1, <3>1, <3>3, <3>4 DEF Sectioned
  <2>2. AreLines(<<Blank>>) /\ DOMAIN <<Blank>> = {1} /\ <<Blank>>[1] = Blank
    <3>. DEFINE b == <<Blank>>
    <3>1. b \in Seq({Blank}) /\ DOMAIN b = {1} /\ b[1] = Blank
      OBVIOUS
    <3>. HIDE DEF b
    <3>2. b \in Seq(Range(b))
      BY <3>1, RangeIs
    <3>3. AreLines(b)
      BY <3>1, <3>2 DEF AreLines, IsLine
    <3>. QED  BY <3>1, <3>3 DEF b
  <2>3. AreLines(t \o <<Blank>>) /\ Header(Managed) \notin Headings(t \o <<Blank>>)
    BY <1>2, <1>4, <2>2, AndBlank
  <2>4. u = (t \o <<Blank>>) \o s \/ u = t \o s
    BY <1>3, <1>4
  <2>5. \E a, c : Sectioned(u, s, a, c)
    BY <1>2, <1>4, <2>1, <2>3, <2>4
  <2>. QED  BY <2>5 DEF u
<1>5. CASE ~ (n > Len(t))
  <2>1. n \in 1 .. Len(t) /\ n + 1 \in 1 .. Len(t) + 1
    BY <1>1, <1>2, <1>5
  <2>2. /\ e \in n + 1 .. Len(t) + 1
        /\ e <= Len(t) => t[e].line = "header"
    BY <2>1, HeaderFromIs
  <2>. HIDE DEF e
  <2>. DEFINE a == SubSeq(t, 1, n - 1)
              c == SubSeq(t, e, Len(t))
  <2>3. e - 1 \in 0 .. Len(t) /\ (e - 1) + 1 = e /\ n - 1 \in 0 .. Len(t)
    BY <1>1, <2>1, <2>2
  <2>4. AreLines(a) /\ AreLines(c)
    BY <2>3, LinesSplit
  <2>5. /\ DOMAIN a = 1 .. n - 1 /\ \A i \in 1 .. n - 1 : a[i] = t[i]
        /\ DOMAIN c = 1 .. Len(t) - (e - 1)
        /\ \A i \in 1 .. Len(t) - (e - 1) : c[i] = t[(e - 1) + i]
    <3>1. DOMAIN a = 1 .. n - 1 /\ \A i \in 1 .. n - 1 : a[i] = t[i]
      BY <1>1, <2>3, SplitPlaces
    <3>2. /\ DOMAIN c = 1 .. Len(t) - (e - 1)
          /\ \A i \in 1 .. Len(t) - (e - 1) : c[i] = t[(e - 1) + i]
      BY <1>1, <2>3, SplitPlaces
    <3>. QED  BY <3>1, <3>2
  <2>6. u = (a \o s) \o c
    BY <1>3, <1>5
  <2>. HIDE DEF a, c
  <2>7. Headed(c)
    <3>1. ASSUME NEW i \in DOMAIN c PROVE c[1].line = "header"
      <4>1. e <= Len(t) /\ (e - 1) + 1 = e /\ 1 \in 1 .. Len(t) - (e - 1)
        BY <1>1, <2>2, <2>5
      <4>. QED  BY <2>2, <2>5, <4>1
    <3>. QED  BY <3>1 DEF Headed
  <2>8. Header(Managed) \notin Headings(a)
    <3>1. ASSUME NEW i \in DOMAIN a, a[i] = Header(Managed) PROVE FALSE
      <4>1. i \in 1 .. Len(t) /\ ~ (n <= i) /\ t[i] = Header(Managed)
        BY <1>1, <2>1, <2>5, <3>1
      <4>. QED  BY <1>2, <4>1
    <3>. QED  BY <3>1 DEF Headings, Range
  <2>9. Sectioned(u, s, a, c)
    BY <2>4, <2>6, <2>7, <2>8 DEF Sectioned
  <2>. QED  BY <2>9 DEF u
<1>. QED  BY <1>4, <1>5

(* and leaves it there.                                                    *)
LEMMA SectionSettled ==
  ASSUME NEW u, NEW s, Section(s), ValidToml(s), NEW a, NEW c, Sectioned(u, s, a, c)
  PROVE  PatchSection(u, Header(Managed), s) = u
<1>. DEFINE n == SectionAt(u)
            e == HeaderFrom(u, n + 1)
            m == Len(a)
            k == Len(s)
            b == a \o s
<1>1. AreLines(a) /\ AreLines(s) /\ AreLines(c)
  BY DEF Sectioned, Section
<1>0. b = a \o s
  OBVIOUS
<1>. HIDE DEF b
<1>2. /\ AreLines(b) /\ Len(b) = m + k /\ m \in Nat /\ k \in Nat /\ DOMAIN a = 1 .. m /\ DOMAIN s = 1 .. k
      /\ (\A i \in 1 .. m : b[i] = a[i]) /\ (\A i \in 1 .. k : b[m + i] = s[i])
      /\ SubSeq(b, 1, m) = a
  <2>1. AreLines(a) /\ AreLines(s)
    BY <1>1
  <2>2. /\ AreLines(b) /\ Len(b) = Len(a) + Len(s)
        /\ Len(a) \in Nat /\ Len(s) \in Nat
        /\ DOMAIN a = 1 .. Len(a) /\ DOMAIN s = 1 .. Len(s)
        /\ \A i \in 1 .. Len(a) : b[i] = a[i]
        /\ \A i \in 1 .. Len(s) : b[Len(a) + i] = s[i]
        /\ SubSeq(b, 1, Len(a)) = a
    <3>1. Joined(b, a, s)
      BY ONLY <1>0, <2>1, CutJoin
    <3>. QED  BY ONLY <3>1 DEF Joined
  <2>. QED  BY <2>2
<1>3. u = b \o c
  BY <1>0 DEF Sectioned
<1>4. /\ AreLines(u) /\ Len(u) = Len(b) + Len(c) /\ DOMAIN u = 1 .. Len(u) /\ Len(u) \in Nat
      /\ Len(c) \in Nat /\ DOMAIN c = 1 .. Len(c)
      /\ (\A i \in 1 .. Len(b) : u[i] = b[i]) /\ (\A i \in 1 .. Len(c) : u[Len(b) + i] = c[i])
      /\ SubSeq(u, 1, Len(b)) = b /\ SubSeq(u, Len(b) + 1, Len(u)) = c
  <2>1. AreLines(b) /\ AreLines(c)
    BY <1>1, <1>2
  <2>2. /\ AreLines(u) /\ Len(u) = Len(b) + Len(c) /\ DOMAIN u = 1 .. Len(u)
        /\ Len(c) \in Nat /\ Len(u) \in Nat /\ DOMAIN c = 1 .. Len(c)
        /\ \A i \in 1 .. Len(b) : u[i] = b[i]
        /\ \A i \in 1 .. Len(c) : u[Len(b) + i] = c[i]
        /\ SubSeq(u, 1, Len(b)) = b /\ SubSeq(u, Len(b) + 1, Len(u)) = c
    <3>1. Joined(u, b, c)
      BY ONLY <1>3, <2>1, CutJoin
    <3>. QED  BY ONLY <3>1 DEF Joined
  <2>. QED  BY <2>2
<1>5. PatchSection(u, Header(Managed), s)
        = IF n > Len(u)
            THEN IF u # <<>> /\ Last(u) # Blank THEN u \o <<Blank>> \o s ELSE u \o s
            ELSE SubSeq(u, 1, n - 1) \o s \o SubSeq(u, e, Len(u))
  BY DEF PatchSection, SectionAt, HeaderFrom
<1>6. Header(Managed).line = "header" /\ 1 \in 1 .. k /\ s[1] = Header(Managed)
  BY <1>2 DEF Header, Section
<1>7. /\ n \in Nat /\ n >= 1
      /\ n <= Len(u) => u[n] = Header(Managed)
      /\ \A i \in 1 .. Len(u) : u[i] = Header(Managed) => n <= i
  BY <1>4, SectionAtIs
<1>. HIDE DEF n, m, k
<1>8. /\ \A i \in 1 .. m : i \in 1 .. Len(u) /\ u[i] = a[i]
      /\ \A i \in 1 .. k : m + i \in 1 .. Len(u) /\ u[m + i] = s[i]
      /\ Len(u) = m + k + Len(c)
  <2>1. \A i \in 1 .. m : i \in 1 .. Len(b) /\ i \in 1 .. Len(u)
    BY <1>2, <1>4
  <2>2. ASSUME NEW i \in 1 .. k PROVE m + i \in 1 .. Len(b) /\ m + i \in 1 .. Len(u)
    <3>1. m \in Nat /\ k \in Nat /\ Len(c) \in Nat /\ Len(b) = m + k /\ Len(u) = m + k + Len(c)
      BY <1>2, <1>4
    <3>. QED  BY ONLY <3>1
  <2>. QED  BY <1>2, <1>4, <2>1, <2>2
<1>9. n = m + 1
  <2>1. u[m + 1] = Header(Managed) /\ m + 1 \in 1 .. Len(u)
    BY <1>6, <1>8
  <2>2. n <= m + 1
    BY <1>7, <2>1
  <2>3. ASSUME n <= m PROVE FALSE
    <3>1. n \in 1 .. m
      BY <1>2, <1>7, <2>3
    <3>2. a[n] = Header(Managed)
      BY <1>4, <1>7, <1>8, <3>1
    <3>. QED  BY <1>2, <1>6, <3>1, <3>2 DEF Sectioned, Headings, Range
  <2>. QED  BY <1>2, <1>7, <2>2, <2>3
<1>10. e = m + k + 1
  <2>1. n + 1 \in 1 .. Len(u) + 1
    BY <1>2, <1>4, <1>6, <1>8, <1>9
  <2>2. /\ e \in n + 1 .. Len(u) + 1
        /\ e <= Len(u) => u[e].line = "header"
        /\ \A i \in n + 1 .. Len(u) : i < e => u[i].line # "header"
    BY <1>4, <2>1, HeaderFromIs
  <2>. HIDE DEF e
  <2>3. ASSUME e < m + k + 1 PROVE FALSE
    <3>1. e - m \in 1 .. k /\ m + (e - m) = e /\ e - m # 1 /\ e <= Len(u)
      BY <1>2, <1>4, <1>8, <1>9, <2>2, <2>3
    <3>2. s[e - m].line = "header"
      BY <1>8, <2>2, <3>1
    <3>. QED  BY <1>2, <3>1, <3>2, OneHeader
  <2>4. ASSUME e > m + k + 1 PROVE FALSE
    <3>1. m + k + 1 \in n + 1 .. Len(u) /\ 1 \in 1 .. Len(c) /\ Len(b) + 1 = m + k + 1
      BY <1>2, <1>4, <1>6, <1>8, <1>9, <2>2, <2>4
    <3>2. u[m + k + 1] = c[1] /\ c[1].line = "header"
      BY <1>4, <3>1 DEF Sectioned, Headed
    <3>. QED  BY <2>2, <2>4, <3>1, <3>2
  <2>. QED  BY <1>2, <1>4, <1>8, <1>9, <2>2, <2>3, <2>4
<1>. HIDE DEF e
<1>11. ~ (n > Len(u)) /\ n - 1 = m /\ e = Len(b) + 1
  BY <1>2, <1>4, <1>6, <1>8, <1>9, <1>10
<1>12. SubSeq(u, 1, m) = a
  <2>0. (a \o s) \o c = a \o (s \o c)
    BY ONLY <1>1, JoinAgain
  <2>1. u = a \o (s \o c)
    BY <2>0 DEF Sectioned
  <2>2. AreLines(s \o c)
    BY <1>1, LinesJoin
  <2>. DEFINE d == s \o c
  <2>. HIDE DEF d
  <2>3. AreLines(d) /\ u = a \o d
    BY <2>1, <2>2 DEF d
  <2>. QED  BY ONLY <1>1, <2>3, CutJoin DEF m, Joined
<1>13. PatchSection(u, Header(Managed), s) = (a \o s) \o c
  BY <1>4, <1>5, <1>11, <1>12
<1>. QED  BY <1>13 DEF Sectioned

(* The root keys that are there are written over with themselves.          *)
LEMMA RootSettled ==
  ASSUME NEW w, Flat(w), NEW q, AreLines(q), Headed(q), NEW x, NEW y,
         RootSays(w, Pair("model", x)), RootSays(w, Pair("model_provider", y))
  PROVE  PatchRoot(w \o q, <<Pair("model", x), Pair("model_provider", y)>>) = w \o q
<1>. DEFINE one == Pair("model", x)
            two == Pair("model_provider", y)
            top == <<one, two>>
            t == w \o q
            n == HeaderFrom(t, 1)
            r == SubSeq(t, 1, n - 1)
            new == [i \in DOMAIN t |->
                      IF \E m \in DOMAIN top : i < n /\ RootAt(r, top[m].key) = i
                        THEN CHOOSE p \in {top[m] : m \in DOMAIN top} : RootAt(r, p.key) = i
                        ELSE t[i]]
            Unless(p) == IF RootAt(r, p.key) < n THEN <<>> ELSE <<p>>
            pending == Unless(top[1]) \o Unless(top[2])
            gap == IF pending # <<>> /\ n <= Len(t) THEN <<Blank>> ELSE <<>>
            u == PatchRoot(t, top)
<1>1. u = SubSeq(new, 1, n - 1) \o pending \o gap \o SubSeq(new, n, Len(t))
  BY DEF PatchRoot, HeaderFrom, RootAt
<1>2. one.line = "pair" /\ two.line = "pair"
  BY DEF Pair
<1>3. DOMAIN top = {1, 2} /\ top[1] = one /\ top[2] = two
  OBVIOUS
<1>4. {top[m] : m \in DOMAIN top} = {one, two}
  BY <1>3
<1>. HIDE DEF u, one, two
<1>5. AreLines(w)
  BY DEF Flat
<1>6. Joined(t, w, q)
  <2>1. t = w \o q
    OBVIOUS
  <2>. HIDE DEF t
  <2>. QED  BY ONLY <1>5, <2>1, AreLines(q), CutJoin
<1>. HIDE DEF t
<1>7. /\ AreLines(t) /\ Len(t) \in Nat /\ DOMAIN t = 1 .. Len(t) /\ Len(t) = Len(w) + Len(q)
      /\ Len(w) \in Nat /\ Len(q) \in Nat /\ DOMAIN w = 1 .. Len(w) /\ DOMAIN q = 1 .. Len(q)
      /\ \A i \in 1 .. Len(w) : t[i] = w[i]
      /\ \A i \in 1 .. Len(q) : t[Len(w) + i] = q[i]
      /\ SubSeq(t, 1, Len(w)) = w /\ SubSeq(t, Len(w) + 1, Len(t)) = q
  BY <1>6 DEF Joined
<1>8. n = Len(w) + 1
  <2>1. 1 \in 1 .. Len(t) + 1
    BY <1>7
  <2>2. /\ n \in 1 .. Len(t) + 1
        /\ n <= Len(t) => t[n].line = "header"
        /\ \A i \in 1 .. Len(t) : i < n => t[i].line # "header"
    BY <1>7, <2>1, HeaderFromIs
  <2>. HIDE DEF n
  <2>3. ASSUME n < Len(w) + 1 PROVE FALSE
    <3>1. n \in 1 .. Len(w) /\ n <= Len(t)
      BY <1>7, <2>2, <2>3
    <3>. QED  BY <1>7, <2>2, <3>1 DEF Flat
  <2>4. ASSUME n > Len(w) + 1 PROVE FALSE
    <3>1. Len(w) + 1 \in 1 .. Len(t) /\ 1 \in 1 .. Len(q)
      BY <1>7, <2>2, <2>4
    <3>. QED  BY <1>7, <2>2, <2>4, <3>1 DEF Headed
  <2>. QED  BY <1>7, <2>2, <2>3, <2>4
<1>. HIDE DEF n
<1>9. n - 1 = Len(w) /\ r = w
  BY <1>7, <1>8
<1>. HIDE DEF r
<1>10. /\ RootAt(r, one.key) < n /\ r[RootAt(r, one.key)] = one
       /\ RootAt(r, two.key) < n /\ r[RootAt(r, two.key)] = two
       /\ RootAt(r, one.key) \in Int /\ RootAt(r, two.key) \in Int
  <2>1. /\ RootAt(w, one.key) <= Len(w) /\ w[RootAt(w, one.key)] = one
        /\ RootAt(w, two.key) <= Len(w) /\ w[RootAt(w, two.key)] = two
    BY <1>2, <1>5, RootAtSays DEF one, two
  <2>2. RootAt(w, one.key) \in Int /\ RootAt(w, two.key) \in Int
    BY <1>5, <1>7, RootAtIs
  <2>. QED  BY <1>7, <1>8, <1>9, <2>1, <2>2
<1>11. \A i \in DOMAIN t : new[i] = t[i]
  <2>1. SUFFICES ASSUME NEW i \in DOMAIN t, \E m \in DOMAIN top : i < n /\ RootAt(r, top[m].key) = i
        PROVE  new[i] = t[i]
    OBVIOUS
  <2>2. new[i] = CHOOSE p \in {one, two} : RootAt(r, p.key) = i
    BY <1>4, <2>1
  <2>3. \E p \in {one, two} : RootAt(r, p.key) = i
    BY <1>3, <2>1
  <2>4. i \in 1 .. Len(w)
    BY <1>7, <1>8, <2>1
  <2>. HIDE DEF new, top
  <2>5. new[i] \in {one, two} /\ RootAt(r, new[i].key) = i
    BY <2>2, <2>3
  <2>6. r[i] = new[i]
    BY <1>10, <2>5
  <2>. QED  BY <1>7, <1>9, <2>4, <2>6
<1>12. new = t
  <2>1. new = [i \in DOMAIN t |-> new[i]]
    OBVIOUS
  <2>2. t = [i \in DOMAIN t |-> t[i]]
    BY <1>7 DEF AreLines
  <2>. HIDE DEF new
  <2>. QED  BY <1>11, <2>1, <2>2
<1>13. pending = <<>>
  <2>1. Unless(one) = <<>> /\ Unless(two) = <<>>
    BY <1>10
  <2>2. pending = Unless(one) \o Unless(two)
    BY <1>3
  <2>. HIDE DEF Unless, pending
  <2>. QED  BY <2>1, <2>2
<1>14. gap = <<>>
  BY <1>13
<1>. HIDE DEF new, pending, gap
<1>15. u = w \o <<>> \o <<>> \o q
  BY <1>1, <1>7, <1>8, <1>9, <1>12, <1>13, <1>14
<1>16. w \o <<>> = w
  BY <1>5 DEF AreLines
<1>. QED  BY <1>15, <1>16 DEF u, top, one, two, t

(* The root keys are put before the section, where it stays.               *)
LEMMA RootLeavesSection ==
  ASSUME NEW u, NEW s, Section(s), NEW a, NEW c, Sectioned(u, s, a, c), NEW w, Flat(w)
  PROVE  \E q, b : /\ q = SubSeq(u, HeaderFrom(u, 1), Len(u)) /\ AreLines(q) /\ Headed(q)
                   /\ Sectioned(w \o q, s, b, c)
<1>. DEFINE n == HeaderFrom(u, 1)
            d == s \o c
            q == SubSeq(u, n, Len(u))
            p == SubSeq(a, 1, n - 1)
            z == SubSeq(a, n, Len(a))
            b == w \o z
<1>1. AreLines(a) /\ AreLines(s) /\ AreLines(c) /\ AreLines(w)
  BY DEF Sectioned, Section, Flat
<1>2. AreLines(d) /\ u = a \o d
  BY <1>1, LinesJoin, JoinAgain DEF Sectioned
<1>3. Joined(d, s, c)
  BY <1>1, CutJoin
<1>. HIDE DEF d
<1>4. Joined(u, a, d)
  BY ONLY <1>1, <1>2, CutJoin
<1>5. 1 \in 1 .. Len(d) /\ d[1].line = "header"
  <2>1. 1 \in 1 .. Len(s) /\ s[1].line = "header"
    BY <1>3 DEF Section, Header, Joined
  <2>. QED  BY <1>3, <2>1 DEF Joined
<1>6. /\ AreLines(u) /\ Len(u) \in Nat /\ Len(a) \in Nat /\ Len(d) \in Nat /\ Len(u) = Len(a) + Len(d)
      /\ u[Len(a) + 1].line = "header" /\ DOMAIN u = 1 .. Len(u)
  BY <1>4, <1>5 DEF Joined
<1>7. /\ n \in 1 .. Len(u) + 1
      /\ n <= Len(u) => u[n].line = "header"
      /\ \A i \in 1 .. Len(u) : i < n => u[i].line # "header"
  <2>1. 1 \in 1 .. Len(u) + 1
    BY <1>6
  <2>. QED  BY <1>6, <2>1, HeaderFromIs
<1>. HIDE DEF n
<1>8. n \in 1 .. Len(a) + 1
  <2>1. ~ (n > Len(a) + 1)
    <3>1. Len(a) + 1 \in 1 .. Len(u)
      BY <1>5, <1>6
    <3>. QED  BY <1>6, <1>7, <3>1
  <2>. QED  BY <1>6, <1>7, <2>1
<1>9. n - 1 \in 0 .. Len(a) /\ (n - 1) + 1 = n /\ n <= Len(u) /\ n - 1 \in 0 .. Len(u)
  BY <1>5, <1>6, <1>8
<1>10. AreLines(p) /\ AreLines(z) /\ a = p \o z
  BY <1>1, <1>9, LinesSplit
<1>11. Len(p) = n - 1
  <2>1. a \in Seq(Range(a))
    BY <1>1 DEF AreLines
  <2>. QED  BY <1>9, <2>1
<1>12. \A l \in Range(z) : l \in Range(a)
  BY <1>10, LinesJoin
<1>. HIDE DEF p, z
<1>13. u = p \o (z \o d) /\ AreLines(z \o d)
  <2>1. u = (p \o z) \o d
    BY <1>2, <1>10
  <2>2. AreLines(p) /\ AreLines(z) /\ AreLines(d)
    BY <1>2, <1>10
  <2>3. (p \o z) \o d = p \o (z \o d) /\ AreLines(z \o d)
    BY ONLY <2>2, JoinAgain, LinesJoin
  <2>. QED  BY ONLY <2>1, <2>3
<1>14. q = z \o d
  <2>. DEFINE f == z \o d
  <2>1. AreLines(f) /\ u = p \o f
    BY <1>13
  <2>. HIDE DEF f
  <2>2. Joined(u, p, f)
    BY ONLY <1>10, <2>1, CutJoin
  <2>3. SubSeq(u, Len(p) + 1, Len(u)) = f
    BY <2>2 DEF Joined
  <2>. QED  BY <1>9, <1>11, <2>3 DEF f
<1>15. AreLines(q)
  BY <1>13, <1>14
<1>16. Headed(q)
  <2>1. q[1] = u[n]
    <3>1. u \in Seq(Range(u))
      BY <1>6 DEF AreLines
    <3>2. n \in 1 .. Len(u)
      BY <1>6, <1>7, <1>9
    <3>. QED  BY <3>1, <3>2
  <2>. QED  BY <1>7, <1>9, <2>1 DEF Headed
<1>. HIDE DEF q
<1>17. AreLines(b) /\ \A l : l \in Range(b) <=> l \in Range(w) \/ l \in Range(z)
  BY <1>1, <1>10, LinesJoin
<1>18. w \o q = (b \o s) \o c
  <2>1. w \o (z \o d) = (w \o z) \o d
    <3>1. AreLines(w) /\ AreLines(z) /\ AreLines(d)
      BY <1>1, <1>2, <1>10
    <3>2. (w \o z) \o d = w \o (z \o d)
      BY ONLY <3>1, JoinAgain
    <3>. QED  BY ONLY <3>2
  <2>2. b = w \o z /\ d = s \o c
    BY DEF d
  <2>. HIDE DEF b
  <2>3. b \o (s \o c) = (b \o s) \o c
    BY ONLY <1>1, <1>17, JoinAgain
  <2>4. w \o q = b \o d
    BY ONLY <2>1, <2>2, <1>14
  <2>. QED  BY ONLY <2>2, <2>3, <2>4
<1>19. Header(Managed) \notin Headings(b)
  <2>1. Header(Managed).line = "header"
    BY DEF Header
  <2>2. Header(Managed) \notin Range(w)
    BY <2>1 DEF Flat, Range
  <2>3. Header(Managed) \notin Range(z)
    BY <1>12, <2>1 DEF Sectioned, Headings
  <2>. HIDE DEF b
  <2>. QED  BY <1>17, <2>2, <2>3 DEF Headings
<1>. HIDE DEF b
<1>20. Sectioned(w \o q, s, b, c)
  BY <1>1, <1>17, <1>18, <1>19 DEF Sectioned
<1>. QED  BY <1>15, <1>16, <1>20 DEF q, n

(* The section says where the proxy is.                                    *)
LEMMA CodexSays ==
  ASSUME NEW o
  PROVE  <<Managed, "base_url", o.port>> \in Entries(CodexSection(o))
<1>. DEFINE s == CodexSection(o)
<1>1. /\ 2 \in DOMAIN s /\ s[2] = Pair("base_url", o.port)
  BY DEF CodexSection
<1>2. s[2].line = "pair" /\ s[2].key = "base_url" /\ s[2].value = o.port
  BY <1>1 DEF Pair
<1>. HIDE DEF s
<1>3. <<TableOf(s, 2), "base_url", o.port>> \in Entries(s)
  BY <1>1, <1>2 DEF Entries, Pairs
<1>4. \A e \in Entries(s) : e[1] = Managed
  BY CodexSectionIs, SectionIs DEF s
<1>5. TableOf(s, 2) = Managed
  BY <1>3, <1>4
<1>. QED  BY <1>3, <1>5 DEF s

(* The edit of config.toml, done once more, changes nothing, and the text points *)
(* to the proxy.                                                           *)
LEMMA TomlSettled ==
  ASSUME NEW t, AreLines(t), NEW o, NEW old, old # Broken,
         t = IF old = Missing THEN <<>> ELSE old.lines
  PROVE  LET Patch(x) == PatchTOML(x, CodexRoot(o), Header(Managed), CodexSection(o))
         IN \E u : /\ Patch(old) = Toml(u) /\ Patch(Toml(u)) = Toml(u)
                   /\ <<"", "model_provider", Managed>> \in Entries(u)
                   /\ <<Managed, "base_url", o.port>> \in Entries(u)
<1>. DEFINE s == CodexSection(o)
            x == DefaultModel(o, "gpt")
            one == Pair("model", x)
            two == Pair("model_provider", Managed)
            top == <<one, two>>
            v == PatchSection(t, Header(Managed), s)
            u == PatchRoot(v, top)
            Patch(d) == PatchTOML(d, CodexRoot(o), Header(Managed), s)
<1>1. Section(s) /\ ValidToml(s)
  BY CodexSectionIs
<1>2. Patch(old) = Toml(u)
  BY DEF PatchTOML, CodexRoot
<1>3. Toml(u) # Broken /\ Toml(u) # Missing /\ Toml(u).lines = u
  BY DEF Toml, Broken, Missing
<1>4. Patch(Toml(u)) = Toml(PatchRoot(PatchSection(u, Header(Managed), s), top))
  BY <1>3 DEF PatchTOML, CodexRoot
<1>5. <<Managed, "base_url", o.port>> \in Entries(s)
  BY CodexSays
<1>. HIDE DEF s, x
<1>6. PICK a, c : Sectioned(v, s, a, c)
  BY <1>1, SectionMade
<1>7. AreLines(v)
  <2>1. AreLines(a \o s)
    BY <1>1, <1>6, LinesJoin DEF Sectioned, Section
  <2>. QED  BY <1>6, <2>1, LinesJoin DEF Sectioned
<1>. HIDE DEF v
<1>8. RootDone(v, u, one, two)
  BY <1>7, RootSet
<1>. HIDE DEF u
<1>9. PICK w : /\ Flat(w) /\ u = w \o SubSeq(v, HeaderFrom(v, 1), Len(v))
               /\ RootSays(w, one) /\ RootSays(w, two)
  BY <1>8 DEF RootDone
<1>10. PICK q, b : /\ q = SubSeq(v, HeaderFrom(v, 1), Len(v)) /\ AreLines(q) /\ Headed(q)
                   /\ Sectioned(w \o q, s, b, c)
  BY <1>1, <1>6, <1>9, RootLeavesSection
<1>11. u = w \o q
  BY <1>9, <1>10
<1>12. PatchSection(u, Header(Managed), s) = u
  BY <1>1, <1>10, <1>11, SectionSettled
<1>13. PatchRoot(u, top) = u
  BY <1>9, <1>10, <1>11, RootSettled
<1>14. <<"", "model_provider", Managed>> \in Entries(u)
  <2>1. PICK i \in DOMAIN w : w[i] = two
    BY <1>9 DEF RootSays
  <2>2. i \in Pairs(w) /\ w[i].key = "model_provider" /\ w[i].value = Managed
    BY <2>1 DEF Pairs, Pair
  <2>3. <<"", "model_provider", Managed>> \in Entries(w)
    BY <1>9, <2>2, FlatIs
  <2>4. AreLines(w) /\ AreLines(q) /\ \A j \in DOMAIN q : q[1].line = "header"
    BY <1>9, <1>10 DEF Flat, Headed
  <2>5. Entries(w \o q) = Entries(w) \cup Entries(q)
    BY ONLY <2>4, EntriesJoin
  <2>. QED  BY ONLY <1>11, <2>3, <2>5
<1>15. <<Managed, "base_url", o.port>> \in Entries(u)
  <2>1. AreLines(b) /\ AreLines(s) /\ AreLines(c) /\ Headed(c) /\ Headed(s) /\ u = (b \o s) \o c
    BY <1>1, <1>10, <1>11, SectionIs DEF Sectioned, Section
  <2>2. <<Managed, "base_url", o.port>> \in Entries(b \o s) /\ AreLines(b \o s)
    BY <1>5, <2>1, EntriesJoin, LinesJoin DEF Headed
  <2>. QED  BY <2>1, <2>2, EntriesJoin DEF Headed
<1>16. Patch(Toml(u)) = Toml(u)
  BY <1>4, <1>12, <1>13
<1>. QED  BY <1>2, <1>14, <1>15, <1>16 DEF s, u

-----------------------------------------------------------------------------
(* A document that points to the proxy: PointsToProxy of any content.      *)
TomlPoints(lines, o) ==
  {<<"", "model_provider", Managed>>, <<Managed, "base_url", o.port>>} \subseteq Entries(lines)
JsoncPoints(tokens, o) ==
  LET i == Named(tokens, "providers")
  IN i # 0 /\ \A id \in {Providers[1], Providers[2]} :
       LET j == Named(tokens[i].value.tokens, id)
       IN j # 0 /\ tokens[i].value.tokens[j].value.port = o.port
Points(file, doc, o) ==
  CASE doc.kind = "toml" -> TomlPoints(doc.lines, o)
    [] doc.kind = "jsonc" -> JsoncPoints(doc.tokens, o)
    [] file = "settings.json" -> doc.values["BASE_URL"] = o.port
    [] OTHER -> doc.values["auth_mode"] = "apikey"

(* Content a run with the options o made.                                  *)
Made(file, doc, o) ==
  \E old : IsDocument(file, old) /\ doc = Planned(file, old, o) /\ doc # Broken

(* So opencode.jsonc points to the proxy.                                  *)
LEMMA ProvidersPoint ==
  ASSUME NEW u, NEW o, u \in Seq(Range(u)), SaysProviders(u, o)
  PROVE  JsoncPoints(u, o)
<1>. DEFINE i == Named(u, "providers")
<1>1. PICK X : /\ X \in Seq(Range(X)) /\ Says(u, "providers", Nested(X))
               /\ Says(X, Providers[1], Provider(o.port, ModelsFor(o, "gpt")))
               /\ Says(X, Providers[2], Provider(o.port, ModelsFor(o, "claude")))
  BY DEF SaysProviders
<1>2. i # 0 /\ u[i].value.tokens = X
  BY <1>1, TokensSame DEF Says
<1>3. \A m, id : Says(X, id, Provider(o.port, m)) =>
        Named(X, id) # 0 /\ X[Named(X, id)].value.port = o.port
  <2>1. \A m, id : Member(id, Provider(o.port, m)).value.port = o.port
    BY DEF Member, Provider
  <2>. QED  BY <2>1 DEF Says
<1>. HIDE DEF i
<1>4. \A id \in {Providers[1], Providers[2]} :
        Named(u[i].value.tokens, id) # 0
          /\ u[i].value.tokens[Named(u[i].value.tokens, id)].value.port = o.port
  BY <1>1, <1>2, <1>3
<1>. QED  BY <1>2, <1>4 DEF JsoncPoints, i

(* What a run made points to the proxy, and planning it again changes nothing. *)
LEMMA MadeSettles ==
  ASSUME NEW file \in Files, NEW o, NEW doc, Made(file, doc, o)
  PROVE  Points(file, doc, o) /\ Planned(file, doc, o) = doc
<1>1. PICK old : IsDocument(file, old) /\ doc = Planned(file, old, o) /\ doc # Broken
  BY DEF Made
<1>2. CASE file = "config.toml"
  <2>. DEFINE t == IF old = Missing THEN <<>> ELSE old.lines
  <2>1. \A d : Planned(file, d, o) = PatchTOML(d, CodexRoot(o), Header(Managed), CodexSection(o))
    BY <1>2 DEF Planned
  <2>2. old # Broken
    BY <1>1, <2>1 DEF PatchTOML
  <2>3. AreLines(t)
    BY <1>1, <1>2, <2>2, NoLines DEF IsDocument
  <2>. DEFINE Patch(x) == PatchTOML(x, CodexRoot(o), Header(Managed), CodexSection(o))
  <2>4. PICK u : /\ Patch(old) = Toml(u) /\ Patch(Toml(u)) = Toml(u)
                 /\ <<"", "model_provider", Managed>> \in Entries(u)
                 /\ <<Managed, "base_url", o.port>> \in Entries(u)
    BY <2>2, <2>3, TomlSettled
  <2>5. Toml(u).kind = "toml" /\ Toml(u).lines = u
    BY DEF Toml
  <2>. HIDE DEF Patch
  <2>6. doc = Toml(u)
    BY <1>1, <2>1, <2>4 DEF Patch
  <2>7. Planned(file, doc, o) = doc
    BY <2>1, <2>4, <2>6 DEF Patch
  <2>8. TomlPoints(u, o)
    BY <2>4 DEF TomlPoints
  <2>9. doc.kind = "toml" /\ TomlPoints(doc.lines, o) /\ file # "settings.json"
    BY <1>2, <2>5, <2>6, <2>8
  <2>10. Points(file, doc, o)
    BY ONLY <2>9 DEF Points
  <2>. QED  BY <2>7, <2>10
<1>3. CASE file \in {"opencode.jsonc", "opencode.json"}
  <2>. DEFINE t == IF old = Missing \/ old.kind = "bare" THEN <<>> ELSE old.tokens
  <2>1. \A d : Planned(file, d, o) = PatchJSONC(d, o)
    BY <1>3 DEF Planned
  <2>2. old # Broken
    BY <1>1, <2>1 DEF PatchJSONC
  <2>3. AreMembers(t)
    BY <1>1, <1>3, <2>2, NoMembers DEF IsDocument
  <2>4. PatchJSONC(old, o) # Broken
    BY <1>1, <2>1
  <2>5. PICK u : /\ PatchJSONC(old, o) = Jsonc(u) /\ PatchJSONC(Jsonc(u), o) = Jsonc(u)
                 /\ SaysProviders(u, o)
    BY <2>2, <2>3, <2>4, JsoncSettled
  <2>6. doc = Jsonc(u) /\ Planned(file, doc, o) = doc
    BY <1>1, <2>1, <2>5
  <2>7. u \in Seq(Range(u))
    <3>1. IsDocument(file, doc) /\ doc.kind = "jsonc"
      BY <1>1, <1>3, JsoncKept
    <3>2. AreMembers(doc.tokens) /\ doc.tokens = u
      BY <1>3, <2>6, <3>1 DEF IsDocument, Missing, Broken, Jsonc
    <3>. QED  BY <3>2 DEF AreMembers, AreTokens
  <2>8. JsoncPoints(u, o)
    BY <2>5, <2>7, ProvidersPoint
  <2>9. Jsonc(u).kind = "jsonc" /\ Jsonc(u).tokens = u
    BY DEF Jsonc
  <2>10. doc.kind = "jsonc" /\ JsoncPoints(doc.tokens, o) /\ file # "settings.json"
    BY <1>3, <2>6, <2>8, <2>9
  <2>11. Points(file, doc, o)
    BY ONLY <2>10 DEF Points
  <2>. QED  BY <2>6, <2>11
<1>4. CASE file = "settings.json"
  <2>. DEFINE v == ClaudeValues(o)
  <2>1. \A d : Planned(file, d, o) = MergeJSON(d, v)
    BY <1>4 DEF Planned
  <2>2. v = [k \in DOMAIN v |-> v[k]] /\ "BASE_URL" \in DOMAIN v /\ v["BASE_URL"] = o.port
    BY ClaudeValuesAre
  <2>. HIDE DEF v
  <2>3. /\ MergeJSON(doc, v) = doc
        /\ \A k \in DOMAIN v : doc.values[k] = v[k]
        /\ doc.kind = "json"
    BY <1>1, <2>1, <2>2, JsonSettled
  <2>4. doc.values["BASE_URL"] = o.port
    BY <2>2, <2>3
  <2>. QED  BY <1>4, <2>1, <2>3, <2>4 DEF Points
<1>5. CASE file = "auth.json"
  <2>1. \A d : Planned(file, d, o) = MergeJSON(d, AuthValues)
    BY <1>5 DEF Planned
  <2>2. /\ AuthValues = [k \in DOMAIN AuthValues |-> AuthValues[k]]
        /\ "auth_mode" \in DOMAIN AuthValues /\ AuthValues["auth_mode"] = "apikey"
    BY DEF AuthValues
  <2>3. /\ MergeJSON(doc, AuthValues) = doc
        /\ \A k \in DOMAIN AuthValues : doc.values[k] = AuthValues[k]
        /\ doc.kind = "json"
    BY <1>1, <2>1, <2>2, JsonSettled
  <2>4. doc.values["auth_mode"] = "apikey"
    BY <2>2, <2>3
  <2>. QED  BY <1>5, <2>1, <2>3, <2>4 DEF Points
<1>. QED  BY <1>2, <1>3, <1>4, <1>5 DEF Files

(* What a run has been through is what it planned.                         *)
SettledInv ==
  KeptInv /\ settled \subseteq Files /\ \A f \in settled : Made(f, disk[f], options)

(* What a run writes it has made.                                          *)
LEMMA ChangeMade ==
  ASSUME KeptInv, at \in DOMAIN plan
  PROVE  Change.file \in Files /\ Made(Change.file, Change.new, options)
<1>1. IsPlanned(Change, options)
  BY DEF KeptInv, PlanMade, Change
<1>. QED  BY <1>1 DEF IsPlanned, Made

(* Every step keeps the invariant.                                         *)
LEMMA SettledStep ==
  ASSUME SettledInv, [Next]_vars
  PROVE  SettledInv'
<1>0. KeptInv /\ KeptInv'
  BY KeptStep DEF SettledInv
<1>. DEFINE Good == settled \subseteq Files /\ \A f \in settled : Made(f, disk[f], options)
<1>a. Good
  BY DEF SettledInv
<1>1. SUFFICES Good'
  BY <1>0 DEF SettledInv
<1>2. ASSUME NEW chosen \in Selections, NEW o \in OptionChoices, Begin(chosen, o) PROVE Good'
  <2>1. settled' = {}
    BY <1>2 DEF Begin
  <2>. QED  BY <2>1
<1>3. ASSUME UNCHANGED <<disk, options, settled>> PROVE Good'
  BY <1>a, <1>3
<1>4. CASE Decline \/ Confirm \/ StartBackup \/ EndBackup \/ NoBackup \/ Finish \/ Stop
  BY <1>3, <1>4 DEF Decline, Confirm, StartBackup, EndBackup, NoBackup, Finish, Stop
<1>5. CASE Tick \/ UNCHANGED vars
  BY <1>3, <1>5 DEF Tick, vars, run
<1>6. CASE Skip
  <2>1. at \in DOMAIN plan /\ disk' = disk /\ options' = options
    BY <1>0, <1>6 DEF Skip, KeptInv, PlanMade, AtChange
  <2>2. Change.old = Change.new
    BY <1>6 DEF Skip, Changed
  <2>3. CASE disk[Change.file] = Change.old
    <3>1. settled' = settled \cup {Change.file}
      BY <1>6, <2>3 DEF Skip
    <3>2. Change.file \in Files /\ Made(Change.file, disk[Change.file], options)
      BY <1>0, <2>1, <2>2, <2>3, ChangeMade
    <3>. QED  BY <1>a, <2>1, <3>1, <3>2
  <2>4. CASE disk[Change.file] # Change.old
    <3>1. settled' = settled
      BY <1>6, <2>4 DEF Skip
    <3>. QED  BY <1>3, <2>1, <3>1
  <2>. QED  BY <2>3, <2>4
<1>7. CASE Rename \/ EndWrite
  <2>1. /\ at \in DOMAIN plan /\ disk' = [disk EXCEPT ![Change.file] = Change.new]
        /\ options' = options /\ settled' = settled \cup {Change.file}
    BY <1>0, <1>7 DEF Rename, EndWrite, KeptInv, AtChange
  <2>2. Change.file \in Files /\ Made(Change.file, Change.new, options)
    BY <1>0, <2>1, ChangeMade
  <2>3. \A f \in Files : disk'[f] = IF f = Change.file THEN Change.new ELSE disk[f]
    BY <1>0, <2>1 DEF KeptInv, DiskReads
  <2>. QED  BY <1>a, <2>1, <2>2, <2>3
<1>8. ASSUME NEW file, options' = options, settled' = settled \ {file},
             NEW doc, disk' = [disk EXCEPT ![file] = doc]
      PROVE  Good'
  <2>1. \A f \in settled' : f \in Files /\ disk'[f] = disk[f]
    BY <1>0, <1>a, <1>8 DEF KeptInv, DiskReads
  <2>. QED  BY <1>a, <1>8, <2>1
<1>9. CASE RenameRefused
  BY <1>8, <1>9 DEF RenameRefused
<1>10. ASSUME NEW file \in Files, Edit(file) PROVE Good'
  BY <1>8, <1>10 DEF Edit, run
<1>. QED  BY <1>2, <1>4, <1>5, <1>6, <1>7, <1>9, <1>10 DEF Next

(* A file the last run has been through points to the proxy, and to run    *)
(* once more would leave it as it is (run.go 127 to 131, edit_jsonc.go 266 *)
(* to 268), whatever it held before, whatever was refused, and wherever an *)
(* earlier run stopped, until somebody edits it.                           *)
THEOREM FilesSettle == Spec => []Settled
<1>1. Init => SettledInv
  <2>1. SUFFICES ASSUME Init PROVE SettledInv
    OBVIOUS
  <2>2. DiskReads
    BY <2>1, FoundAssumption DEF Init, DiskReads
  <2>3. PlanMade /\ AtChange /\ settled = {}
    BY <2>1 DEF Init, PlanMade, AtChange
  <2>. QED  BY <2>2, <2>3 DEF SettledInv, KeptInv
<1>2. SettledInv /\ [Next]_vars => SettledInv'
  BY SettledStep
<1>3. SettledInv => Settled
  <2>1. ASSUME SettledInv, NEW f \in settled
        PROVE  PointsToProxy(f) /\ Planned(f, disk[f], options) = disk[f]
    <3>1. Points(f, disk[f], options) /\ Planned(f, disk[f], options) = disk[f]
      BY <2>1, MadeSettles DEF SettledInv
    <3>. QED  BY <3>1 DEF Points, TomlPoints, JsoncPoints, PointsToProxy
  <2>. QED  BY <2>1 DEF Settled
<1>. QED  BY <1>1, <1>2, <1>3, PTL DEF Spec

=============================================================================
