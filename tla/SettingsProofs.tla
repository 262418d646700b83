--------------------------- MODULE SettingsProofs ---------------------------
(***************************************************************************)
(* Theorems about the configuration file, for every set of texts it may    *)
(* hold, every number of pets and edits, and any number of editors' writes,*)
(* migrations, restarts of the host and power failures.                    *)
(*                                                                         *)
(* Typed /\ Sound is inductive whatever happens: an open window's baseline *)
(* is what its document reads as (Opened), a text to be written stands for *)
(* the draft (Saving), a refusal means an alias (Refusals), and only the   *)
(* dialog saves to close (Consent).  Under the hypotheses of the runs      *)
(* (Faults) three more are: Whole, Seen and Followed.                      *)
(*                                                                         *)
(* The weight is in the lemmas about the writing of a draft: DraftReadsBack*)
(* (parse, synchronize, print and parse again is the identity on valid     *)
(* drafts without the alias) and SyncKeeps (a table not edited is kept).   *)
(***************************************************************************)
EXTENDS Settings, FiniteSetTheorems, WellFoundedInduction, SequenceTheorems, TLAPS

PetConfigs == [id : Nat, mode : Words, alias : Words, bongo : Words \ {""}]
Texts == {t \in [legacy : BOOLEAN, tables : Seq(Tables)] : t.legacy => t.tables # <<>>}

\* The text of a document, which is never a legacy one.
Document(tables) == [legacy |-> FALSE, tables |-> tables]

\* Nothing in it uses the alias move_mode.
Plain(s) == \A i \in DOMAIN s : s[i].alias = ""

-----------------------------------------------------------------------------
\* Numbers and sequences.

LEMMA Smallest ==
  ASSUME NEW S \in SUBSET Nat, S # {}
  PROVE  \E m \in S : \A j \in S : m <= j
<1> DEFINE R == OpToRel(<, Nat)
<1>1. IsWellFoundedOn(R, Nat)
  BY NatLessThanWellFounded
<1> HIDE DEF R
<1>2. PICK m \in S : \A j \in S : ~(<<j, m>> \in R)
  BY <1>1, WFMin
<1>3. \A j \in S : ~(j < m)
  BY <1>2 DEF OpToRel, R
<1> QED
  BY <1>2, <1>3

LEMMA Largest ==
  ASSUME NEW n \in Nat, NEW S \in SUBSET (1 .. n), S # {}
  PROVE  \E m \in S : \A j \in S : j <= m
<1> DEFINE T == {k \in 0 .. n : n - k \in S}
<1>1. PICK i \in S : TRUE
  OBVIOUS
<1>2. n - i \in T
  BY <1>1
<1>3. T # {}
  BY <1>2
<1>4. T \in SUBSET Nat
  OBVIOUS
<1> HIDE DEF T
<1>5. PICK k \in T : \A j \in T : k <= j
  BY <1>3, <1>4, Smallest
<1>6. k \in 0 .. n /\ n - k \in S
  BY <1>5 DEF T
<1>7. ASSUME NEW j \in S
      PROVE  j <= n - k
  <2>1. n - j \in T
    BY <1>7 DEF T
  <2> QED
    BY <1>5, <1>6, <2>1
<1> QED
  BY <1>6, <1>7

LEMMA MapIsSeq ==
  ASSUME NEW S, NEW n \in Nat, NEW f \in [1 .. n -> S]
  PROVE  f \in Seq(S) /\ Len(f) = n /\ DOMAIN f = 1 .. n
OBVIOUS

LEMMA ElementTyped ==
  ASSUME NEW S, NEW s \in Seq(S)
  PROVE  /\ DOMAIN s = 1 .. Len(s) /\ Len(s) \in Nat
         /\ \A i \in DOMAIN s : s[i] \in S
         /\ s # <<>> => Len(s) >= 1
         /\ Len(s) >= 1 => s # <<>>
OBVIOUS

-----------------------------------------------------------------------------
\* Reading.

LEMMA PetOfTyped ==
  ASSUME NEW t \in Tables
  PROVE  /\ PetOf(t) \in PetConfigs
         /\ PetOf(t).id = t.id /\ PetOf(t).mode = t.mode /\ PetOf(t).alias = t.alias
         /\ PetOf(t).bongo = IF t.bongo = "" THEN "default" ELSE t.bongo
BY SettingsAssumption DEF PetOf, Tables, PetConfigs

LEMMA NoTableTyped == NoTable \in Tables /\ NoTable.alias = ""
BY SettingsAssumption DEF NoTable, Tables

LEMMA EmptyTextTyped == EmptyText \in Texts
BY DEF EmptyText, Texts

LEMMA DocumentTyped ==
  ASSUME NEW s \in Seq(Tables)
  PROVE  Document(s) \in Texts
BY DEF Document, Texts

\* What a document reads as, pet by pet; an empty one as the built-in pet.
LEMMA ParseDocument ==
  ASSUME NEW s \in Seq(Tables)
  PROVE  LET pets == Parse(Document(s))
         IN /\ pets \in Seq(PetConfigs) /\ pets # <<>>
            /\ s # <<>> => /\ DOMAIN pets = DOMAIN s
                           /\ \A i \in DOMAIN s : pets[i] = PetOf(s[i])
            /\ s = <<>> => pets = <<PetOf(NoTable)>>
<1> DEFINE pets == Parse(Document(s))
<1>1. pets = IF s = <<>> THEN <<PetOf(NoTable)>> ELSE [i \in DOMAIN s |-> PetOf(s[i])]
  BY DEF Parse, Document
<1> HIDE DEF pets
<1>2. CASE s = <<>>
  <2>1. PetOf(NoTable) \in PetConfigs
    BY NoTableTyped, PetOfTyped
  <2>2. pets = <<PetOf(NoTable)>>
    BY <1>1, <1>2
  <2>3. pets \in Seq(PetConfigs) /\ pets # <<>>
    BY <2>1, <2>2
  <2> QED
    BY <1>2, <2>2, <2>3 DEF pets
<1>3. CASE s # <<>>
  <2>1. DOMAIN s = 1 .. Len(s) /\ Len(s) \in Nat /\ Len(s) >= 1 /\ \A i \in DOMAIN s : s[i] \in Tables
    BY <1>3, ElementTyped
  <2>2. pets = [i \in DOMAIN s |-> PetOf(s[i])]
    BY <1>1, <1>3
  <2>3. \A i \in DOMAIN s : PetOf(s[i]) \in PetConfigs
    BY <2>1, PetOfTyped
  <2>4. pets \in [1 .. Len(s) -> PetConfigs]
    BY <2>1, <2>2, <2>3
  <2>5. pets \in Seq(PetConfigs) /\ Len(pets) = Len(s)
    BY <2>1, <2>4, MapIsSeq
  <2>6. pets # <<>>
    BY <2>1, <2>5, ElementTyped
  <2> QED
    BY <1>3, <2>2, <2>5, <2>6 DEF pets
<1> QED
  BY <1>2, <1>3

LEMMA MigratedTyped ==
  ASSUME NEW text \in Texts
  PROVE  /\ Migrated(text) \in Texts
         /\ Migrated(text).tables \in Seq(Tables)
         /\ Migrated(text) = Document(Migrated(text).tables)
<1>1. text.legacy \in BOOLEAN /\ text.tables \in Seq(Tables) /\ (text.legacy => text.tables # <<>>)
      /\ text = [legacy |-> text.legacy, tables |-> text.tables]
  BY DEF Texts
<1>2. CASE ~text.legacy
  <2>1. Migrated(text) = text /\ text.legacy = FALSE
    BY <1>1, <1>2 DEF Migrated
  <2> QED
    BY <1>1, <2>1 DEF Document
<1>3. CASE text.legacy
  <2> DEFINE t == text.tables[1]
             u == [t EXCEPT !.id = IF @ = 0 THEN LegacyId ELSE @]
  <2>1. t \in Tables
    BY <1>1, <1>3
  <2>2. u \in Tables
    <3> HIDE DEF t
    <3> QED BY <2>1 DEF Tables, LegacyId
  <2>3. Migrated(text) = [legacy |-> FALSE, tables |-> <<u>>]
    BY <1>3 DEF Migrated
  <2> HIDE DEF u
  <2> DEFINE d == <<u>>
  <2>4. d \in Seq(Tables)
    BY <2>2
  <2>5. Migrated(text) = Document(d)
    BY <2>3 DEF Document
  <2> HIDE DEF d
  <2>6. Migrated(text).tables = d
    BY <2>5 DEF Document
  <2> QED
    BY <2>4, <2>5, <2>6, DocumentTyped
<1> QED
  BY <1>1, <1>2, <1>3

LEMMA ParseTyped ==
  ASSUME NEW text \in Texts
  PROVE  Parse(text) \in Seq(PetConfigs)
<1>1. text.legacy \in BOOLEAN /\ text.tables \in Seq(Tables) /\ (text.legacy => text.tables # <<>>)
      /\ text = [legacy |-> text.legacy, tables |-> text.tables]
  BY DEF Texts
<1>2. CASE text.legacy
  <2> DEFINE p == PetOf(text.tables[1])
             q == [p EXCEPT !.id = LegacyId]
  <2>1. p \in PetConfigs
    <3>1. text.tables[1] \in Tables
      BY <1>1, <1>2
    <3> QED
      BY <3>1, PetOfTyped
  <2>2. Parse(text) = <<q>>
    BY <1>2 DEF Parse
  <2> HIDE DEF p
  <2>3. q \in PetConfigs
    BY <2>1 DEF PetConfigs, LegacyId
  <2> HIDE DEF q
  <2> QED
    BY <2>2, <2>3
<1>3. CASE ~text.legacy
  <2>1. text = Document(text.tables)
    BY <1>1, <1>3 DEF Document
  <2> QED
    BY <1>1, <2>1, ParseDocument
<1> QED
  BY <1>1, <1>2, <1>3

LEMMA NormalizeTyped ==
  ASSUME NEW pets \in Seq(PetConfigs)
  PROVE  LET norm == Normalize(pets)
         IN /\ norm \in Seq(PetConfigs) /\ Len(norm) = Len(pets) /\ DOMAIN norm = DOMAIN pets
            /\ \A i \in DOMAIN pets :
                 /\ norm[i].id = IF pets[i].id = 0 THEN i ELSE pets[i].id
                 /\ norm[i].mode = pets[i].mode /\ norm[i].bongo = pets[i].bongo
                 /\ norm[i].alias = IF pets[i].mode # "" THEN "" ELSE pets[i].alias
<1> DEFINE norm == Normalize(pets)
           at(i) == [pets[i] EXCEPT !.id = IF @ = 0 THEN i ELSE @,
                                    !.alias = IF pets[i].mode # "" THEN "" ELSE @]
<1>1. DOMAIN pets = 1 .. Len(pets) /\ Len(pets) \in Nat /\ \A i \in DOMAIN pets : pets[i] \in PetConfigs
  BY ElementTyped
<1>2. norm = [i \in DOMAIN pets |-> at(i)]
  BY DEF Normalize
<1>3. ASSUME NEW i \in DOMAIN pets
      PROVE  /\ at(i) \in PetConfigs
             /\ at(i).id = IF pets[i].id = 0 THEN i ELSE pets[i].id
             /\ at(i).mode = pets[i].mode /\ at(i).bongo = pets[i].bongo
             /\ at(i).alias = IF pets[i].mode # "" THEN "" ELSE pets[i].alias
  <2> DEFINE p == pets[i]
  <2>1. p \in PetConfigs /\ i \in Nat
    BY <1>1
  <2>2. at(i) = [p EXCEPT !.id = IF @ = 0 THEN i ELSE @, !.alias = IF p.mode # "" THEN "" ELSE @]
    OBVIOUS
  <2> HIDE DEF p, at
  <2>3. /\ at(i) \in PetConfigs
        /\ at(i).id = IF p.id = 0 THEN i ELSE p.id
        /\ at(i).mode = p.mode /\ at(i).bongo = p.bongo
        /\ at(i).alias = IF p.mode # "" THEN "" ELSE p.alias
    BY <2>1, <2>2, SettingsAssumption DEF PetConfigs
  <2> QED
    BY <2>3 DEF p
<1> HIDE DEF norm, at
<1>4. norm \in [1 .. Len(pets) -> PetConfigs]
  BY <1>1, <1>2, <1>3
<1>5. norm \in Seq(PetConfigs) /\ Len(norm) = Len(pets) /\ DOMAIN norm = DOMAIN pets
  BY <1>1, <1>4, MapIsSeq
<1>6. \A i \in DOMAIN pets : norm[i] = at(i)
  BY <1>2
<1> QED
  BY <1>3, <1>5, <1>6 DEF norm

-----------------------------------------------------------------------------
\* Writing.

\* update_pet_table of a pet that the baseline knows, and of another one.
LEMMA UpdatedKnown ==
  ASSUME NEW t \in Tables, NEW before \in PetConfigs, NEW after \in PetConfigs
  PROVE  LET u == UpdateTable(t, TRUE, before, after)
         IN /\ u \in Tables /\ u.id = after.id /\ u.note = t.note
            /\ u.mode = IF after.mode = before.mode THEN t.mode ELSE after.mode
            /\ u.alias = IF after.mode \notin {before.mode, ""} THEN "" ELSE t.alias
            /\ u.bongo = IF before.bongo = after.bongo THEN t.bongo
                   ELSE IF after.bongo = "default" THEN "" ELSE after.bongo
<1> DEFINE bongo == IF before.bongo = after.bongo THEN t.bongo
                   ELSE IF after.bongo = "default" THEN "" ELSE after.bongo
           s     == SyncBongo(t, TRUE, before, after)
           u     == UpdateTable(t, TRUE, before, after)
<1>1. /\ bongo \in Words /\ "" \in Words
      /\ t.mode \in Words /\ after.mode \in Words /\ after.id \in Nat
  BY SettingsAssumption DEF Tables, PetConfigs
<1>2. s = [t EXCEPT !.bongo = bongo]
  BY DEF SyncBongo, SyncDefaulted
<1> HIDE DEF bongo
<1>3. /\ s \in Tables /\ s.bongo = bongo /\ s.mode = t.mode /\ s.alias = t.alias
      /\ s.note = t.note
  BY <1>1, <1>2 DEF Tables
<1>4. u = [s EXCEPT !.id = after.id,
                    !.mode = IF after.mode = before.mode THEN s.mode ELSE after.mode,
                    !.alias = IF after.mode \notin {before.mode, ""} THEN "" ELSE s.alias]
  BY DEF UpdateTable, SyncOpt
<1> HIDE DEF s, u
<1>5. /\ u \in Tables /\ u.id = after.id /\ u.note = s.note /\ u.bongo = s.bongo
      /\ u.mode = IF after.mode = before.mode THEN s.mode ELSE after.mode
      /\ u.alias = IF after.mode \notin {before.mode, ""} THEN "" ELSE s.alias
  BY <1>1, <1>3, <1>4 DEF Tables
<1> QED
  BY <1>3, <1>5 DEF u, bongo

LEMMA UpdatedNew ==
  ASSUME NEW t \in Tables, NEW before \in PetConfigs, NEW after \in PetConfigs
  PROVE  LET u == UpdateTable(t, FALSE, before, after)
         IN /\ u \in Tables /\ u.id = after.id /\ u.note = t.note
            /\ u.mode = IF after.mode = "" THEN t.mode ELSE after.mode
            /\ u.alias = IF after.mode # "" THEN "" ELSE t.alias
            /\ u.bongo = IF after.bongo = "default" THEN "" ELSE after.bongo
<1> DEFINE bongo == IF after.bongo = "default" THEN "" ELSE after.bongo
           s     == SyncBongo(t, FALSE, before, after)
           u     == UpdateTable(t, FALSE, before, after)
<1>1. /\ bongo \in Words /\ "" \in Words
      /\ t.mode \in Words /\ after.mode \in Words /\ after.id \in Nat
  BY SettingsAssumption DEF Tables, PetConfigs
<1>2. s = [t EXCEPT !.bongo = bongo]
  BY DEF SyncBongo, SyncDefaulted
<1> HIDE DEF bongo
<1>3. /\ s \in Tables /\ s.bongo = bongo /\ s.mode = t.mode /\ s.alias = t.alias
      /\ s.note = t.note
  BY <1>1, <1>2 DEF Tables
<1>4. u = [s EXCEPT !.id = after.id,
                    !.mode = IF after.mode = "" THEN s.mode ELSE after.mode,
                    !.alias = IF after.mode # "" THEN "" ELSE s.alias]
  BY DEF UpdateTable, SyncOpt
<1> HIDE DEF s, u
<1>5. /\ u \in Tables /\ u.id = after.id /\ u.note = s.note /\ u.bongo = s.bongo
      /\ u.mode = IF after.mode = "" THEN s.mode ELSE after.mode
      /\ u.alias = IF after.mode # "" THEN "" ELSE s.alias
  BY <1>1, <1>3, <1>4 DEF Tables
<1> QED
  BY <1>3, <1>5 DEF u, bongo

LEMMA UpdatedTyped ==
  ASSUME NEW t \in Tables, NEW before \in PetConfigs, NEW after \in PetConfigs
  PROVE  /\ UpdateTable(t, TRUE, before, after) \in Tables
         /\ UpdateTable(t, FALSE, before, after) \in Tables
BY UpdatedKnown, UpdatedNew, Zenon

\* The table of pet i of the baseline.
Known(doc, i) == IF i \in DOMAIN doc THEN doc[i] ELSE NoTable

LEMMA KnownTyped ==
  ASSUME NEW doc \in Seq(Tables), NEW i
  PROVE  Known(doc, i) \in Tables
BY ElementTyped, NoTableTyped DEF Known

\* Every pet of the draft gets the table of a baseline pet with its id, the
\* last one, or a new one.
LEMMA SyncedTable ==
  ASSUME NEW doc \in Seq(Tables), NEW baseline \in Seq(PetConfigs),
         NEW draft \in Seq(PetConfigs), NEW n \in DOMAIN draft
  PROVE  LET u == SyncDocument(doc, baseline, draft)[n]
         IN \/ u = UpdateTable(NoTable, FALSE, draft[n], draft[n])
            \/ \E i \in DOMAIN baseline :
                 /\ baseline[i].id = draft[n].id
                 /\ u = UpdateTable(Known(doc, i), TRUE, baseline[i], draft[n])
<1> DEFINE pet == draft[n]
           At  == {i \in DOMAIN baseline : baseline[i].id = pet.id}
           i   == CHOOSE i \in At : \A j \in At : j <= i
           u   == SyncDocument(doc, baseline, draft)[n]
<1>1. u = IF At = {} THEN UpdateTable(NoTable, FALSE, pet, pet)
          ELSE UpdateTable(Known(doc, i), TRUE, baseline[i], pet)
  BY DEF SyncDocument, Known
<1>2. CASE At = {}
  BY <1>1, <1>2
<1>3. CASE At # {}
  <2>1. DOMAIN baseline = 1 .. Len(baseline) /\ Len(baseline) \in Nat
    BY ElementTyped
  <2>2. At \in SUBSET (1 .. Len(baseline))
    BY <2>1
  <2>3. \E m \in At : \A j \in At : j <= m
    <3> HIDE DEF At
    <3> QED BY <1>3, <2>1, <2>2, Largest
  <2>4. i \in At
    <3> HIDE DEF At
    <3> QED BY <2>3
  <2>5. i \in DOMAIN baseline /\ baseline[i].id = pet.id
    BY <2>4
  <2> HIDE DEF i, u, At
  <2> QED
    BY <1>1, <1>3, <2>5 DEF u
<1> QED
  BY <1>2, <1>3

\* If only pet i of the baseline has the id, it gets the table of i.
LEMMA OnlyTable ==
  ASSUME NEW doc \in Seq(Tables), NEW baseline \in Seq(PetConfigs),
         NEW draft \in Seq(PetConfigs), NEW n \in DOMAIN draft,
         NEW i \in DOMAIN baseline, i \in DOMAIN doc, baseline[i].id = draft[n].id,
         \A j \in DOMAIN baseline : baseline[j].id = draft[n].id => j = i
  PROVE  SyncDocument(doc, baseline, draft)[n] = UpdateTable(doc[i], TRUE, baseline[i], draft[n])
<1> DEFINE pet == draft[n]
           At  == {k \in DOMAIN baseline : baseline[k].id = pet.id}
           m   == CHOOSE k \in At : \A j \in At : j <= k
           u   == SyncDocument(doc, baseline, draft)[n]
<1>1. u = IF At = {} THEN UpdateTable(NoTable, FALSE, pet, pet)
          ELSE UpdateTable(Known(doc, m), TRUE, baseline[m], pet)
  BY DEF SyncDocument, Known
<1>2. At = {i}
  OBVIOUS
<1>3. i \in Nat
  BY ElementTyped
<1>4. m = i
  <2> HIDE DEF At
  <2> QED BY <1>2, <1>3
<1> HIDE DEF m, At, u
<1> QED
  BY <1>1, <1>2, <1>4 DEF u, Known

LEMMA SyncTyped ==
  ASSUME NEW doc \in Seq(Tables), NEW baseline \in Seq(PetConfigs),
         NEW draft \in Seq(PetConfigs)
  PROVE  LET new == SyncDocument(doc, baseline, draft)
         IN new \in Seq(Tables) /\ Len(new) = Len(draft) /\ DOMAIN new = DOMAIN draft
<1> DEFINE new == SyncDocument(doc, baseline, draft)
<1>1. /\ DOMAIN draft = 1 .. Len(draft) /\ Len(draft) \in Nat
      /\ \A n \in DOMAIN draft : draft[n] \in PetConfigs
      /\ \A n \in DOMAIN baseline : baseline[n] \in PetConfigs
      /\ \A n \in DOMAIN doc : doc[n] \in Tables
  BY ElementTyped
<1>2. DOMAIN new = DOMAIN draft
  BY DEF SyncDocument
<1>3. ASSUME NEW n \in DOMAIN draft
      PROVE  new[n] \in Tables
  <2> DEFINE u == new[n]
             pet == draft[n]
  <2>1. pet \in PetConfigs
    BY <1>1
  <2>2. \/ u = UpdateTable(NoTable, FALSE, pet, pet)
        \/ \E i \in DOMAIN baseline : u = UpdateTable(Known(doc, i), TRUE, baseline[i], pet)
    BY SyncedTable, Zenon
  <2> HIDE DEF u, pet
  <2>3. ASSUME u = UpdateTable(NoTable, FALSE, pet, pet)
        PROVE  u \in Tables
    BY <2>1, <2>3, NoTableTyped, UpdatedTyped, Zenon
  <2>4. ASSUME NEW i \in DOMAIN baseline, u = UpdateTable(Known(doc, i), TRUE, baseline[i], pet)
        PROVE  u \in Tables
    BY <1>1, <2>1, <2>4, KnownTyped, UpdatedTyped, Zenon
  <2> QED
    BY <2>2, <2>3, <2>4 DEF u
<1>4. new = [n \in DOMAIN new |-> new[n]]
  BY DEF SyncDocument
<1> HIDE DEF new
<1>5. new \in [1 .. Len(draft) -> Tables]
  BY <1>1, <1>2, <1>3, <1>4
<1>6. new \in Seq(Tables) /\ Len(new) = Len(draft)
  BY <1>1, <1>5, MapIsSeq
<1> QED
  BY <1>2, <1>6 DEF new

\* What a table that was written for a pet reads back as: the pet, as long as
\* the table it had tells what the pet was before and has no alias.
LEMMA ReadsBack ==
  ASSUME NEW t \in Tables, t.alias = "",
         NEW before \in PetConfigs, before.mode = t.mode, before.bongo = PetOf(t).bongo,
         NEW after \in PetConfigs
  PROVE  LET p == PetOf(UpdateTable(t, TRUE, before, after))
         IN p.id = after.id /\ p.mode = after.mode /\ p.bongo = after.bongo /\ p.alias = ""
<1> DEFINE u == UpdateTable(t, TRUE, before, after)
<1>1. /\ u \in Tables /\ u.id = after.id /\ u.note = t.note
      /\ u.mode = IF after.mode = before.mode THEN t.mode ELSE after.mode
      /\ u.alias = IF after.mode \notin {before.mode, ""} THEN "" ELSE t.alias
      /\ u.bongo = IF before.bongo = after.bongo THEN t.bongo
                   ELSE IF after.bongo = "default" THEN "" ELSE after.bongo
  BY UpdatedKnown, ZenonT(30)
<1> HIDE DEF u
<1>2. u.mode = after.mode /\ u.alias = ""
  BY <1>1
<1>3. before.bongo = IF t.bongo = "" THEN "default" ELSE t.bongo
  BY PetOfTyped
<1>4. after.bongo # ""
  BY DEF PetConfigs
<1>5. (IF u.bongo = "" THEN "default" ELSE u.bongo) = after.bongo
  BY <1>1, <1>3, <1>4
<1>6. /\ PetOf(u).id = u.id /\ PetOf(u).mode = u.mode /\ PetOf(u).alias = u.alias
      /\ PetOf(u).bongo = IF u.bongo = "" THEN "default" ELSE u.bongo
  BY <1>1, PetOfTyped
<1> QED
  BY <1>1, <1>2, <1>5, <1>6 DEF u

\* A new table reads back as the pet too.
LEMMA NewReadsBack ==
  ASSUME NEW after \in PetConfigs
  PROVE  LET p == PetOf(UpdateTable(NoTable, FALSE, after, after))
         IN p.id = after.id /\ p.mode = after.mode /\ p.bongo = after.bongo /\ p.alias = ""
<1> DEFINE u == UpdateTable(NoTable, FALSE, after, after)
<1>1. NoTable \in Tables /\ NoTable.alias = "" /\ NoTable.mode = ""
  BY NoTableTyped DEF NoTable
<1>2. /\ u \in Tables /\ u.id = after.id
      /\ u.mode = IF after.mode = "" THEN NoTable.mode ELSE after.mode
      /\ u.alias = IF after.mode # "" THEN "" ELSE NoTable.alias
      /\ u.bongo = IF after.bongo = "default" THEN "" ELSE after.bongo
  BY <1>1, UpdatedNew
<1> HIDE DEF u
<1>3. u.mode = after.mode /\ u.alias = ""
  BY <1>1, <1>2
<1>4. after.bongo # ""
  BY DEF PetConfigs
<1>5. (IF u.bongo = "" THEN "default" ELSE u.bongo) = after.bongo
  BY <1>2, <1>4
<1>6. /\ PetOf(u).id = u.id /\ PetOf(u).mode = u.mode /\ PetOf(u).alias = u.alias
      /\ PetOf(u).bongo = IF u.bongo = "" THEN "default" ELSE u.bongo
  BY <1>2, PetOfTyped
<1> QED
  BY <1>2, <1>3, <1>5, <1>6 DEF u

LEMMA SameInterval ==
  ASSUME NEW m \in Nat, NEW n \in Nat, 1 .. m = 1 .. n
  PROVE  m = n
<1>1. (m # 0 => m \in 1 .. n) /\ (n # 0 => n \in 1 .. m)
  <2>1. (m # 0 => m \in 1 .. m) /\ (n # 0 => n \in 1 .. n)
    OBVIOUS
  <2> QED
    BY <2>1, Zenon
<1> QED
  BY <1>1

\* Two normalized pet lists are equal when they agree pet by pet.
LEMMA SameConfigs ==
  ASSUME NEW a \in Seq(PetConfigs), NEW b \in Seq(PetConfigs), DOMAIN a = DOMAIN b,
         \A i \in DOMAIN a : /\ a[i].id = b[i].id /\ a[i].mode = b[i].mode
                             /\ a[i].bongo = b[i].bongo /\ a[i].alias = b[i].alias
  PROVE  a = b
<1>1. /\ DOMAIN a = 1 .. Len(a) /\ Len(a) \in Nat /\ \A i \in DOMAIN a : a[i] \in PetConfigs
      /\ DOMAIN b = 1 .. Len(b) /\ Len(b) \in Nat /\ \A i \in DOMAIN b : b[i] \in PetConfigs
  BY ElementTyped
<1>2. Len(a) = Len(b)
  BY <1>1, SameInterval
<1>3. ASSUME NEW i \in 1 .. Len(a)
      PROVE  a[i] = b[i]
  <2> DEFINE p == a[i]
             q == b[i]
  <2>1. p \in PetConfigs /\ q \in PetConfigs
    BY <1>1
  <2>2. p.id = q.id /\ p.mode = q.mode /\ p.bongo = q.bongo /\ p.alias = q.alias
    BY <1>1
  <2> HIDE DEF p, q
  <2>3. /\ p = [id |-> p.id, mode |-> p.mode, alias |-> p.alias, bongo |-> p.bongo]
        /\ q = [id |-> q.id, mode |-> q.mode, alias |-> q.alias, bongo |-> q.bongo]
    BY <2>1 DEF PetConfigs
  <2>4. p = q
    BY <2>2, <2>3, Zenon
  <2> QED
    BY <2>4 DEF p, q
<1> QED
  BY <1>1, <1>2, <1>3, SeqEqual

\* What the baseline says of a pet is what its table says.
LEMMA KnownTells ==
  ASSUME NEW doc \in Seq(Tables), NEW i \in DOMAIN Normalize(Parse(Document(doc)))
  PROVE  LET before == Normalize(Parse(Document(doc)))[i]
             t      == Known(doc, i)
         IN /\ t \in Tables /\ before \in PetConfigs
            /\ before.mode = t.mode /\ before.bongo = PetOf(t).bongo
            /\ Plain(doc) => t.alias = ""
<1> DEFINE pets     == Parse(Document(doc))
           baseline == Normalize(pets)
           t        == Known(doc, i)
<1>1. /\ pets \in Seq(PetConfigs) /\ pets # <<>>
      /\ doc # <<>> => /\ DOMAIN pets = DOMAIN doc
                       /\ \A k \in DOMAIN doc : pets[k] = PetOf(doc[k])
      /\ doc = <<>> => pets = <<PetOf(NoTable)>>
  BY ParseDocument
<1> HIDE DEF pets
<1>2. /\ baseline \in Seq(PetConfigs) /\ DOMAIN baseline = DOMAIN pets
      /\ \A k \in DOMAIN pets :
           baseline[k].mode = pets[k].mode /\ baseline[k].bongo = pets[k].bongo
  BY <1>1, NormalizeTyped
<1>3. i \in DOMAIN baseline
  BY DEF pets
<1> HIDE DEF baseline
<1>4. t \in Tables /\ baseline[i] \in PetConfigs
  BY <1>2, <1>3, KnownTyped, ElementTyped
<1>5. pets[i] = PetOf(t) /\ (Plain(doc) => t.alias = "")
  <2>1. CASE doc = <<>>
    <3>1. pets = <<PetOf(NoTable)>> /\ DOMAIN doc = {}
      BY <1>1, <2>1
    <3>2. i = 1 /\ t = NoTable
      BY <1>2, <1>3, <3>1 DEF Known
    <3> QED
      BY <3>1, <3>2, NoTableTyped
  <2>2. CASE doc # <<>>
    <3>1. i \in DOMAIN doc /\ pets[i] = PetOf(doc[i])
      BY <1>1, <1>2, <1>3, <2>2
    <3>2. t = doc[i]
      BY <3>1 DEF Known
    <3> QED
      BY <3>1, <3>2 DEF Plain
  <2> QED
    BY <2>1, <2>2
<1>6. baseline[i].mode = pets[i].mode /\ baseline[i].bongo = pets[i].bongo /\ PetOf(t).mode = t.mode
  BY <1>2, <1>3, <1>4, PetOfTyped
<1> QED
  BY <1>4, <1>5, <1>6 DEF baseline, pets

LEMMA PlainReads ==
  ASSUME NEW doc \in Seq(Tables), Plain(doc)
  PROVE  Plain(Normalize(Parse(Document(doc))))
<1> DEFINE pets     == Parse(Document(doc))
           baseline == Normalize(pets)
<1>1. /\ pets \in Seq(PetConfigs)
      /\ doc # <<>> => /\ DOMAIN pets = DOMAIN doc
                       /\ \A k \in DOMAIN doc : pets[k] = PetOf(doc[k])
      /\ doc = <<>> => pets = <<PetOf(NoTable)>>
  BY ParseDocument
<1>2. \A k \in DOMAIN pets : pets[k].alias = ""
  <2> HIDE DEF pets
  <2>1. CASE doc = <<>>
    <3>1. PetOf(NoTable).alias = ""
      BY NoTableTyped, PetOfTyped
    <3>2. DOMAIN pets = {1} /\ pets[1] = PetOf(NoTable)
      BY <1>1, <2>1
    <3> QED
      BY <3>1, <3>2
  <2>2. CASE doc # <<>>
    <3>1. \A k \in DOMAIN doc : doc[k] \in Tables /\ doc[k].alias = ""
      BY ElementTyped DEF Plain
    <3>2. \A k \in DOMAIN doc : PetOf(doc[k]).alias = ""
      BY <3>1, PetOfTyped
    <3> QED
      BY <1>1, <2>2, <3>2
  <2> QED
    BY <2>1, <2>2
<1> HIDE DEF pets
<1>3. /\ DOMAIN baseline = DOMAIN pets
      /\ \A k \in DOMAIN pets : baseline[k].alias = IF pets[k].mode # "" THEN "" ELSE pets[k].alias
  BY <1>1, NormalizeTyped
<1> HIDE DEF baseline
<1>4. \A k \in DOMAIN baseline : baseline[k].alias = ""
  BY <1>2, <1>3
<1> QED
  BY <1>4 DEF Plain, baseline, pets

\* The text that is generated for a draft reads back as the draft, wherever no
\* alias is used.
LEMMA DraftReadsBack ==
  ASSUME NEW doc \in Seq(Tables), Plain(doc),
         NEW d \in Seq(PetConfigs), d # <<>>, Plain(d)
  PROVE  LET baseline == Normalize(Parse(Document(doc)))
             draft    == Normalize(d)
         IN Normalize(Parse(Document(SyncDocument(doc, baseline, draft)))) = draft
<1> DEFINE baseline == Normalize(Parse(Document(doc)))
           draft    == Normalize(d)
           new      == SyncDocument(doc, baseline, draft)
           pets     == Parse(Document(new))
           norm     == Normalize(pets)
<1>1. baseline \in Seq(PetConfigs)
  BY ParseDocument, NormalizeTyped
<1>2. /\ draft \in Seq(PetConfigs) /\ Len(draft) = Len(d) /\ DOMAIN draft = DOMAIN d
      /\ \A n \in DOMAIN d :
           /\ draft[n].id = IF d[n].id = 0 THEN n ELSE d[n].id
           /\ draft[n].alias = IF d[n].mode # "" THEN "" ELSE d[n].alias
  BY NormalizeTyped
<1>3. \A n \in DOMAIN draft : draft[n].id # 0 /\ draft[n].alias = "" /\ draft[n] \in PetConfigs
  <2>1. \A n \in DOMAIN d : n # 0
    <3>1. DOMAIN d = 1 .. Len(d) /\ Len(d) \in Nat
      BY ElementTyped
    <3> QED
      BY <3>1
  <2>3. \A n \in DOMAIN d : d[n].alias = ""
    BY DEF Plain
  <2> HIDE DEF draft
  <2>2. \A n \in DOMAIN draft : draft[n] \in PetConfigs
    BY <1>2, ElementTyped
  <2> QED
    BY <1>2, <2>1, <2>2, <2>3
<1>4. ASSUME NEW n \in DOMAIN draft
      PROVE  LET p == PetOf(new[n])
             IN p.id = draft[n].id /\ p.mode = draft[n].mode /\ p.bongo = draft[n].bongo /\ p.alias = ""
  <2> DEFINE pet == draft[n]
             u   == new[n]
  <2>1. pet \in PetConfigs
    BY <1>3
  <2>2. \/ u = UpdateTable(NoTable, FALSE, pet, pet)
        \/ \E i \in DOMAIN baseline : u = UpdateTable(Known(doc, i), TRUE, baseline[i], pet)
    <3> HIDE DEF baseline, draft
    <3> QED BY <1>1, <1>2, SyncedTable, Zenon
  <2>3. ASSUME NEW i \in DOMAIN baseline
        PROVE  /\ Known(doc, i) \in Tables /\ baseline[i] \in PetConfigs
               /\ baseline[i].mode = Known(doc, i).mode
               /\ baseline[i].bongo = PetOf(Known(doc, i)).bongo
               /\ Known(doc, i).alias = ""
    BY KnownTells
  <2> HIDE DEF u, pet, baseline
  <2>4. ASSUME u = UpdateTable(NoTable, FALSE, pet, pet)
        PROVE  PetOf(u).id = pet.id /\ PetOf(u).mode = pet.mode /\ PetOf(u).bongo = pet.bongo
               /\ PetOf(u).alias = ""
    BY <2>1, <2>4, NewReadsBack, Zenon
  <2>5. ASSUME NEW i \in DOMAIN baseline, u = UpdateTable(Known(doc, i), TRUE, baseline[i], pet)
        PROVE  PetOf(u).id = pet.id /\ PetOf(u).mode = pet.mode /\ PetOf(u).bongo = pet.bongo
               /\ PetOf(u).alias = ""
    BY <2>1, <2>3, <2>5, ReadsBack, Zenon
  <2> QED
    BY <2>2, <2>4, <2>5 DEF u, pet
<1>5. new \in Seq(Tables) /\ Len(new) = Len(draft) /\ DOMAIN new = DOMAIN draft
  <2> HIDE DEF baseline, draft
  <2>1. draft \in Seq(PetConfigs)
    BY <1>2
  <2> QED
    BY <1>1, <2>1, SyncTyped, ZenonT(30)
<1> HIDE DEF baseline, draft, new
<1>6. new # <<>>
  BY <1>2, <1>5, ElementTyped
<1>7. /\ pets \in Seq(PetConfigs) /\ DOMAIN pets = DOMAIN new
      /\ \A n \in DOMAIN new : pets[n] = PetOf(new[n])
  BY <1>5, <1>6, ParseDocument
<1> HIDE DEF pets
<1>8. /\ norm \in Seq(PetConfigs) /\ DOMAIN norm = DOMAIN pets
      /\ \A n \in DOMAIN pets :
           /\ norm[n].id = IF pets[n].id = 0 THEN n ELSE pets[n].id
           /\ norm[n].mode = pets[n].mode /\ norm[n].bongo = pets[n].bongo
           /\ norm[n].alias = IF pets[n].mode # "" THEN "" ELSE pets[n].alias
  BY <1>7, NormalizeTyped
<1> HIDE DEF norm
<1>9. \A n \in DOMAIN norm : /\ norm[n].id = draft[n].id /\ norm[n].mode = draft[n].mode
                             /\ norm[n].bongo = draft[n].bongo /\ norm[n].alias = draft[n].alias
  <2> SUFFICES ASSUME NEW n \in DOMAIN norm
               PROVE  /\ norm[n].id = draft[n].id /\ norm[n].mode = draft[n].mode
                      /\ norm[n].bongo = draft[n].bongo /\ norm[n].alias = draft[n].alias
    OBVIOUS
  <2>1. n \in DOMAIN draft /\ n \in DOMAIN pets /\ n \in DOMAIN new
    BY <1>5, <1>7, <1>8
  <2>2. pets[n].id = draft[n].id /\ pets[n].mode = draft[n].mode
        /\ pets[n].bongo = draft[n].bongo /\ pets[n].alias = ""
    BY <1>4, <1>7, <2>1
  <2> QED
    BY <1>3, <1>8, <2>1, <2>2
<1>10. norm = draft
  BY <1>2, <1>5, <1>7, <1>8, <1>9, SameConfigs
<1> QED
  BY <1>10 DEF norm, pets, new, draft, baseline

\* A draft with room leaves an id free: unique_id finds the first.
LEMMA UniqueIdTyped ==
  ASSUME app.draft \in Seq(PetConfigs), Len(app.draft) < MaxPets
  PROVE  UniqueId \in Nat
<1> DEFINE d    == app.draft
           free == {n \in 1 .. MaxPets + 1 : \A i \in DOMAIN d : d[i].id # n}
<1>1. DOMAIN d = 1 .. Len(d) /\ Len(d) \in Nat /\ MaxPets \in Nat
  BY ElementTyped, SettingsAssumption
<1>2. free # {}
  <2> SUFFICES ASSUME free = {}
               PROVE  FALSE
    OBVIOUS
  <2>1. \A n \in 1 .. MaxPets + 1 : \E i \in DOMAIN d : d[i].id = n
    OBVIOUS
  <2> DEFINE f == [n \in 1 .. MaxPets + 1 |-> CHOOSE i \in DOMAIN d : d[i].id = n]
  <2>2. \A n \in 1 .. MaxPets + 1 : f[n] \in DOMAIN d /\ d[f[n]].id = n
    BY <2>1
  <2>3. f \in [1 .. MaxPets + 1 -> 1 .. Len(d)]
    <3>1. f = [n \in 1 .. MaxPets + 1 |-> f[n]]
      OBVIOUS
    <3> HIDE DEF f
    <3> QED BY <1>1, <2>2, <3>1
  <2> HIDE DEF f, d
  <2> DEFINE m == MaxPets + 1
             k == Len(d)
  <2>4. m \in Nat /\ k \in Nat /\ k < m
    BY <1>1 DEF d
  <2>5. f \in [1 .. m -> 1 .. k]
    BY <2>3
  <2>6. \A n \in 1 .. m : d[f[n]].id = n
    BY <2>2
  <2> HIDE DEF m, k
  <2>7. /\ IsFiniteSet(1 .. m) /\ IsFiniteSet(1 .. k)
        /\ Cardinality(1 .. k) < Cardinality(1 .. m)
    <3>1. 1 \in Int /\ m \in Int /\ k \in Int
      BY <2>4
    <3>2. /\ IsFiniteSet(1 .. m) /\ Cardinality(1 .. m) = IF 1 > m THEN 0 ELSE m - 1 + 1
          /\ IsFiniteSet(1 .. k) /\ Cardinality(1 .. k) = IF 1 > k THEN 0 ELSE k - 1 + 1
      BY <3>1, FS_Interval, Zenon
    <3> QED
      BY <2>4, <3>2
  <2>8. \E x, y \in 1 .. m : x # y /\ f[x] = f[y]
    <3> DEFINE S == 1 .. m
               T == 1 .. k
    <3>1. f \in [S -> T] /\ IsFiniteSet(S) /\ IsFiniteSet(T) /\ Cardinality(T) < Cardinality(S)
      BY <2>5, <2>7
    <3> HIDE DEF S, T
    <3>2. \E x, y \in S : x # y /\ f[x] = f[y]
      BY <3>1, FS_PigeonHole
    <3> QED
      BY <3>2 DEF S
  <2> QED
    BY <2>6, <2>8
<1>3. free \in SUBSET Nat
  BY <1>1
<1>4. PICK m \in free : \A j \in free : m <= j
  <2> HIDE DEF free
  <2> QED BY <1>2, <1>3, Smallest
<1>5. \A k \in 1 .. m - 1 : \E i \in DOMAIN d : d[i].id = k
  <2> SUFFICES ASSUME NEW k \in 1 .. m - 1
               PROVE  \E i \in DOMAIN d : d[i].id = k
    OBVIOUS
  <2>1. m \in 1 .. MaxPets + 1
    OBVIOUS
  <2>2. k \in 1 .. MaxPets + 1 /\ ~(m <= k)
    BY <1>1, <2>1
  <2> QED
    BY <1>4, <2>2
<1>6. \E n \in 1 .. MaxPets + 1 : /\ \A i \in DOMAIN app.draft : app.draft[i].id # n
                                 /\ \A k \in 1 .. n - 1 : \E i \in DOMAIN app.draft : app.draft[i].id = k
  BY <1>4, <1>5
<1>7. UniqueId \in 1 .. MaxPets + 1
  BY <1>6, Zenon DEF UniqueId
<1> QED
  BY <1>1, <1>7

-----------------------------------------------------------------------------
\* The states.

FileStates == [there : BOOLEAN, whole : BOOLEAN, synced : BOOLEAN, text : Texts]
Disks      == [file : FileStates, busy : BOOLEAN]
Apps       == [open : BOOLEAN, doc : Seq(Tables), baseline : Seq(PetConfigs),
               draft : Seq(PetConfigs), seen : Texts, internal : BOOLEAN,
               stage : {"idle", "backup", "rename"}, text : Texts, bak : Texts,
               confirm : BOOLEAN, closing : BOOLEAN, owed : BOOLEAN]
Hosts      == [up : BOOLEAN, path : BOOLEAN, loaded : Seq(PetConfigs), watching : BOOLEAN,
               stirred : BOOLEAN, asked : BOOLEAN]
Clis       == [stage : {"off", "write", "done"}, text : Texts]
Dones      == [edits : Nat, outside : Nat]

Typed == disk \in Disks /\ app \in Apps /\ host \in Hosts /\ cli \in Clis /\ done \in Dones

\* An open window's baseline is what its document reads as, and only a
\* document with an alias brings one into the draft.
Opened ==
  app.open => /\ app.baseline = Normalize(Parse(Document(app.doc)))
              /\ Plain(app.doc) => Plain(app.draft)

\* The text to be written stands for the draft.
Saving ==
  app.stage # "idle" =>
    /\ app.open
    /\ app.text = Document(SyncDocument(app.doc, app.baseline, Normalize(app.draft)))
    /\ Normalize(Parse(app.text)) = Normalize(app.draft)

Refusals == app.internal => ~Plain(app.doc)

\* Only the dialog saves to close.
Consent == app.closing => app.confirm /\ app.stage # "idle"

Sound == Opened /\ Saving /\ Refusals /\ Consent

LEMMA FilesTyped ==
  /\ EmptyText \in Texts
  /\ \A text \in Files : text \in Texts
<1>1. ASSUME NEW text \in Files
      PROVE  text \in Texts
  <2>1. text \in [legacy : BOOLEAN, tables : Seq(Tables)]
    BY SettingsAssumption
  <2>2. text.legacy => text.tables # <<>>
    <3>1. text.legacy => Len(text.tables) = 1
      BY SettingsAssumption
    <3>2. text.tables \in Seq(Tables)
      BY <2>1
    <3> QED
      BY <3>1, <3>2
  <2> QED
    BY <2>1, <2>2 DEF Texts
<1> QED
  BY <1>1, EmptyTextTyped

LEMMA SavedTyped ==
  ASSUME NEW text \in Texts
  PROVE  /\ Saved(text) \in FileStates /\ Saved(text).text = text
         /\ Saved(text).whole = TRUE /\ Saved(text).synced = TRUE
BY DEF Saved, FileStates

LEMMA ClosedTyped ==
  /\ Closed \in Apps
  /\ Closed.open = FALSE /\ Closed.stage = "idle" /\ Closed.internal = FALSE
  /\ Closed.closing = FALSE
<1>1. EmptyText \in Texts /\ <<>> \in Seq(Tables) /\ <<>> \in Seq(PetConfigs)
  BY FilesTyped
<1> QED
  BY <1>1 DEF Closed, Apps

LEMMA LoadedTyped ==
  ASSUME NEW a \in Apps, NEW text \in Texts
  PROVE  LET b == Loaded(a, text)
         IN /\ b \in Apps /\ b.open = a.open /\ b.seen = text /\ b.internal = FALSE
            /\ b.stage = a.stage /\ b.text = a.text /\ b.bak = a.bak
            /\ b.confirm = a.confirm /\ b.closing = a.closing
            /\ b.baseline = Normalize(Parse(Document(b.doc))) /\ b.draft = b.baseline
<1> DEFINE doc  == Migrated(text).tables
           base == Normalize(Parse(Migrated(text)))
           b    == Loaded(a, text)
<1>1. doc \in Seq(Tables) /\ Migrated(text) \in Texts /\ Migrated(text) = Document(doc)
  BY MigratedTyped
<1>2. base \in Seq(PetConfigs)
  BY <1>1, ParseTyped, NormalizeTyped
<1>3. base = Normalize(Parse(Document(doc)))
  BY <1>1
<1>4. b = [a EXCEPT !.doc = doc, !.baseline = base, !.draft = base, !.seen = text, !.internal = FALSE]
  BY DEF Loaded
<1> HIDE DEF doc, base, b
<1>5. /\ b \in Apps /\ b.open = a.open /\ b.seen = text /\ b.internal = FALSE
      /\ b.stage = a.stage /\ b.text = a.text /\ b.bak = a.bak
      /\ b.confirm = a.confirm /\ b.closing = a.closing
      /\ b.doc = doc /\ b.baseline = base /\ b.draft = base
  BY <1>1, <1>2, <1>4 DEF Apps
<1> QED
  BY <1>3, <1>5 DEF b

LEMMA RefusedTyped ==
  ASSUME NEW a \in Apps
  PROVE  LET b == Refused(a)
         IN /\ b \in Apps /\ b.open = a.open /\ b.doc = a.doc /\ b.baseline = a.baseline
            /\ b.draft = a.draft /\ b.seen = a.seen /\ b.internal = a.internal
            /\ b.stage = "idle" /\ b.closing = FALSE /\ b.confirm = a.confirm
<1>1. EmptyText \in Texts
  BY FilesTyped
<1> QED
  BY <1>1 DEF Refused, Apps

\* The text that Store::save generates.
NewText == Document(SyncDocument(app.doc, app.baseline, Normalize(app.draft)))

\* What Store::save's checks make of the window.
LEMMA CheckedTyped ==
  ASSUME app \in Apps
  PROVE  /\ Checked \in Apps /\ Checked.open = app.open /\ Checked.doc = app.doc
         /\ Checked.baseline = app.baseline /\ Checked.draft = app.draft
         /\ Checked.seen = app.seen /\ Checked.confirm = app.confirm
         /\ Checked.stage \in {"idle", "backup"}
         /\ Checked.stage = "idle" => Checked.closing = FALSE
         /\ Checked.stage = "backup" => /\ Checked.text = NewText /\ Text = app.seen
                                        /\ Normalize(Parse(NewText)) = Normalize(app.draft)
                                        /\ Checked.closing = app.closing
         /\ \/ Checked.internal = app.internal
            \/ /\ Normalize(Parse(NewText)) # Normalize(app.draft)
               /\ Valid(Normalize(app.draft))
<1> DEFINE draft == Normalize(app.draft)
           c     == Checked
<1>1. c = IF Text # app.seen \/ ~Valid(draft) THEN Refused(app)
          ELSE IF Normalize(Parse(NewText)) # draft THEN [Refused(app) EXCEPT !.internal = TRUE]
          ELSE [app EXCEPT !.stage = "backup", !.text = NewText]
  BY DEF Checked, NewText, Document
<1>2. NewText \in Texts
  <2>1. app.doc \in Seq(Tables) /\ app.baseline \in Seq(PetConfigs) /\ app.draft \in Seq(PetConfigs)
    BY DEF Apps
  <2>2. draft \in Seq(PetConfigs)
    BY <2>1, NormalizeTyped
  <2> HIDE DEF draft
  <2>3. SyncDocument(app.doc, app.baseline, draft) \in Seq(Tables)
    BY <2>1, <2>2, SyncTyped
  <2> QED
    BY <2>3, DocumentTyped DEF NewText, draft
<1> DEFINE r == Refused(app)
<1>3. /\ r \in Apps /\ r.open = app.open /\ r.doc = app.doc /\ r.baseline = app.baseline
      /\ r.draft = app.draft /\ r.seen = app.seen /\ r.internal = app.internal
      /\ r.stage = "idle" /\ r.closing = FALSE /\ r.confirm = app.confirm
  BY RefusedTyped
<1> HIDE DEF r, c, draft
<1>4. CASE c = r
  BY <1>3, <1>4 DEF c
<1>5. CASE c = [r EXCEPT !.internal = TRUE] /\ Normalize(Parse(NewText)) # draft /\ Valid(draft)
  <2>1. /\ c \in Apps /\ c.open = r.open /\ c.doc = r.doc /\ c.baseline = r.baseline
        /\ c.draft = r.draft /\ c.seen = r.seen
        /\ c.stage = "idle" /\ c.closing = FALSE /\ c.confirm = r.confirm
    BY <1>3, <1>5 DEF Apps
  <2> QED
    BY <1>3, <1>5, <2>1 DEF c, draft
<1>6. CASE /\ c = [app EXCEPT !.stage = "backup", !.text = NewText]
           /\ Normalize(Parse(NewText)) = draft /\ Text = app.seen
  <2>1. /\ c \in Apps /\ c.open = app.open /\ c.doc = app.doc /\ c.baseline = app.baseline
        /\ c.draft = app.draft /\ c.seen = app.seen /\ c.internal = app.internal
        /\ c.stage = "backup" /\ c.closing = app.closing /\ c.confirm = app.confirm
        /\ c.text = NewText
    BY <1>2, <1>6 DEF Apps
  <2> QED
    BY <1>6, <2>1 DEF c, draft
<1> QED
  BY <1>1, <1>4, <1>5, <1>6 DEF r

LEMMA CommitTyped ==
  ASSUME app \in Apps, NEW told \in BOOLEAN
  PROVE  LET b == Commit(told)
         IN /\ b \in Apps /\ b.stage = "idle" /\ b.internal = FALSE /\ b.closing = FALSE
            /\ \/ app.closing /\ b = Closed
               \/ /\ ~app.closing /\ b.open = app.open /\ b.doc = app.text.tables
                  /\ b.baseline = Normalize(app.draft) /\ b.draft = Normalize(app.draft)
                  /\ b.seen = app.text
<1> DEFINE draft == Normalize(app.draft)
           doc   == app.text.tables
           owed  == ~told
           b     == Commit(told)
<1>1. CASE app.closing
  <2>1. b = Closed
    BY <1>1 DEF Commit
  <2> QED
    BY <1>1, <2>1, ClosedTyped
<1>2. CASE ~app.closing
  <2>1. app.draft \in Seq(PetConfigs) /\ doc \in Seq(Tables) /\ app.text \in Texts
    BY DEF Apps, Texts
  <2>2. draft \in Seq(PetConfigs)
    BY <2>1, NormalizeTyped
  <2>3. EmptyText \in Texts /\ owed \in BOOLEAN
    BY FilesTyped
  <2>4. b = [app EXCEPT !.stage = "idle", !.text = EmptyText, !.bak = EmptyText,
                        !.internal = FALSE, !.doc = doc, !.seen = app.text, !.owed = owed,
                        !.baseline = draft, !.draft = draft]
    BY <1>2 DEF Commit
  <2>5. app.closing = FALSE
    BY <1>2 DEF Apps
  <2> HIDE DEF b, doc, draft, owed
  <2>6. /\ b \in Apps /\ b.stage = "idle" /\ b.internal = FALSE /\ b.closing = FALSE
        /\ b.open = app.open /\ b.doc = doc /\ b.baseline = draft /\ b.draft = draft
        /\ b.seen = app.text
    BY <2>1, <2>2, <2>3, <2>4, <2>5 DEF Apps
  <2> QED
    BY <1>2, <2>6 DEF b, doc, draft
<1> QED
  BY <1>1, <1>2

-----------------------------------------------------------------------------
\* Edits.

PlainConfigs == {p \in PetConfigs : p.alias = ""}

LEMMA PlainSeq ==
  ASSUME NEW s \in Seq(PetConfigs)
  PROVE  Plain(s) <=> s \in Seq(PlainConfigs)
<1>1. DOMAIN s = 1 .. Len(s) /\ Len(s) \in Nat /\ \A i \in DOMAIN s : s[i] \in PetConfigs
  BY ElementTyped
<1>2. ASSUME Plain(s)
      PROVE  s \in Seq(PlainConfigs)
  <2>1. \A i \in 1 .. Len(s) : s[i] \in PlainConfigs
    BY <1>1, <1>2 DEF Plain, PlainConfigs
  <2>2. s = [i \in 1 .. Len(s) |-> s[i]]
    BY <1>1
  <2>3. s \in [1 .. Len(s) -> PlainConfigs]
    <3> HIDE DEF PlainConfigs
    <3> QED BY <2>1, <2>2
  <2> QED
    BY <1>1, <2>3, MapIsSeq
<1>3. ASSUME s \in Seq(PlainConfigs)
      PROVE  Plain(s)
  <2>1. \A i \in DOMAIN s : s[i] \in PlainConfigs
    BY <1>3, ElementTyped
  <2> QED
    BY <2>1 DEF Plain, PlainConfigs
<1> QED
  BY <1>2, <1>3

\* What the operations of an edit do to a list of pets of one kind.
LEMMA EditedSeqs ==
  ASSUME NEW S, NEW d \in Seq(S), NEW p \in S, NEW i \in DOMAIN d
  PROVE  /\ Append(d, p) \in Seq(S) /\ InsertAt(d, i + 1, p) \in Seq(S)
         /\ RemoveAt(d, i) \in Seq(S) /\ [d EXCEPT ![i] = p] \in Seq(S)
         /\ i < Len(d) => [d EXCEPT ![i] = d[i + 1], ![i + 1] = d[i]] \in Seq(S)
<1>1. i \in 1 .. Len(d) /\ Len(d) \in Nat
  BY ElementTyped
<1>2. Append(d, p) \in Seq(S)
  OBVIOUS
<1>3. /\ SubSeq(d, 1, i) \in Seq(S) /\ SubSeq(d, i + 1, Len(d)) \in Seq(S)
      /\ SubSeq(d, 1, i - 1) \in Seq(S) /\ <<p>> \in Seq(S)
  BY <1>1
<1>4. RemoveAt(d, i) \in Seq(S)
  BY <1>3 DEF RemoveAt
<1>5. InsertAt(d, i + 1, p) \in Seq(S)
  <2> DEFINE left  == SubSeq(d, 1, (i + 1) - 1)
             mid   == <<p>>
             right == SubSeq(d, i + 1, Len(d))
  <2>1. left \in Seq(S) /\ mid \in Seq(S) /\ right \in Seq(S)
    BY <1>1
  <2> DEFINE both == left \o mid
  <2>2. InsertAt(d, i + 1, p) = both \o right
    BY Zenon DEF InsertAt
  <2> HIDE DEF left, mid, right
  <2>3. both \in Seq(S)
    BY <2>1
  <2> HIDE DEF both
  <2>4. both \o right \in Seq(S)
    BY <2>1, <2>3
  <2> QED
    BY <2>2, <2>4, Zenon
<1>6. [d EXCEPT ![i] = p] \in Seq(S)
  BY <1>1
<1>7. i < Len(d) => [d EXCEPT ![i] = d[i + 1], ![i + 1] = d[i]] \in Seq(S)
  BY <1>1
<1> QED
  BY <1>2, <1>4, <1>5, <1>6, <1>7

\* A form field changes one pet.
LEMMA EditedPets ==
  ASSUME NEW S, S \in {PetConfigs, PlainConfigs}, NEW p \in S
  PROVE  /\ \A id \in Nat : [p EXCEPT !.id = id] \in S
         /\ \A mode \in {"", "fixed"} : [p EXCEPT !.mode = mode] \in S
         /\ \A tall \in {"default", "tall"} : [p EXCEPT !.bongo = tall] \in S
<1>1. p \in PetConfigs /\ (S = PlainConfigs => p.alias = "")
  BY DEF PlainConfigs
<1>2. /\ \A id \in Nat : LET q == [p EXCEPT !.id = id] IN q \in PetConfigs /\ q.alias = p.alias
      /\ \A mode \in {"", "fixed"} :
           LET q == [p EXCEPT !.mode = mode] IN q \in PetConfigs /\ q.alias = p.alias
      /\ \A tall \in {"default", "tall"} :
           LET q == [p EXCEPT !.bongo = tall] IN q \in PetConfigs /\ q.alias = p.alias
  BY <1>1, SettingsAssumption DEF PetConfigs
<1> QED
  BY <1>1, <1>2 DEF PlainConfigs

\* Every edit leaves a list of the pets it found.
LEMMA EditKeepsKind ==
  ASSUME app \in Apps, Edit, NEW S, S \in {PetConfigs, PlainConfigs}, app.draft \in Seq(S)
  PROVE  \E pets \in Seq(S) : app' = [app EXCEPT !.draft = pets]
<1> DEFINE d   == app.draft
           new == [PetOf(NoTable) EXCEPT !.id = UniqueId]
<1>1. PICK pets :
        /\ app' = [app EXCEPT !.draft = pets]
        /\ \/ Len(d) < MaxPets /\ pets = Append(d, new)
           \/ \E i \in DOMAIN d :
                \/ Len(d) < MaxPets /\ pets = InsertAt(d, i + 1, [d[i] EXCEPT !.id = UniqueId])
                \/ pets = RemoveAt(d, i)
                \/ i < Len(d) /\ pets = [d EXCEPT ![i] = d[i + 1], ![i + 1] = d[i]]
                \/ \E mode \in {"", "fixed"} : pets = [d EXCEPT ![i].mode = mode]
                \/ \E tall \in {"default", "tall"} : pets = [d EXCEPT ![i].bongo = tall]
  BY DEF Edit
<1>2. Len(d) < MaxPets => UniqueId \in Nat
  BY UniqueIdTyped DEF Apps
<1>3. ASSUME Len(d) < MaxPets
      PROVE  new \in S
  <2>1. PetOf(NoTable) \in S
    BY NoTableTyped, PetOfTyped DEF PlainConfigs
  <2> QED
    BY <1>2, <1>3, <2>1, EditedPets
<1>4. d \in Seq(S)
  OBVIOUS
<1> HIDE DEF new, d
<1>5. CASE Len(d) < MaxPets /\ pets = Append(d, new)
  <2>1. pets \in Seq(S)
    <3>1. new \in S
      BY <1>3, <1>5
    <3> QED
      BY <1>4, <1>5, <3>1
  <2> QED
    BY <1>1, <2>1
<1>6. ASSUME NEW i \in DOMAIN d,
             \/ Len(d) < MaxPets /\ pets = InsertAt(d, i + 1, [d[i] EXCEPT !.id = UniqueId])
             \/ pets = RemoveAt(d, i)
             \/ i < Len(d) /\ pets = [d EXCEPT ![i] = d[i + 1], ![i + 1] = d[i]]
             \/ \E mode \in {"", "fixed"} : pets = [d EXCEPT ![i].mode = mode]
             \/ \E tall \in {"default", "tall"} : pets = [d EXCEPT ![i].bongo = tall]
      PROVE  pets \in Seq(S)
  <2>1. d[i] \in S
    BY <1>4, ElementTyped
  <2>2. CASE Len(d) < MaxPets /\ pets = InsertAt(d, i + 1, [d[i] EXCEPT !.id = UniqueId])
    <3> DEFINE p == [d[i] EXCEPT !.id = UniqueId]
    <3>1. p \in S
      BY <1>2, <2>1, <2>2, EditedPets DEF d
    <3>2. pets = InsertAt(d, i + 1, p)
      BY <2>2
    <3> HIDE DEF p
    <3> QED
      BY <1>4, <3>1, <3>2, EditedSeqs
  <2>3. CASE pets = RemoveAt(d, i)
    BY <1>4, <2>1, <2>3, EditedSeqs
  <2>4. CASE i < Len(d) /\ pets = [d EXCEPT ![i] = d[i + 1], ![i + 1] = d[i]]
    BY <1>4, <2>1, <2>4, EditedSeqs
  <2>5. ASSUME NEW mode \in {"", "fixed"}, pets = [d EXCEPT ![i].mode = mode]
        PROVE  pets \in Seq(S)
    <3> DEFINE p == [d[i] EXCEPT !.mode = mode]
    <3>1. p \in S
      BY <2>1, EditedPets
    <3>2. pets = [d EXCEPT ![i] = p]
      BY <2>5
    <3> HIDE DEF p
    <3> QED
      BY <1>4, <3>1, <3>2, EditedSeqs
  <2>6. ASSUME NEW tall \in {"default", "tall"}, pets = [d EXCEPT ![i].bongo = tall]
        PROVE  pets \in Seq(S)
    <3> DEFINE p == [d[i] EXCEPT !.bongo = tall]
    <3>1. p \in S
      BY <2>1, EditedPets
    <3>2. pets = [d EXCEPT ![i] = p]
      BY <2>6
    <3> HIDE DEF p
    <3> QED
      BY <1>4, <3>1, <3>2, EditedSeqs
  <2> QED
    BY <1>6, <2>2, <2>3, <2>4, <2>5, <2>6
<1> QED
  BY <1>1, <1>5, <1>6

LEMMA EditMakes ==
  ASSUME app \in Apps, Edit
  PROVE  /\ app' \in Apps /\ app'.open = app.open /\ app'.doc = app.doc
         /\ app'.baseline = app.baseline /\ app'.internal = app.internal
         /\ app'.stage = "idle" /\ app'.closing = app.closing /\ app'.confirm = app.confirm
         /\ app'.seen = app.seen
         /\ Plain(app.draft) => Plain(app'.draft)
<1>1. app.draft \in Seq(PetConfigs) /\ app.stage = "idle"
  BY DEF Apps, Edit
<1>2. PICK pets \in Seq(PetConfigs) : app' = [app EXCEPT !.draft = pets]
  BY <1>1, EditKeepsKind
<1>3. /\ app' \in Apps /\ app'.open = app.open /\ app'.doc = app.doc
      /\ app'.baseline = app.baseline /\ app'.internal = app.internal
      /\ app'.stage = app.stage /\ app'.closing = app.closing /\ app'.confirm = app.confirm
      /\ app'.seen = app.seen
      /\ app'.draft = pets
  BY <1>2 DEF Apps
<1>4. ASSUME Plain(app.draft)
      PROVE  Plain(app'.draft)
  <2>1. app.draft \in Seq(PlainConfigs)
    BY <1>1, <1>4, PlainSeq
  <2>2. PICK q \in Seq(PlainConfigs) : app' = [app EXCEPT !.draft = q]
    BY <2>1, EditKeepsKind
  <2>3. app'.draft = q
    BY <2>2 DEF Apps
  <2> QED
    BY <1>3, <2>3, PlainSeq
<1> QED
  BY <1>1, <1>3, <1>4

-----------------------------------------------------------------------------
\* The window stays sound.

LEMMA KeepsSound ==
  ASSUME Sound, app'.open = app.open, app'.doc = app.doc, app'.baseline = app.baseline,
         app'.draft = app.draft, app'.internal = app.internal,
         app'.stage = "idle" \/ (app.stage # "idle" /\ app'.text = app.text),
         app'.closing => app'.confirm /\ app'.stage # "idle"
  PROVE  Sound'
<1>1. Opened'
  BY DEF Sound, Opened
<1>2. Saving'
  BY DEF Sound, Saving
<1>3. Refusals'
  BY DEF Sound, Refusals
<1>4. Consent'
  BY DEF Consent
<1> QED
  BY <1>1, <1>2, <1>3, <1>4 DEF Sound

LEMMA ClosedSound ==
  ASSUME app' = Closed
  PROVE  app' \in Apps /\ Sound'
BY ClosedTyped DEF Sound, Opened, Saving, Refusals, Consent

\* A text is only refused as an internal error where an alias is used.
LEMMA RefusedForAlias ==
  ASSUME app \in Apps, Opened, app.open, Plain(app.doc), Valid(Normalize(app.draft))
  PROVE  Normalize(Parse(NewText)) = Normalize(app.draft)
<1>1. app.doc \in Seq(Tables) /\ app.draft \in Seq(PetConfigs)
  BY DEF Apps
<1>2. app.baseline = Normalize(Parse(Document(app.doc))) /\ Plain(app.draft)
  BY DEF Opened
<1>3. app.draft # <<>>
  <2>1. Len(Normalize(app.draft)) \in 1 .. MaxPets
    BY DEF Valid
  <2>2. Len(Normalize(app.draft)) = Len(app.draft)
    BY <1>1, NormalizeTyped
  <2>3. MaxPets \in Nat
    BY SettingsAssumption
  <2>4. Len(app.draft) >= 1
    BY <2>1, <2>2, <2>3
  <2> QED
    BY <1>1, <2>4, ElementTyped
<1> DEFINE doc == app.doc
           d   == app.draft
<1>4. Normalize(Parse(Document(SyncDocument(doc, Normalize(Parse(Document(doc))), Normalize(d)))))
        = Normalize(d)
  <2> HIDE DEF doc, d
  <2>1. doc \in Seq(Tables) /\ d \in Seq(PetConfigs) /\ d # <<>> /\ Plain(doc) /\ Plain(d)
    BY <1>1, <1>2, <1>3 DEF doc, d
  <2> QED
    BY <2>1, DraftReadsBack, Zenon
<1> QED
  BY <1>2, <1>4, Zenon DEF NewText

LEMMA CheckedSound ==
  ASSUME app \in Apps, Sound, app.open,
         app'.open = Checked.open, app'.doc = Checked.doc, app'.baseline = Checked.baseline,
         app'.draft = Checked.draft, app'.internal = Checked.internal,
         app'.stage = Checked.stage, app'.text = Checked.text,
         app'.closing => app'.confirm /\ app'.stage # "idle"
  PROVE  Sound'
<1> DEFINE c == Checked
<1>1. /\ c.open = app.open /\ c.doc = app.doc /\ c.baseline = app.baseline
      /\ c.draft = app.draft /\ c.stage \in {"idle", "backup"}
      /\ c.stage = "backup" => /\ c.text = NewText
                               /\ Normalize(Parse(NewText)) = Normalize(app.draft)
      /\ \/ c.internal = app.internal
         \/ /\ Normalize(Parse(NewText)) # Normalize(app.draft)
            /\ Valid(Normalize(app.draft))
  BY CheckedTyped
<1>2. /\ app'.open = c.open /\ app'.doc = c.doc /\ app'.baseline = c.baseline
      /\ app'.draft = c.draft /\ app'.internal = c.internal
      /\ app'.stage = c.stage /\ app'.text = c.text
  OBVIOUS
<1> HIDE DEF c
<1>3. Opened'
  BY <1>1, <1>2 DEF Sound, Opened
<1>4. Saving'
  BY <1>1, <1>2 DEF Saving, NewText
<1>5. Refusals'
  BY <1>1, <1>2, RefusedForAlias DEF Sound, Refusals
<1>6. Consent'
  BY DEF Consent
<1> QED
  BY <1>3, <1>4, <1>5, <1>6 DEF Sound

LEMMA CommitSound ==
  ASSUME app \in Apps, Sound, app.stage = "rename", NEW told \in BOOLEAN, app' = Commit(told)
  PROVE  app' \in Apps /\ Sound'
<1> DEFINE b == Commit(told)
<1>1. /\ b \in Apps /\ b.stage = "idle" /\ b.internal = FALSE /\ b.closing = FALSE
      /\ \/ app.closing /\ b = Closed
         \/ /\ ~app.closing /\ b.open = app.open /\ b.doc = app.text.tables
            /\ b.baseline = Normalize(app.draft) /\ b.draft = Normalize(app.draft)
            /\ b.seen = app.text
  BY CommitTyped
<1>2. app' = b
  OBVIOUS
<1> HIDE DEF b
<1>3. CASE b = Closed
  BY <1>2, <1>3, ClosedSound
<1>4. CASE ~app.closing /\ b.open = app.open /\ b.doc = app.text.tables
           /\ b.baseline = Normalize(app.draft) /\ b.draft = Normalize(app.draft)
  <2> DEFINE new == SyncDocument(app.doc, app.baseline, Normalize(app.draft))
  <2>1. /\ app.text = Document(new)
        /\ Normalize(Parse(app.text)) = Normalize(app.draft)
    BY DEF Sound, Saving
  <2>2. new \in Seq(Tables)
    <3>1. /\ app.doc \in Seq(Tables) /\ app.baseline \in Seq(PetConfigs)
          /\ Normalize(app.draft) \in Seq(PetConfigs)
      BY NormalizeTyped DEF Apps
    <3> QED
      BY <3>1, SyncTyped
  <2> HIDE DEF new
  <2>3. app.text.tables = new
    BY <2>1 DEF Document
  <2>4. /\ b.doc = new /\ b.draft = b.baseline
        /\ b.baseline = Normalize(Parse(Document(new)))
    BY <1>4, <2>1, <2>3
  <2>5. Plain(b.doc) => Plain(b.draft)
    BY <2>2, <2>4, PlainReads
  <2>6. Opened'
    BY <1>2, <2>4, <2>5 DEF Opened
  <2> QED
    BY <1>1, <1>2, <2>6 DEF Sound, Saving, Refusals, Consent
<1> QED
  BY <1>1, <1>3, <1>4

LEMMA InitSound ==
  ASSUME Init
  PROVE  app \in Apps /\ Sound
<1>1. PICK text \in Files \cup {EmptyText} : app = [Loaded(Closed, text) EXCEPT !.open = TRUE]
  BY DEF Init
<1> DEFINE b == Loaded(Closed, text)
<1>2. /\ b \in Apps /\ b.internal = FALSE /\ b.stage = "idle" /\ b.closing = FALSE
      /\ b.baseline = Normalize(Parse(Document(b.doc))) /\ b.draft = b.baseline
  BY FilesTyped, ClosedTyped, LoadedTyped
<1>3. app = [b EXCEPT !.open = TRUE]
  BY <1>1
<1> HIDE DEF b
<1>4. /\ app \in Apps /\ app.internal = FALSE /\ app.stage = "idle" /\ app.closing = FALSE
      /\ app.baseline = b.baseline /\ app.draft = b.draft /\ app.doc = b.doc
  BY <1>2, <1>3 DEF Apps
<1>5. app.doc \in Seq(Tables)
  BY <1>4 DEF Apps
<1>6. Plain(app.doc) => Plain(app.draft)
  BY <1>2, <1>4, <1>5, PlainReads
<1> QED
  BY <1>2, <1>4, <1>6 DEF Sound, Opened, Saving, Refusals, Consent

LEMMA AppStays ==
  ASSUME app \in Apps, Sound, UNCHANGED app
  PROVE  app' \in Apps /\ Sound'
BY DEF Sound, Opened, Saving, Refusals, Consent, Document, NewText

LEMMA NextSound ==
  ASSUME Typed, Sound, [Next]_vars
  PROVE  app' \in Apps /\ Sound'
<1>1. /\ app \in Apps /\ Text \in Texts /\ (app.closing => app.confirm /\ app.stage # "idle")
  BY DEF Typed, Sound, Consent, Text, Disks, FileStates
<1>2. CASE Edit
  <2>1. /\ app' \in Apps /\ app'.open = app.open /\ app'.doc = app.doc
        /\ app'.baseline = app.baseline /\ app'.internal = app.internal
        /\ app'.stage = "idle" /\ app'.closing = app.closing /\ app'.confirm = app.confirm
        /\ Plain(app.draft) => Plain(app'.draft)
    BY <1>1, <1>2, EditMakes
  <2>2. app.stage = "idle"
    BY <1>2 DEF Edit
  <2>3. Opened' /\ Saving' /\ Refusals' /\ Consent'
    BY <1>1, <2>1, <2>2 DEF Sound, Opened, Saving, Refusals, Consent
  <2> QED
    BY <2>1, <2>3 DEF Sound
<1>3. CASE Save
  <2>1. app' = Checked /\ app.open /\ app.stage = "idle"
    BY <1>3 DEF Save
  <2>2. Checked \in Apps /\ (Checked.closing => Checked.confirm /\ Checked.stage # "idle")
    BY <1>1, <2>1, CheckedTyped
  <2> QED
    BY <1>1, <2>1, <2>2, CheckedSound
<1>4. CASE Backup
  <2>1. CASE app' = [app EXCEPT !.stage = "rename", !.bak = Text]
    <3>1. /\ app' \in Apps /\ app'.open = app.open /\ app'.doc = app.doc
          /\ app'.baseline = app.baseline /\ app'.draft = app.draft
          /\ app'.internal = app.internal /\ app'.stage = "rename" /\ app'.text = app.text
          /\ app'.closing = app.closing /\ app'.confirm = app.confirm
      BY <1>1, <2>1 DEF Apps
    <3>2. app.stage # "idle"
      BY <1>4 DEF Backup
    <3> QED
      BY <1>1, <3>1, <3>2, KeepsSound
  <2>2. CASE app' = Refused(app)
    BY <1>1, <2>2, RefusedTyped, KeepsSound
  <2> QED
    BY <1>4, <2>1, <2>2 DEF Backup
<1>5. CASE Rename
  <2>1. CASE app' = Refused(app)
    BY <1>1, <2>1, RefusedTyped, KeepsSound
  <2>2. CASE \E told \in {FALSE, host.up} : app' = Commit(told)
    <3>1. PICK told \in BOOLEAN : app' = Commit(told)
      BY <2>2 DEF Typed, Hosts
    <3>2. app.stage = "rename"
      BY <1>5 DEF Rename
    <3> QED
      BY <1>1, <3>1, <3>2, CommitSound
  <2> QED
    BY <1>5, <2>1, <2>2 DEF Rename
<1>6. CASE ReloadFromDisk
  <2> DEFINE b == Loaded(app, Text)
  <2>1. /\ b \in Apps /\ b.internal = FALSE /\ b.stage = app.stage /\ b.closing = app.closing
        /\ b.confirm = app.confirm
        /\ b.baseline = Normalize(Parse(Document(b.doc))) /\ b.draft = b.baseline
    BY <1>1, LoadedTyped
  <2>2. app' = b /\ app.stage = "idle"
    BY <1>6 DEF ReloadFromDisk
  <2> HIDE DEF b
  <2>3. b.doc \in Seq(Tables)
    BY <2>1 DEF Apps
  <2>4. Plain(b.doc) => Plain(b.draft)
    BY <2>1, <2>3, PlainReads
  <2> QED
    BY <1>1, <2>1, <2>2, <2>4 DEF Sound, Opened, Saving, Refusals, Consent
<1>7. CASE SendOwed
  <2>1. app' = [app EXCEPT !.owed = FALSE] /\ app.stage = "idle"
    BY <1>7 DEF SendOwed
  <2>2. /\ app' \in Apps /\ app'.open = app.open /\ app'.doc = app.doc
        /\ app'.baseline = app.baseline /\ app'.draft = app.draft
        /\ app'.internal = app.internal /\ app'.stage = app.stage
        /\ app'.closing = app.closing /\ app'.confirm = app.confirm
    BY <1>1, <2>1 DEF Apps
  <2> QED
    BY <1>1, <2>1, <2>2, KeepsSound
<1>8. ASSUME NEW asks \in BOOLEAN, app.stage = "idle", app' = [app EXCEPT !.confirm = asks]
      PROVE  app' \in Apps /\ Sound'
  <2>1. /\ app' \in Apps /\ app'.open = app.open /\ app'.doc = app.doc
        /\ app'.baseline = app.baseline /\ app'.draft = app.draft
        /\ app'.internal = app.internal /\ app'.stage = app.stage
        /\ app'.closing = app.closing
    BY <1>1, <1>8 DEF Apps
  <2> QED
    BY <1>1, <1>8, <2>1, KeepsSound
<1>9. CASE CloseRequested
  BY <1>8, <1>9, ClosedSound DEF CloseRequested
<1>10. CASE Confirm
  <2> DEFINE c == Checked
             b == [c EXCEPT !.closing = TRUE]
  <2>1. app.open /\ app.stage = "idle" /\ app.confirm
    BY <1>10 DEF Confirm
  <2>2. c \in Apps /\ c.confirm = app.confirm /\ (c.stage = "idle" => c.closing = FALSE)
        /\ c.stage \in {"idle", "backup"}
    BY <1>1, CheckedTyped
  <2>3. CASE c.stage = "backup" /\ app' = b
    <3> HIDE DEF c
    <3>1. /\ app' \in Apps /\ app'.open = c.open /\ app'.doc = c.doc /\ app'.baseline = c.baseline
          /\ app'.draft = c.draft /\ app'.internal = c.internal
          /\ app'.stage = c.stage /\ app'.text = c.text
          /\ app'.confirm = c.confirm
      BY <2>2, <2>3 DEF Apps
    <3> QED
      BY <1>1, <2>1, <2>2, <2>3, <3>1, CheckedSound DEF c
  <2>4. CASE c.stage # "backup" /\ app' = c
    BY <1>1, <2>1, <2>2, <2>4, CheckedSound
  <2> QED
    BY <1>8, <1>10, <2>1, <2>3, <2>4, ClosedSound DEF Confirm
<1>11. CASE PowerCut
  BY <1>11, ClosedSound DEF PowerCut
<1>12. CASE UNCHANGED app
  BY <1>1, <1>12, AppStays
<1> QED
  BY <1>2, <1>3, <1>4, <1>5, <1>6, <1>7, <1>9, <1>10, <1>11, <1>12
  DEF Next, EditOutside, Truncate, Rewrite, MigrateRead, MigrateWrite, HostStart, HostStop,
      Watch, Debounced, Reload, vars

-----------------------------------------------------------------------------
\* The types, for every step.

LEMMA StirredTyped ==
  ASSUME host \in Hosts, NEW told \in BOOLEAN
  PROVE  /\ Stirred \in Hosts /\ Told(host, told) \in Hosts /\ Told(Stirred, told) \in Hosts
         /\ Stirred.up = host.up /\ Stirred.path = host.path /\ Stirred.loaded = host.loaded
         /\ Stirred.watching = host.watching /\ Stirred.asked = host.asked
         /\ Stirred.stirred = (host.stirred \/ host.watching)
<1> DEFINE s == Stirred
           heard == host.stirred \/ host.watching
<1>1. s = [host EXCEPT !.stirred = heard]
  BY DEF Stirred
<1>2. heard \in BOOLEAN
  BY DEF Hosts
<1>3. ASSUME NEW h \in Hosts
      PROVE  Told(h, told) \in Hosts
  <2> DEFINE asked == h.asked \/ told
  <2>1. asked \in BOOLEAN
    BY DEF Hosts
  <2>2. Told(h, told) = [h EXCEPT !.asked = asked]
    BY DEF Told
  <2> HIDE DEF asked
  <2> QED
    BY <2>1, <2>2 DEF Hosts
<1> HIDE DEF s, heard
<1>4. /\ s \in Hosts /\ s.up = host.up /\ s.path = host.path /\ s.loaded = host.loaded
      /\ s.watching = host.watching /\ s.asked = host.asked /\ s.stirred = heard
  BY <1>1, <1>2 DEF Hosts
<1> QED
  BY <1>3, <1>4 DEF s, heard

LEMMA NoHostTyped ==
  /\ NoHost \in Hosts
  /\ NoHost.up = FALSE /\ NoHost.watching = FALSE
<1>1. <<>> \in Seq(PetConfigs)
  OBVIOUS
<1> QED
  BY <1>1 DEF NoHost, Hosts

LEMMA InitTyped ==
  ASSUME Init
  PROVE  Typed /\ Sound /\ disk.file.whole = TRUE /\ disk.file.synced = TRUE
         /\ host = NoHost /\ app.stage = "idle"
<1>1. PICK text \in Files \cup {EmptyText} :
        /\ disk = [file |-> [Saved(text) EXCEPT !.there = text # EmptyText], busy |-> FALSE]
        /\ app = [Loaded(Closed, text) EXCEPT !.open = TRUE]
  BY DEF Init
<1> DEFINE there == text # EmptyText
           s     == Saved(text)
           f     == [s EXCEPT !.there = there]
           b     == Loaded(Closed, text)
<1>2. text \in Texts
  BY FilesTyped
<1>3. s \in FileStates /\ s.whole = TRUE /\ s.synced = TRUE /\ there \in BOOLEAN
  BY <1>2, SavedTyped
<1> HIDE DEF there, s
<1>4. f \in FileStates /\ f.whole = TRUE /\ f.synced = TRUE
  BY <1>3 DEF FileStates
<1>5. disk = [file |-> f, busy |-> FALSE]
  BY <1>1 DEF s, there
<1> HIDE DEF f
<1>6. disk \in Disks /\ disk.file = f
  BY <1>4, <1>5 DEF Disks
<1>7. b \in Apps /\ b.stage = "idle"
  BY <1>2, ClosedTyped, LoadedTyped
<1>8. app = [b EXCEPT !.open = TRUE]
  BY <1>1
<1> HIDE DEF b
<1>9. app.stage = "idle"
  BY <1>7, <1>8 DEF Apps
<1>10. app \in Apps /\ Sound
  BY InitSound
<1>11. host \in Hosts /\ host = NoHost
  BY NoHostTyped DEF Init
<1>12. cli \in Clis /\ done \in Dones
  BY FilesTyped DEF Init, Clis, Dones
<1> QED
  BY <1>4, <1>6, <1>9, <1>10, <1>11, <1>12 DEF Typed

\* Each writer's file is of its type.
LEMMA WritesTyped ==
  ASSUME disk \in Disks, NEW text \in Texts, NEW busy \in BOOLEAN
  PROVE  /\ [disk EXCEPT !.file = Saved(text)] \in Disks
         /\ [disk EXCEPT !.file = Saved(text), !.busy = busy] \in Disks
         /\ [disk EXCEPT !.file = [Saved(text) EXCEPT !.synced = FALSE]] \in Disks
<1> DEFINE s == Saved(text)
           u == [s EXCEPT !.synced = FALSE]
<1>1. s \in FileStates
  BY SavedTyped
<1> HIDE DEF s
<1>2. u \in FileStates
  BY <1>1 DEF FileStates
<1> HIDE DEF u
<1>3. /\ [disk EXCEPT !.file = s] \in Disks
      /\ [disk EXCEPT !.file = s, !.busy = busy] \in Disks
      /\ [disk EXCEPT !.file = u] \in Disks
  BY <1>1, <1>2 DEF Disks
<1> QED
  BY <1>3 DEF s, u

LEMMA CutTyped ==
  ASSUME disk \in Disks, NEW whole \in BOOLEAN, NEW d,
         d = [disk EXCEPT !.file.whole = whole, !.file.synced = TRUE, !.busy = FALSE]
  PROVE  /\ d \in Disks /\ d.busy = FALSE
         /\ d.file.whole = whole /\ d.file.synced = TRUE
         /\ d.file.there = disk.file.there /\ d.file.text = disk.file.text
BY DEF Disks, FileStates

LEMMA NextTyped ==
  ASSUME Typed, Sound, [Next]_vars
  PROVE  Typed'
<1>1. /\ disk \in Disks /\ app \in Apps /\ host \in Hosts /\ cli \in Clis /\ done \in Dones
      /\ Text \in Texts /\ app.text \in Texts /\ cli.text \in Texts
  BY DEF Typed, Text, Disks, FileStates, Apps, Clis
<1>2. app' \in Apps
  BY NextSound
<1>3. host.up \in BOOLEAN
  BY <1>1 DEF Hosts
<1>4. ASSUME done' = [done EXCEPT !.edits = @ + 1] \/ done' = [done EXCEPT !.outside = @ + 1]
      PROVE  done' \in Dones
  BY <1>1, <1>4 DEF Dones
<1>5. CASE Edit
  BY <1>1, <1>2, <1>4, <1>5 DEF Edit, Typed
<1>6. CASE Save \/ Backup \/ CloseRequested \/ Confirm
  BY <1>1, <1>2, <1>6 DEF Save, Backup, CloseRequested, Confirm, Typed
<1>7. CASE Rename
  <2>1. disk' \in Disks
    <3>1. disk' = [disk EXCEPT !.file = Saved(app.text)] \/ disk' = disk
      BY <1>7 DEF Rename
    <3> QED
      BY <1>1, <3>1, WritesTyped
  <2>2. host' \in Hosts
    <3>1. host' = host \/ \E told \in BOOLEAN : host' = Told(Stirred, told)
      BY <1>3, <1>7 DEF Rename
    <3> QED
      BY <1>1, <3>1, StirredTyped
  <2> QED
    BY <1>1, <1>2, <1>7, <2>1, <2>2 DEF Rename, Typed
<1>8. CASE ReloadFromDisk \/ SendOwed
  <2>1. \E told \in BOOLEAN : host' = Told(host, told)
    BY <1>3, <1>8 DEF ReloadFromDisk, SendOwed
  <2>2. host' \in Hosts
    BY <1>1, <2>1, StirredTyped
  <2> QED
    BY <1>1, <1>2, <1>8, <2>2 DEF ReloadFromDisk, SendOwed, Typed
<1>9. CASE EditOutside \/ Truncate \/ Rewrite
  <2>1. disk' \in Disks
    <3>1. \E text \in Texts, busy \in BOOLEAN :
             \/ disk' = [disk EXCEPT !.file = Saved(text)]
             \/ disk' = [disk EXCEPT !.file = Saved(text), !.busy = busy]
      BY <1>9, FilesTyped DEF EditOutside, Truncate, Rewrite
    <3> QED
      BY <1>1, <3>1, WritesTyped
  <2>2. host' \in Hosts
    <3>1. host' \in {host, Stirred}
      BY <1>9 DEF EditOutside, Truncate, Rewrite
    <3> QED
      BY <1>1, <3>1, StirredTyped
  <2>3. done' \in Dones
    BY <1>1, <1>4, <1>9 DEF EditOutside, Truncate, Rewrite
  <2> QED
    BY <1>1, <1>2, <1>9, <2>1, <2>2, <2>3 DEF EditOutside, Truncate, Rewrite, Typed
<1>10. CASE MigrateRead
  <2>1. Migrated(Text) \in Texts
    BY <1>1, MigratedTyped
  <2>2. cli' \in Clis
    BY <1>10, <2>1 DEF MigrateRead, Clis
  <2> QED
    BY <1>1, <1>2, <1>10, <2>2 DEF MigrateRead, Typed
<1>11. CASE MigrateWrite
  <2>1. disk' \in Disks
    BY <1>1, <1>11, WritesTyped DEF MigrateWrite
  <2>2. cli' \in Clis
    BY <1>1, <1>11 DEF MigrateWrite, Clis
  <2>3. host' \in Hosts
    BY <1>1, <1>11, StirredTyped DEF MigrateWrite
  <2> QED
    BY <1>1, <1>2, <1>11, <2>1, <2>2, <2>3 DEF MigrateWrite, Typed
<1>12. CASE HostStart
  <2> DEFINE pets  == Parse(Text)
             there == disk.file.there
  <2>1. pets \in Seq(PetConfigs)
    BY <1>1, ParseTyped
  <2>2. there \in BOOLEAN
    BY <1>1 DEF Disks, FileStates
  <2>3. host' = [NoHost EXCEPT !.up = TRUE, !.path = there, !.loaded = pets]
    BY <1>12 DEF HostStart
  <2> HIDE DEF pets, there
  <2>4. host' \in Hosts
    BY <2>1, <2>2, <2>3, NoHostTyped DEF Hosts
  <2> QED
    BY <1>1, <1>2, <1>4, <1>12, <2>4 DEF HostStart, Typed
<1>13. CASE HostStop
  BY <1>1, <1>2, <1>13, NoHostTyped DEF HostStop, Typed
<1>14. CASE Watch \/ Debounced
  <2>1. host' \in Hosts
    BY <1>1, <1>14 DEF Watch, Debounced, Hosts
  <2> QED
    BY <1>1, <1>2, <1>14, <2>1 DEF Watch, Debounced, Typed
<1>15. CASE Reload
  <2> DEFINE pets == IF host.path /\ Valid(Parse(Text)) THEN Parse(Text) ELSE host.loaded
  <2>1. pets \in Seq(PetConfigs)
    <3>1. Parse(Text) \in Seq(PetConfigs) /\ host.loaded \in Seq(PetConfigs)
      BY <1>1, ParseTyped DEF Hosts
    <3> QED
      BY <3>1
  <2>2. host' = [host EXCEPT !.asked = FALSE, !.loaded = pets]
    BY <1>15 DEF Reload
  <2> HIDE DEF pets
  <2>3. host' \in Hosts
    BY <1>1, <2>1, <2>2 DEF Hosts
  <2> QED
    BY <1>1, <1>2, <1>15, <2>3 DEF Reload, Typed
<1>16. CASE PowerCut
  <2>1. disk' \in Disks
    BY <1>1, <1>16, CutTyped DEF PowerCut
  <2>2. cli' \in Clis
    BY <1>1, <1>16 DEF PowerCut, Clis
  <2> QED
    BY <1>2, <1>4, <1>16, <2>1, <2>2, NoHostTyped DEF PowerCut, Typed
<1>17. CASE UNCHANGED vars
  BY <1>1, <1>17 DEF vars, Typed
<1> QED
  BY <1>5, <1>6, <1>7, <1>8, <1>9, <1>10, <1>11, <1>12, <1>13, <1>14, <1>15, <1>16, <1>17
  DEF Next

-----------------------------------------------------------------------------
\* The invariant, and the properties that hold whatever else happens.

\* Every reachable state is of its type, and the window's document, baseline,
\* draft and text fit together.
THEOREM WindowIsSound == Spec => [](Typed /\ Sound)
<1>1. Init => Typed /\ Sound
  BY InitTyped
<1>2. Typed /\ Sound /\ [Next]_vars => (Typed /\ Sound)'
  BY NextTyped, NextSound
<1> QED
  BY <1>1, <1>2, PTL DEF Spec

\* For every set of texts that files may hold and every sequence of edits, the
\* text that Store::save generates for a valid draft reads back as that draft
\* where no table of the document has the alias: the refusal that the code
\* calls an internal error does not happen there.
THEOREM RefusalNeedsAliasHolds == Spec => []RefusalNeedsAlias
<1>1. Typed /\ Sound => RefusalNeedsAlias
  BY DEF Sound, Refusals, Plain, RefusalNeedsAlias
<1> QED
  BY <1>1, WindowIsSound, PTL

LEMMA StepHasConsent ==
  ASSUME Typed, Sound, [Next]_vars, app.open, ~app'.open, Dirty(app)
  PROVE  app.confirm \/ done'.outside > done.outside
<1>1. /\ app \in Apps /\ done \in Dones /\ (app.closing => app.confirm)
  BY DEF Typed, Sound, Consent
<1>2. CASE Edit
  BY <1>1, <1>2, EditMakes
<1>3. CASE Save
  BY <1>1, <1>3, CheckedTyped DEF Save
<1>4. CASE Backup
  <2>1. [app EXCEPT !.stage = "rename", !.bak = Text].open = app.open
    BY <1>1 DEF Apps
  <2> QED
    BY <1>1, <1>4, <2>1, RefusedTyped DEF Backup
<1>5. CASE Rename
  <2>1. CASE app' = Refused(app)
    BY <1>1, <2>1, RefusedTyped
  <2>2. CASE \E told \in {FALSE, host.up} : app' = Commit(told)
    <3>1. PICK told \in BOOLEAN : app' = Commit(told)
      BY <2>2 DEF Typed, Hosts
    <3>2. app.closing \/ app'.open = app.open
      BY <1>1, <3>1, CommitTyped
    <3> QED
      BY <1>1, <3>2
  <2> QED
    BY <1>5, <2>1, <2>2 DEF Rename
<1>6. CASE ReloadFromDisk
  <2>1. Text \in Texts
    BY DEF Typed, Text, Disks, FileStates
  <2> QED
    BY <1>1, <1>6, <2>1, LoadedTyped DEF ReloadFromDisk
<1>7. CASE SendOwed
  <2>1. [app EXCEPT !.owed = FALSE].open = app.open
    BY <1>1 DEF Apps
  <2> QED
    BY <1>7, <2>1 DEF SendOwed
<1>8. CASE CloseRequested
  <2>1. [app EXCEPT !.confirm = TRUE].open = app.open
    BY <1>1 DEF Apps
  <2> QED
    BY <1>8, <2>1 DEF CloseRequested
<1>9. CASE Confirm
  BY <1>9 DEF Confirm
<1>10. CASE PowerCut
  BY <1>1, <1>10 DEF PowerCut, Dones
<1>11. CASE UNCHANGED app
  BY <1>11
<1> QED
  BY <1>2, <1>3, <1>4, <1>5, <1>6, <1>7, <1>8, <1>9, <1>10, <1>11
  DEF Next, EditOutside, Truncate, Rewrite, MigrateRead, MigrateWrite, HostStart, HostStop,
      Watch, Debounced, Reload, vars

\* Unsaved edits are lost only from the dialog or with the power: in particular
\* a save that closes the window was asked for in the dialog, and no error of a
\* save or of a reload closes it.
THEOREM ClosesWithConsentHolds == Spec => ClosesWithConsent
<1>1. Typed /\ Sound /\ [Next]_vars
        => [app.open /\ ~app'.open /\ Dirty(app) =>
              app.confirm \/ Renamed \/ done'.outside > done.outside]_vars
  BY StepHasConsent
<1> QED
  BY <1>1, WindowIsSound, PTL DEF Spec, ClosesWithConsent

-----------------------------------------------------------------------------
\* FileIsWhole: what is not synced is a migration's.

Whole == disk.file.whole /\ (disk.file.synced \/ cli.stage = "done")

LEMMA NextWhole ==
  ASSUME Typed, Sound, Whole, [Next]_vars, "cut-migrated" \notin Faults
  PROVE  Whole'
<1>1. /\ disk \in Disks /\ app.text \in Texts /\ cli \in Clis /\ cli.text \in Texts
      /\ disk.file \in FileStates
  BY DEF Typed, Apps, Clis, Disks
<1>2. ASSUME NEW text \in Texts, disk'.file = Saved(text)
      PROVE  Whole'
  BY <1>2, SavedTyped DEF Whole
<1>3. CASE UNCHANGED disk /\ (cli' = cli \/ cli.stage = "off")
  BY <1>3 DEF Whole, MigrateRead
<1>4. CASE Rename
  <2>1. CASE disk' = [disk EXCEPT !.file = Saved(app.text)]
    <3>1. disk'.file = Saved(app.text)
      BY <1>1, <2>1 DEF Disks
    <3> QED
      BY <1>1, <1>2, <3>1
  <2> QED
    BY <1>3, <1>4, <2>1 DEF Rename
<1>5. CASE EditOutside \/ Truncate \/ Rewrite
  <2>1. PICK text \in Texts, busy \in BOOLEAN :
           \/ disk' = [disk EXCEPT !.file = Saved(text)]
           \/ disk' = [disk EXCEPT !.file = Saved(text), !.busy = busy]
    BY <1>5, FilesTyped DEF EditOutside, Truncate, Rewrite
  <2>2. disk'.file = Saved(text)
    BY <1>1, <2>1 DEF Disks
  <2> QED
    BY <1>2, <2>2
<1>6. CASE MigrateWrite
  <2> DEFINE s == Saved(cli.text)
  <2>1. s \in FileStates /\ s.whole = TRUE
    BY <1>1, SavedTyped
  <2>2. disk' = [disk EXCEPT !.file = [s EXCEPT !.synced = FALSE]]
        /\ cli' = [cli EXCEPT !.stage = "done"]
    BY <1>6 DEF MigrateWrite
  <2> HIDE DEF s
  <2>3. disk'.file.whole = TRUE /\ cli'.stage = "done"
    BY <1>1, <2>1, <2>2 DEF Disks, FileStates, Clis
  <2> QED
    BY <2>3 DEF Whole
<1>7. CASE PowerCut
  <2>1. PICK whole \in BOOLEAN :
          /\ whole \/ ~disk.file.synced
          /\ disk' = [disk EXCEPT !.file.whole = whole, !.file.synced = TRUE, !.busy = FALSE]
    BY <1>7 DEF PowerCut
  <2>2. disk.file.synced
    BY <1>7 DEF PowerCut, Whole
  <2>3. disk'.file.whole = whole /\ disk'.file.synced = TRUE
    BY <1>1, <2>1, CutTyped
  <2> QED
    BY <2>1, <2>2, <2>3 DEF Whole
<1> QED
  BY <1>3, <1>4, <1>5, <1>6, <1>7
  DEF Next, Edit, Save, Backup, ReloadFromDisk, SendOwed, CloseRequested, Confirm,
      MigrateRead, HostStart, HostStop, Watch, Debounced, Reload, vars

\* Whatever is written when, a power failure leaves a whole file: what a save
\* renames into place is synced.  The hypothesis keeps out the one writer that
\* does not sync, migrate_config, and only at that moment.
THEOREM FileIsWholeHolds ==
  ASSUME "cut-migrated" \notin Faults
  PROVE  Spec => []FileIsWhole
<1>1. Init => Typed /\ Sound /\ Whole
  BY InitTyped DEF Whole
<1>2. Typed /\ Sound /\ Whole /\ [Next]_vars => (Typed /\ Sound /\ Whole)'
  BY NextTyped, NextSound, NextWhole
<1>3. Whole => FileIsWhole
  BY DEF Whole, FileIsWhole
<1> QED
  BY <1>1, <1>2, <1>3, PTL DEF Spec

-----------------------------------------------------------------------------
\* OverwritesWhatItSaw: between a save's check and its rename nobody else
\* writes.

Seen == /\ app.stage # "idle" => Text = app.seen
        /\ app.stage = "rename" => app.bak = Text

LEMMA NextSeen ==
  ASSUME Typed, Sound, Seen, [Next]_vars, "window" \notin Faults
  PROVE  Seen'
<1>1. app \in Apps /\ Text \in Texts
  BY DEF Typed, Text, Disks, FileStates
<1>2. ASSUME app'.stage = "idle"
      PROVE  Seen'
  BY <1>2 DEF Seen
<1>3. ASSUME UNCHANGED disk, app'.stage \in {"idle", app.stage}, app'.seen = app.seen,
             app'.bak = app.bak
      PROVE  Seen'
  BY <1>3 DEF Seen, Text
<1>4. ASSUME UNCHANGED disk, app'.stage = Checked.stage, app'.seen = Checked.seen
      PROVE  Seen'
  <2>1. /\ Checked.stage \in {"idle", "backup"} /\ Checked.seen = app.seen
        /\ Checked.stage = "backup" => Text = app.seen
    BY <1>1, CheckedTyped
  <2>2. Text' = Text
    BY <1>4 DEF Text
  <2> QED
    BY <1>4, <2>1, <2>2 DEF Seen
<1>5. CASE Edit
  BY <1>1, <1>2, <1>5, EditMakes
<1>6. CASE Save
  BY <1>4, <1>6 DEF Save
<1>7. CASE Backup
  <2>1. CASE app' = [app EXCEPT !.stage = "rename", !.bak = Text]
    <3>1. app'.stage = "rename" /\ app'.bak = Text /\ app'.seen = app.seen
      BY <1>1, <2>1 DEF Apps
    <3>2. app.stage = "backup" /\ Text' = Text
      BY <1>7 DEF Backup, Text
    <3> QED
      BY <3>1, <3>2 DEF Seen
  <2>2. CASE app' = Refused(app)
    BY <1>1, <1>2, <2>2, RefusedTyped
  <2> QED
    BY <1>7, <2>1, <2>2 DEF Backup
<1>8. CASE Rename
  <2>1. CASE app' = Refused(app)
    BY <1>1, <1>2, <2>1, RefusedTyped
  <2>2. CASE \E told \in {FALSE, host.up} : app' = Commit(told)
    <3>1. PICK told \in BOOLEAN : app' = Commit(told)
      BY <2>2 DEF Typed, Hosts
    <3> QED
      BY <1>1, <1>2, <3>1, CommitTyped
  <2> QED
    BY <1>8, <2>1, <2>2 DEF Rename
<1>9. CASE ReloadFromDisk
  BY <1>1, <1>2, <1>9, LoadedTyped DEF ReloadFromDisk
<1>10. CASE SendOwed
  <2>1. [app EXCEPT !.owed = FALSE].stage = app.stage
    BY <1>1 DEF Apps
  <2> QED
    BY <1>2, <1>10, <2>1 DEF SendOwed
<1>11. ASSUME NEW asks \in BOOLEAN, app.stage = "idle", app' = [app EXCEPT !.confirm = asks]
       PROVE  Seen'
  <2>1. app'.stage = app.stage
    BY <1>1, <1>11 DEF Apps
  <2> QED
    BY <1>2, <1>11, <2>1
<1>12. CASE app' = Closed
  BY <1>2, <1>12, ClosedTyped
<1>13. CASE CloseRequested
  BY <1>11, <1>12, <1>13 DEF CloseRequested
<1>14. CASE Confirm
  <2> DEFINE c == Checked
             b == [c EXCEPT !.closing = TRUE]
  <2>1. c \in Apps
    BY <1>1, CheckedTyped
  <2>2. CASE app' = b
    <3> HIDE DEF c
    <3>1. app'.stage = c.stage /\ app'.seen = c.seen
      BY <2>1, <2>2 DEF Apps
    <3> QED
      BY <1>4, <1>14, <3>1 DEF c, Confirm
  <2>3. CASE app' = c
    BY <1>4, <1>14, <2>3 DEF Confirm
  <2> QED
    BY <1>11, <1>12, <1>14, <2>2, <2>3 DEF Confirm
<1>15. CASE MayChange /\ UNCHANGED app
  <2>1. app.stage = "idle"
    BY <1>15 DEF MayChange
  <2> QED
    BY <1>2, <1>15, <2>1
<1>16. CASE UNCHANGED <<disk, app>>
  BY <1>3, <1>16
<1> QED
  BY <1>5, <1>6, <1>7, <1>8, <1>9, <1>10, <1>12, <1>13, <1>14, <1>15, <1>16
  DEF Next, EditOutside, Truncate, Rewrite, MigrateRead, MigrateWrite, HostStart, HostStop,
      Watch, Debounced, Reload, PowerCut, vars

\* A save replaces only the text that its window loaded or wrote last, and has
\* copied that text to the .bak, through any number of saves, reloads, failed
\* writes and power failures, if no one writes while a save is between its
\* check and its rename (the code has no lock that could keep them out).
THEOREM OverwritesWhatItSawHolds ==
  ASSUME "window" \notin Faults
  PROVE  Spec => OverwritesWhatItSaw
<1>1. Init => Typed /\ Sound /\ Seen
  BY InitTyped DEF Seen
<1>2. Typed /\ Sound /\ Seen /\ [Next]_vars => (Typed /\ Sound /\ Seen)'
  BY NextTyped, NextSound, NextSeen
<1>3. Seen => [Renamed => /\ Text = app.seen
                          /\ disk.file.there => app.bak = Text]_vars
  BY DEF Seen, Renamed
<1> QED
  BY <1>1, <1>2, <1>3, PTL DEF Spec, OverwritesWhatItSaw

-----------------------------------------------------------------------------
\* HostFollowsFile: what changes the file stirs the watcher, so that a host
\* whose pets are not the file's still has a reload before it.

Reflects(pets, text) == Valid(Parse(text)) => pets = Parse(text)

Followed ==
  /\ host.watching => host.up /\ host.path
  /\ host.up /\ host.path /\ Settled => Reflects(host.loaded, Text)

LEMMA FollowsChange ==
  ASSUME host \in Hosts, Followed, Watched, "early" \notin Faults,
         host' = Stirred \/ \E told \in BOOLEAN : host' = Told(Stirred, told)
  PROVE  Followed'
<1> DEFINE s == Stirred
<1>1. /\ s \in Hosts /\ s.up = host.up /\ s.path = host.path /\ s.watching = host.watching
      /\ s.stirred = (host.stirred \/ host.watching)
  BY StirredTyped
<1> HIDE DEF s
<1>2. /\ host'.up = s.up /\ host'.path = s.path /\ host'.watching = s.watching
      /\ host'.stirred = s.stirred
  <2>1. ASSUME NEW told \in BOOLEAN, host' = Told(s, told)
        PROVE  /\ host'.up = s.up /\ host'.path = s.path /\ host'.watching = s.watching
               /\ host'.stirred = s.stirred
    BY <1>1, <2>1 DEF Told, Hosts
  <2> QED
    BY <2>1 DEF s
<1>3. host.up /\ host.path => host.watching
  BY DEF Watched
<1>4. host'.watching => host'.up /\ host'.path
  BY <1>1, <1>2 DEF Followed
<1>5. host'.up /\ host'.path => ~Settled'
  BY <1>1, <1>2, <1>3 DEF Settled
<1> QED
  BY <1>4, <1>5 DEF Followed

LEMMA FollowsRequest ==
  ASSUME host \in Hosts, Followed, UNCHANGED disk, NEW told \in BOOLEAN, host' = Told(host, told)
  PROVE  Followed'
<1>1. /\ host'.up = host.up /\ host'.path = host.path /\ host'.watching = host.watching
      /\ host'.stirred = host.stirred /\ host'.loaded = host.loaded
      /\ host'.asked = (host.asked \/ told)
  BY DEF Told, Hosts
<1>2. Text' = Text
  BY DEF Text
<1> QED
  BY <1>1, <1>2 DEF Followed, Settled

LEMMA NextFollowed ==
  ASSUME Typed, Followed, [Next]_vars, "early" \notin Faults
  PROVE  Followed'
<1>1. disk \in Disks /\ host \in Hosts /\ host.up \in BOOLEAN
  BY DEF Typed, Hosts
<1>2. ASSUME UNCHANGED disk
      PROVE  Text' = Text /\ disk'.busy = disk.busy
  BY <1>2 DEF Text
<1>3. CASE UNCHANGED <<disk, host>>
  BY <1>2, <1>3 DEF Followed, Settled
<1>4. CASE Rename
  <2>1. UNCHANGED <<disk, host>> \/ \E told \in BOOLEAN : host' = Told(Stirred, told)
    BY <1>1, <1>4 DEF Rename
  <2> QED
    BY <1>1, <1>3, <1>4, <2>1, FollowsChange DEF Rename
<1>5. CASE ReloadFromDisk \/ SendOwed
  <2>1. UNCHANGED disk /\ \E told \in BOOLEAN : host' = Told(host, told)
    BY <1>1, <1>5 DEF ReloadFromDisk, SendOwed
  <2> QED
    BY <1>1, <2>1, FollowsRequest
<1>6. CASE MayChange /\ host' = Stirred
  BY <1>1, <1>6, FollowsChange DEF MayChange
<1>7. CASE Truncate
  <2>1. disk'.busy = TRUE
    <3> DEFINE s == Saved(EmptyText)
    <3>1. disk' = [disk EXCEPT !.file = s, !.busy = TRUE]
      BY <1>7 DEF Truncate
    <3> HIDE DEF s
    <3> QED
      BY <1>1, <3>1 DEF Disks
  <2>2. CASE host' = host
    BY <2>1, <2>2 DEF Followed, Settled
  <2> QED
    BY <1>6, <1>7, <2>2 DEF Truncate
<1>8. CASE HostStart
  <2> DEFINE pets  == Parse(Text)
             there == disk.file.there
  <2>1. host' = [NoHost EXCEPT !.up = TRUE, !.path = there, !.loaded = pets] /\ UNCHANGED disk
    BY <1>8 DEF HostStart
  <2>2. Reflects(pets, Text)
    BY DEF Reflects
  <2> HIDE DEF pets, there
  <2>3. host'.watching = FALSE /\ host'.loaded = pets
    BY <2>1, NoHostTyped DEF Hosts
  <2> QED
    BY <1>2, <2>1, <2>2, <2>3 DEF Followed
<1>9. CASE host' = NoHost
  BY <1>9, NoHostTyped DEF Followed
<1>10. CASE Watch
  <2>1. /\ host'.up = host.up /\ host'.path = host.path /\ host.up /\ host.path
        /\ host'.stirred = host.stirred /\ host'.loaded = host.loaded
        /\ host'.asked = host.asked /\ UNCHANGED disk
    BY <1>1, <1>10 DEF Watch, Hosts
  <2> QED
    BY <1>2, <2>1 DEF Followed, Settled
<1>11. CASE Debounced
  <2>1. /\ host'.up = host.up /\ host'.path = host.path /\ host'.watching = host.watching
        /\ host'.asked = TRUE
    BY <1>1, <1>11 DEF Debounced, Hosts
  <2> QED
    BY <2>1 DEF Followed, Settled
<1>12. CASE Reload
  <2> DEFINE pets == IF host.path /\ Valid(Parse(Text)) THEN Parse(Text) ELSE host.loaded
  <2>1. host.path => Reflects(pets, Text)
    BY DEF Reflects
  <2>2. host' = [host EXCEPT !.asked = FALSE, !.loaded = pets] /\ UNCHANGED disk
    BY <1>12 DEF Reload
  <2> HIDE DEF pets
  <2>3. /\ host'.up = host.up /\ host'.path = host.path /\ host'.watching = host.watching
        /\ host'.loaded = pets
    BY <1>1, <2>2 DEF Hosts
  <2> QED
    BY <1>2, <2>1, <2>2, <2>3 DEF Followed
<1> QED
  BY <1>3, <1>4, <1>5, <1>6, <1>7, <1>8, <1>9, <1>10, <1>11, <1>12
  DEF Next, Edit, Save, Backup, CloseRequested, Confirm, EditOutside, Rewrite,
      MigrateRead, MigrateWrite, HostStop, PowerCut, vars

\* When nothing is under way the host runs the file's pets, whoever changed the
\* file and however often, if it did not change between the host's start and
\* the moment its watcher listens.
THEOREM HostFollowsFileHolds ==
  ASSUME "early" \notin Faults
  PROVE  Spec => []HostFollowsFile
<1>1. Init => Typed /\ Sound /\ Followed
  BY InitTyped, NoHostTyped DEF Followed
<1>2. Typed /\ Sound /\ Followed /\ [Next]_vars => (Typed /\ Sound /\ Followed)'
  BY NextTyped, NextSound, NextFollowed
<1>3. Followed => HostFollowsFile
  BY DEF Followed, HostFollowsFile, Settled, Reflects
<1> QED
  BY <1>1, <1>2, <1>3, PTL DEF Spec

-----------------------------------------------------------------------------
\* KeepsWhatWasNotEdited: every table of the document is that of one pet of the
\* baseline, and the table of a pet is found by its id.

\* The table that an unedited pet is written as.
LEMMA UneditedTable ==
  ASSUME NEW t \in Tables, NEW before \in PetConfigs
  PROVE  LET u == UpdateTable(t, TRUE, before, before)
         IN u = [t EXCEPT !.id = u.id]
<1> DEFINE u == UpdateTable(t, TRUE, before, before)
<1>1. /\ u \in Tables /\ u.note = t.note
      /\ u.mode = IF before.mode = before.mode THEN t.mode ELSE before.mode
      /\ u.alias = IF before.mode \notin {before.mode, ""} THEN "" ELSE t.alias
      /\ u.bongo = IF before.bongo = before.bongo THEN t.bongo
                   ELSE IF before.bongo = "default" THEN "" ELSE before.bongo
  BY UpdatedKnown, Zenon
<1> HIDE DEF u
<1>2. u.mode = t.mode /\ u.alias = t.alias /\ u.bongo = t.bongo
  BY <1>1
<1>3. u = [t EXCEPT !.id = u.id]
  BY <1>1, <1>2 DEF Tables
<1> QED
  BY <1>3 DEF u

\* What it keeps of an edited one.
LEMMA UpdatedKeeps ==
  ASSUME NEW t \in Tables, NEW before \in PetConfigs, NEW after \in PetConfigs
  PROVE  /\ UpdateTable(t, TRUE, before, after).id = after.id
         /\ UpdateTable(t, TRUE, before, after).note = t.note
         /\ UpdateTable(NoTable, FALSE, after, after).id = after.id
<1> DEFINE u == UpdateTable(t, TRUE, before, after)
           v == UpdateTable(NoTable, FALSE, after, after)
<1>1. /\ u \in Tables /\ u.id = after.id /\ u.note = t.note
      /\ u.mode = IF after.mode = before.mode THEN t.mode ELSE after.mode
      /\ u.alias = IF after.mode \notin {before.mode, ""} THEN "" ELSE t.alias
      /\ u.bongo = IF before.bongo = after.bongo THEN t.bongo
                   ELSE IF after.bongo = "default" THEN "" ELSE after.bongo
  BY UpdatedKnown, ZenonT(30)
<1>2. NoTable \in Tables
  BY NoTableTyped
<1>3. /\ v \in Tables /\ v.id = after.id /\ v.note = NoTable.note
      /\ v.mode = IF after.mode = "" THEN NoTable.mode ELSE after.mode
      /\ v.alias = IF after.mode # "" THEN "" ELSE NoTable.alias
      /\ v.bongo = IF after.bongo = "default" THEN "" ELSE after.bongo
  BY <1>2, UpdatedNew, Zenon
<1> HIDE DEF u, v
<1>4. u.id = after.id /\ u.note = t.note /\ v.id = after.id
  BY <1>1, <1>3
<1> QED
  BY <1>4 DEF u, v

\* What a document reads as has a pet for each of its tables.
LEMMA EveryTableRead ==
  ASSUME NEW doc \in Seq(Tables), NEW i \in DOMAIN doc
  PROVE  /\ Normalize(Parse(Document(doc))) \in Seq(PetConfigs)
         /\ i \in DOMAIN Normalize(Parse(Document(doc)))
<1> DEFINE pets == Parse(Document(doc))
<1>1. pets \in Seq(PetConfigs) /\ (doc # <<>> => DOMAIN pets = DOMAIN doc)
  BY ParseDocument
<1>2. doc # <<>>
  BY ElementTyped
<1> HIDE DEF pets
<1>3. Normalize(pets) \in Seq(PetConfigs) /\ DOMAIN Normalize(pets) = DOMAIN pets
  BY <1>1, NormalizeTyped
<1> QED
  BY <1>1, <1>2, <1>3 DEF pets

\* The pet's id is that of the table it is written to.
LEMMA SyncedId ==
  ASSUME NEW doc \in Seq(Tables), NEW baseline \in Seq(PetConfigs),
         NEW draft \in Seq(PetConfigs), NEW n \in DOMAIN draft
  PROVE  SyncDocument(doc, baseline, draft)[n].id = draft[n].id
<1> DEFINE u == SyncDocument(doc, baseline, draft)[n]
<1>1. /\ draft[n] \in PetConfigs
      /\ \A j \in DOMAIN baseline : baseline[j] \in PetConfigs /\ Known(doc, j) \in Tables
  BY ElementTyped, KnownTyped
<1>2. \/ u = UpdateTable(NoTable, FALSE, draft[n], draft[n])
      \/ \E j \in DOMAIN baseline :
           u = UpdateTable(Known(doc, j), TRUE, baseline[j], draft[n])
  BY SyncedTable
<1> HIDE DEF u
<1>3. UpdateTable(NoTable, FALSE, draft[n], draft[n]).id = draft[n].id
  BY <1>1, NoTableTyped, UpdatedKeeps
<1>4. \A j \in DOMAIN baseline :
        UpdateTable(Known(doc, j), TRUE, baseline[j], draft[n]).id = draft[n].id
  BY <1>1, UpdatedKeeps
<1>5. u.id = draft[n].id
  BY <1>2, <1>3, <1>4
<1> QED
  BY <1>5 DEF u

LEMMA SyncKeeps ==
  ASSUME NEW doc \in Seq(Tables), NEW baseline \in Seq(PetConfigs),
         NEW draft \in Seq(PetConfigs), NEW n \in DOMAIN draft,
         NEW i \in DOMAIN doc, i \in DOMAIN baseline, baseline[i].id = draft[n].id,
         \A j \in DOMAIN baseline : baseline[j].id = draft[n].id => j = i
  PROVE  LET t == SyncDocument(doc, baseline, draft)[n]
         IN /\ t.note = doc[i].note
            /\ draft[n] = baseline[i] => t = [doc[i] EXCEPT !.id = t.id]
<1> DEFINE t == SyncDocument(doc, baseline, draft)[n]
           u == UpdateTable(doc[i], TRUE, baseline[i], draft[n])
<1>1. t = u
  BY OnlyTable
<1>2. doc[i] \in Tables /\ draft[n] \in PetConfigs /\ baseline[i] \in PetConfigs
  BY ElementTyped
<1>3. u.note = doc[i].note
  BY <1>2, UpdatedKeeps
<1>4. draft[n] = baseline[i] => u = [doc[i] EXCEPT !.id = u.id]
  BY <1>2, UneditedTable
<1> HIDE DEF t, u
<1>5. /\ t.note = doc[i].note
      /\ draft[n] = baseline[i] => t = [doc[i] EXCEPT !.id = t.id]
  BY <1>1, <1>3, <1>4
<1> QED
  BY <1>5 DEF t

LEMMA StepKeeps ==
  ASSUME Typed, Sound, Whole, [Next]_vars, "cut-migrated" \notin Faults, Renamed,
         NEW n \in DOMAIN disk'.file.text.tables, NEW i \in DOMAIN app.doc
  PROVE  LET t == disk'.file.text.tables[n]
             only == \A j \in DOMAIN app.baseline : app.baseline[j].id = t.id => j = i
         IN  app.baseline[i].id = t.id /\ only =>
               /\ t.note = app.doc[i].note
               /\ Normalize(app.draft)[n] = app.baseline[i] => t = [app.doc[i] EXCEPT !.id = t.id]
<1> DEFINE doc   == app.doc
           base  == app.baseline
           draft == Normalize(app.draft)
           new   == SyncDocument(doc, base, draft)
<1>1. /\ app \in Apps /\ disk \in Disks /\ disk.file \in FileStates /\ app.text \in Texts
      /\ doc \in Seq(Tables) /\ base \in Seq(PetConfigs) /\ app.draft \in Seq(PetConfigs)
  BY DEF Typed, Apps, Disks
<1>2. app.stage = "rename" /\ app'.stage # "rename" /\ disk'.file # disk.file
  BY DEF Renamed
<1>3. base = Normalize(Parse(Document(doc))) /\ app.text = Document(new)
  BY <1>2 DEF Sound, Opened, Saving
<1>4. draft \in Seq(PetConfigs)
  BY <1>1, NormalizeTyped
<1>5. disk'.file.text = app.text
  <2>1. CASE Rename
    <3> DEFINE s == Saved(app.text)
    <3>1. s.text = app.text
      BY <1>1, SavedTyped
    <3>2. disk' = [disk EXCEPT !.file = s]
      BY <1>2, <2>1 DEF Rename
    <3> HIDE DEF s
    <3> QED
      BY <1>1, <3>1, <3>2 DEF Disks
  <2>2. CASE PowerCut
    <3>1. PICK whole \in BOOLEAN :
            /\ whole \/ ~disk.file.synced
            /\ disk' = [disk EXCEPT !.file.whole = whole, !.file.synced = TRUE, !.busy = FALSE]
      BY <2>2 DEF PowerCut
    <3>2. disk.file.synced = TRUE /\ disk.file.whole = TRUE
      BY <1>1, <2>2 DEF PowerCut, Whole, FileStates
    <3>3. /\ disk'.file \in FileStates
          /\ disk'.file.whole = TRUE /\ disk'.file.synced = TRUE
          /\ disk'.file.there = disk.file.there /\ disk'.file.text = disk.file.text
      <4>1. disk' \in Disks
        BY <1>1, <3>1, CutTyped
      <4>2. disk'.file \in FileStates
        BY <4>1 DEF Disks
      <4> QED
        BY <1>1, <3>1, <3>2, <4>2, CutTyped
    <3>4. disk'.file = disk.file
      BY <1>1, <3>2, <3>3 DEF FileStates
    <3> QED
      BY <1>2, <3>4
  <2>3. CASE UNCHANGED disk \/ UNCHANGED app
    BY <1>2, <2>3
  <2> QED
    BY <2>1, <2>2, <2>3
    DEF Next, Edit, Save, Backup, ReloadFromDisk, SendOwed, CloseRequested, Confirm,
        EditOutside, Truncate, Rewrite, MigrateRead, MigrateWrite, HostStart, HostStop,
        Watch, Debounced, Reload, vars
<1> HIDE DEF draft, doc, base
<1>6. DOMAIN new = DOMAIN draft
  BY <1>1, <1>4, SyncTyped
<1>7. disk'.file.text.tables = new
  BY <1>3, <1>5 DEF Document
<1> HIDE DEF new
<1>8. base \in Seq(PetConfigs) /\ i \in DOMAIN base
  BY <1>1, <1>3, EveryTableRead DEF doc
<1>9. n \in DOMAIN draft /\ i \in DOMAIN doc
  BY <1>6, <1>7 DEF doc
<1>10. new[n].id = draft[n].id
  BY <1>1, <1>4, <1>9, SyncedId DEF new
<1>11. ASSUME base[i].id = draft[n].id,
              \A j \in DOMAIN base : base[j].id = draft[n].id => j = i
       PROVE  /\ new[n].note = doc[i].note
              /\ draft[n] = base[i] => new[n] = [doc[i] EXCEPT !.id = new[n].id]
  <2> HIDE <1>3
  <2> QED
    BY <1>1, <1>4, <1>8, <1>9, <1>11, SyncKeeps, SMTT(20) DEF new
<1> DEFINE t == new[n]
<1> HIDE DEF t
<1>12. base[i].id = t.id /\ (\A j \in DOMAIN base : base[j].id = t.id => j = i) =>
         /\ t.note = doc[i].note
         /\ draft[n] = base[i] => t = [doc[i] EXCEPT !.id = t.id]
  BY <1>10, <1>11 DEF t
<1>13. disk'.file.text.tables[n] = t
  BY <1>7 DEF t
<1> QED
  BY <1>12, <1>13 DEF draft, doc, base

\* However the pets are edited, moved, copied and deleted, in any document: the
\* table of a pet left alone is written back as it was, and that of an edited
\* one keeps its comments.
THEOREM KeepsWhatWasNotEditedHolds ==
  ASSUME "cut-migrated" \notin Faults
  PROVE  Spec => KeepsWhatWasNotEdited
<1>1. Init => Typed /\ Sound /\ Whole
  BY InitTyped DEF Whole
<1>2. Typed /\ Sound /\ Whole /\ [Next]_vars => (Typed /\ Sound /\ Whole)'
  BY NextTyped, NextSound, NextWhole
<1>3. Typed /\ Sound /\ Whole /\ [Next]_vars
        => [Renamed => \A n \in DOMAIN disk'.file.text.tables : \A i \in DOMAIN app.doc :
             LET t == disk'.file.text.tables[n]
                 only == \A j \in DOMAIN app.baseline : app.baseline[j].id = t.id => j = i
             IN  app.baseline[i].id = t.id /\ only =>
                   /\ t.note = app.doc[i].note
                   /\ Normalize(app.draft)[n] = app.baseline[i]
                        => t = [app.doc[i] EXCEPT !.id = t.id]]_vars
  BY StepKeeps
<1> QED
  BY <1>1, <1>2, <1>3, PTL DEF Spec, KeepsWhatWasNotEdited
=============================================================================
