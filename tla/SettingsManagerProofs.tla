------------------------- MODULE SettingsManagerProofs -------------------------
(***************************************************************************)
(* Proofs about the dictionary manager, for any projects and entries, any  *)
(* sizes of the pages and of the list, any number of failing calls and any *)
(* number of changes by the editor.                                        *)
(***************************************************************************)
EXTENDS SettingsManager, FiniteSetTheorems, SequenceTheorems,
        WellFoundedInduction, TLAPS

-----------------------------------------------------------------------------
(***************************************************************************)
(* Sorted sets.                                                            *)
(***************************************************************************)

\* The principle by which the lemma after it is proved: among numbers there is
\* a least.
LEMMA Least ==
  ASSUME NEW T \in SUBSET Nat, T # {}
  PROVE  \E x \in T : \A y \in T : x <= y
<1> DEFINE R == {ss \in Nat \X Nat : ss[1] < ss[2]}
<1>1. IsWellFoundedOn(R, Nat)
  BY NatLessThanWellFounded DEF OpToRel
<1>2. PICK x \in T : \A y \in T : ~(<<y, x>> \in R)
  BY <1>1, WFMin
<1>3. \A y \in T : ~(y < x)
  BY <1>2
<1>4. \A y \in T : x \in Nat /\ y \in Nat
  OBVIOUS
<1> HIDE DEF R
<1>5. QED BY <1>3, <1>4

IsSorted(s, S) ==
  /\ s \in [1..Cardinality(S) -> S]
  /\ \A i, j \in DOMAIN s : i < j => s[i] < s[j]

\* Every finite set of numbers can be sorted: by its least element and the rest,
\* which would otherwise be a smaller set that cannot.
LEMMA SortedExists ==
  ASSUME NEW S \in SUBSET Nat, IsFiniteSet(S)
  PROVE  \E s : IsSorted(s, S)
<1> DEFINE Bad(X) == IsFiniteSet(X) /\ ~\E s : IsSorted(s, X)
           T == {n \in Nat : \E X \in SUBSET Nat : Bad(X) /\ Cardinality(X) = n}
<1>1. SUFFICES ASSUME T # {} PROVE FALSE
  <2>1. ~Bad(S) => \E s : IsSorted(s, S)
    OBVIOUS
  <2>2. Cardinality(S) \in Nat
    BY FS_CardinalityType
  <2>3. QED BY <2>1, <2>2
<1>2. PICK n \in T : \A y \in T : n <= y
  <2>1. T \in SUBSET Nat
    OBVIOUS
  <2> HIDE DEF T
  <2>2. QED BY <1>1, <2>1, Least
<1>3. PICK X \in SUBSET Nat : Bad(X) /\ Cardinality(X) = n
  BY <1>2
<1>4. X # {}
  <2>1. CASE X = {}
    <3>1. Cardinality(X) = 0
      BY <2>1, FS_EmptySet
    <3>2. IsSorted([i \in 1..0 |-> 0], X)
      BY <3>1 DEF IsSorted
    <3>3. QED BY <1>3, <3>2
  <2>2. QED BY <2>1
<1>5. PICK x \in X : \A y \in X : x <= y
  BY <1>4, Least
<1>6. /\ X \ {x} \in SUBSET Nat
      /\ IsFiniteSet(X \ {x})
      /\ n \in Nat \ {0}
      /\ Cardinality(X \ {x}) = n - 1
  <2>1. IsFiniteSet(X)
    BY <1>3
  <2>2. /\ IsFiniteSet(X \ {x})
        /\ Cardinality(X \ {x}) = Cardinality(X) - 1
    BY <2>1, <1>5, FS_RemoveElement
  <2>3. Cardinality(X) # 0
    BY <1>4, <2>1, FS_EmptySet
  <2>4. n \in Nat
    BY <1>2
  <2>5. QED BY <1>3, <2>2, <2>3, <2>4
<1>7. n - 1 \notin T
  BY <1>2, <1>6
<1>8. PICK t : IsSorted(t, X \ {x})
  <2>1. ~Bad(X \ {x})
    BY <1>6, <1>7
  <2>2. QED BY <1>6, <2>1
<1> DEFINE s == [i \in 1..n |-> IF i = 1 THEN x ELSE t[i - 1]]
<1>9. /\ DOMAIN t = 1..(n - 1)
      /\ \A i \in 1..(n - 1) : t[i] \in X \ {x}
      /\ \A i, j \in 1..(n - 1) : i < j => t[i] < t[j]
  BY <1>6, <1>8 DEF IsSorted
<1>10. \A i \in 2..n : i - 1 \in 1..(n - 1)
  BY <1>6
<1>11. s \in [1..n -> X]
  BY <1>5, <1>6, <1>9, <1>10
<1>12. ASSUME NEW i \in 1..n, NEW j \in 1..n, i < j
       PROVE  s[i] < s[j]
  <2>1. j \in 2..n /\ s[j] = t[j - 1] /\ t[j - 1] \in X \ {x}
    BY <1>6, <1>9, <1>10, <1>12
  <2>2. CASE i = 1
    <3>1. s[i] = x
      BY <2>2
    <3>2. x <= t[j - 1] /\ x # t[j - 1] /\ x \in Nat /\ t[j - 1] \in Nat
      BY <1>3, <1>5, <2>1
    <3> HIDE DEF s
    <3>3. QED BY <2>1, <3>1, <3>2
  <2>3. CASE i # 1
    <3>1. i \in 2..n /\ s[i] = t[i - 1] /\ i - 1 < j - 1
      BY <1>6, <1>12, <2>3
    <3> HIDE DEF s
    <3>2. QED BY <1>9, <1>10, <2>1, <3>1
  <2>4. QED BY <2>2, <2>3
<1>13. IsSorted(s, X)
  BY <1>3, <1>11, <1>12 DEF IsSorted
<1>14. QED BY <1>3, <1>13

LEMMA SortedIs ==
  ASSUME NEW S \in SUBSET Nat, IsFiniteSet(S)
  PROVE  /\ Sorted(S) \in Seq(S)
         /\ Len(Sorted(S)) = Cardinality(S)
         /\ Cardinality(S) \in Nat
         /\ \A i, j \in 1..Cardinality(S) : i < j => Sorted(S)[i] < Sorted(S)[j]
<1>1. PICK s : IsSorted(s, S)
  BY SortedExists
<1>2. IsSorted(Sorted(S), S)
  BY <1>1 DEF IsSorted, Sorted
<1>3. Cardinality(S) \in Nat
  BY FS_CardinalityType
<1>4. QED BY <1>2, <1>3 DEF IsSorted

-----------------------------------------------------------------------------
(***************************************************************************)
(* Pages of a list.                                                        *)
(***************************************************************************)
LEMMA SliceIs ==
  ASSUME NEW T, NEW s \in Seq(T), NEW b \in 0..Len(s), NEW n \in Nat
  PROVE  /\ Slice(s, b, n) \in Seq(T)
         /\ Len(Slice(s, b, n)) = IF b + n < Len(s) THEN n ELSE Len(s) - b
         /\ Len(Slice(s, b, n)) \in 0..n
         /\ b + Len(Slice(s, b, n)) <= Len(s)
         /\ \A i \in 1..Len(Slice(s, b, n)) : Slice(s, b, n)[i] = s[b + i]
<1> DEFINE m == IF b + n < Len(s) THEN n ELSE Len(s) - b
           c == [i \in 1..m |-> s[b + i]]
<1>1. m \in Nat /\ m <= n /\ b + m <= Len(s)
  OBVIOUS
<1>2. Slice(s, b, n) = c
  BY DEF Slice
<1> HIDE DEF m
<1>3. \A i \in 1..m : b + i \in 1..Len(s)
  BY <1>1
<1>4. c \in Seq(T) /\ Len(c) = m /\ \A i \in 1..m : c[i] = s[b + i]
  BY <1>1, <1>3
<1>5. m = IF b + n < Len(s) THEN n ELSE Len(s) - b
  BY DEF m
<1> HIDE DEF c
<1>6. QED BY <1>1, <1>2, <1>4, <1>5

\* The whole is a page, and two pages that meet are one.
LEMMA SliceJoins ==
  ASSUME NEW T, NEW s \in Seq(T)
  PROVE  /\ Slice(s, 0, Len(s)) = s
         /\ Slice(s, 0, 0) = <<>>
         /\ \A b \in 0..Len(s), n \in Nat :
              Slice(s, 0, b) \o Slice(s, b, n) =
                Slice(s, 0, b + Len(Slice(s, b, n)))
<1>1. Len(s) \in Nat
  OBVIOUS
<1>2. \A b \in 0..Len(s) :
        /\ Slice(s, 0, b) \in Seq(T) /\ Len(Slice(s, 0, b)) = b
        /\ \A i \in 1..b : Slice(s, 0, b)[i] = s[i]
  <2> TAKE b \in 0..Len(s)
  <2>1. (IF 0 + b < Len(s) THEN b ELSE Len(s) - 0) = b
    BY <1>1
  <2>2. \A i \in 1..b : s[0 + i] = s[i]
    OBVIOUS
  <2>3. 0 \in 0..Len(s) /\ b \in Nat
    BY <1>1
  <2>4. /\ Slice(s, 0, b) \in Seq(T)
        /\ Len(Slice(s, 0, b)) = IF 0 + b < Len(s) THEN b ELSE Len(s) - 0
        /\ \A i \in 1..Len(Slice(s, 0, b)) : Slice(s, 0, b)[i] = s[0 + i]
    BY <2>3, SliceIs
  <2>5. QED BY <2>1, <2>2, <2>4
<1>3. Slice(s, 0, Len(s)) = s
  BY <1>1, <1>2, SeqEqual
<1>4. Slice(s, 0, 0) = <<>>
  BY <1>1, <1>2, EmptySeq
<1>5. ASSUME NEW b \in 0..Len(s), NEW n \in Nat
      PROVE  Slice(s, 0, b) \o Slice(s, b, n) =
                Slice(s, 0, b + Len(Slice(s, b, n)))
  <2> DEFINE m == Len(Slice(s, b, n))
             l == Slice(s, 0, b)
             r == Slice(s, b, n)
             w == Slice(s, 0, b + m)
  <2>1. /\ m \in Nat /\ b + m \in 0..Len(s)
        /\ r \in Seq(T)
        /\ \A i \in 1..m : r[i] = s[b + i]
    <3>1. m \in 0..n /\ b + m <= Len(s) /\ r \in Seq(T)
          /\ \A i \in 1..m : r[i] = s[b + i]
      BY SliceIs
    <3> HIDE DEF m, r
    <3>2. QED BY <1>1, <3>1
  <2> HIDE DEF m
  <2>2. l \in Seq(T) /\ Len(l) = b /\ \A i \in 1..b : l[i] = s[i]
    BY <1>2
  <2>3. w \in Seq(T) /\ Len(w) = b + m /\ \A i \in 1..(b + m) : w[i] = s[i]
    BY <1>2, <2>1
  <2>4. Len(r) = m
    BY DEF m
  <2> HIDE DEF l, r, w
  <2>5. /\ l \o r \in Seq(T) /\ Len(l \o r) = b + m
        /\ \A i \in 1..(b + m) : (l \o r)[i] = IF i <= b THEN l[i] ELSE r[i - b]
    BY <2>1, <2>2, <2>4, ConcatProperties
  <2>6. \A i \in 1..(b + m) : (l \o r)[i] = w[i]
    <3> TAKE i \in 1..(b + m)
    <3>1. CASE i <= b
      <4>1. i \in 1..b
        BY <2>1, <3>1
      <4>2. l[i] = s[i]
        BY <2>2, <4>1
      <4>3. QED BY <2>3, <2>5, <3>1, <4>2
    <3>2. CASE ~(i <= b)
      <4>1. i - b \in 1..m /\ b + (i - b) = i
        BY <2>1, <3>2
      <4>2. r[i - b] = s[i]
        BY <2>1, <4>1
      <4>3. QED BY <2>3, <2>5, <3>2, <4>2
    <3>3. QED BY <3>1, <3>2
  <2>7. l \o r = w
    BY <2>3, <2>5, <2>6, SeqEqual
  <2>8. QED BY <2>7 DEF m, l, r, w
<1>6. QED BY <1>3, <1>4, <1>5

-----------------------------------------------------------------------------
(***************************************************************************)
(* What the service holds and answers.                                     *)
(***************************************************************************)
Stores == [Projects -> [exists: BOOLEAN, enabled: BOOLEAN,
                        entries: SUBSET Entries]]

\* The dictionaries and the entries of one, in their order, and the cursors of
\* either.
LEMMA SortedFacts ==
  /\ Existing \subseteq Projects
  /\ Sorted(Existing) \in Seq(Projects)
  /\ Len(Sorted(Existing)) = Cardinality(Existing)
  /\ Cardinality(Existing) \in Cursors
  /\ \A S \in SUBSET Projects :
       /\ Sorted(S) \in Seq(Projects)
       /\ Len(Sorted(S)) = Cardinality(S)
       /\ Cardinality(S) \in Cursors
  /\ \A S \in SUBSET Entries :
       /\ Sorted(S) \in Seq(Entries)
       /\ Len(Sorted(S)) = Cardinality(S)
       /\ Cardinality(S) \in Cursors
  /\ Cursors \subseteq Nat
  /\ 0 \in Cursors
<1>1. /\ Cardinality(Projects) \in Nat
      /\ Cardinality(Entries) \in Nat
  BY ManagerAssumption, FS_CardinalityType
<1>2. ASSUME NEW S \in SUBSET Projects
      PROVE  /\ Sorted(S) \in Seq(Projects)
             /\ Len(Sorted(S)) = Cardinality(S)
             /\ Cardinality(S) \in Cursors
  <2>1. IsFiniteSet(S) /\ Cardinality(S) <= Cardinality(Projects)
    BY ManagerAssumption, FS_Subset
  <2>2. S \in SUBSET Nat
    BY ManagerAssumption
  <2>3. /\ Sorted(S) \in Seq(S)
        /\ Len(Sorted(S)) = Cardinality(S)
        /\ Cardinality(S) \in Nat
    BY <2>1, <2>2, SortedIs
  <2>4. Sorted(S) \in Seq(Projects)
    BY <2>3, SeqMonotonic
  <2>5. QED BY <1>1, <2>1, <2>3, <2>4 DEF Cursors
<1>3. ASSUME NEW S \in SUBSET Entries
      PROVE  /\ Sorted(S) \in Seq(Entries)
             /\ Len(Sorted(S)) = Cardinality(S)
             /\ Cardinality(S) \in Cursors
  <2>1. IsFiniteSet(S) /\ Cardinality(S) <= Cardinality(Entries)
    BY ManagerAssumption, FS_Subset
  <2>2. S \in SUBSET Nat
    BY ManagerAssumption
  <2>3. /\ Sorted(S) \in Seq(S)
        /\ Len(Sorted(S)) = Cardinality(S)
        /\ Cardinality(S) \in Nat
    BY <2>1, <2>2, SortedIs
  <2>4. Sorted(S) \in Seq(Entries)
    BY <2>3, SeqMonotonic
  <2>5. QED BY <1>1, <2>1, <2>3, <2>4 DEF Cursors
<1>4. Existing \subseteq Projects
  BY DEF Existing
<1>5. Cursors \subseteq Nat /\ 0 \in Cursors
  BY <1>1 DEF Cursors
<1>6. QED BY <1>2, <1>3, <1>4, <1>5

LEMMA PageEndIs ==
  ASSUME NEW c \in Nat, NEW n \in Nat \ {0}, NEW total \in Cursors
  PROVE  /\ PageEnd(c, n, total) \in Cursors \cup {NoNextCursor}
         /\ PageEnd(c, n, total) = NoNextCursor <=> total <= c + n
         /\ PageEnd(c, n, total) # NoNextCursor =>
              PageEnd(c, n, total) = c + n /\ c + n < total
<1>1. total \in Nat /\ \A i \in Nat : i < total => i \in Cursors
  <2>1. /\ Cardinality(Projects) \in Nat
        /\ Cardinality(Entries) \in Nat
    BY ManagerAssumption, FS_CardinalityType
  <2>2. QED BY <2>1 DEF Cursors
<1>2. c + n \in Nat
  OBVIOUS
<1>3. QED BY <1>1, <1>2 DEF PageEnd, NoNextCursor

\* The answer to a request for projects.
LEMMA ListAnswer ==
  ASSUME TypeOK, CallInv, call.operation = "ListProjects"
  PROVE  /\ Response(call).operation = "ListProjects"
         /\ ValidResponse(Response(call))
         /\ Response(call).status = "Ok" =>
              /\ call.cursor \in 0..Len(Sorted(Existing))
              /\ Response(call).items =
                   Slice(Sorted(Existing), call.cursor, ProjectPage)
              /\ Response(call).next =
                   PageEnd(call.cursor, ProjectPage, Len(Sorted(Existing)))
<1> DEFINE all == Sorted(Existing)
           a == Response(call)
<1>1. /\ call \in Request /\ call.cursor \in Nat /\ call.size = ProjectPage
      /\ ProjectPage \in 1..512
  <2>1. call # NoCall /\ call \in Request
    BY DEF TypeOK, NoCall
  <2>2. call.cursor \in Nat
    BY <2>1, SortedFacts DEF Request
  <2>3. call = List(call.cursor)
    BY <2>1 DEF CallInv, Idle
  <2>4. List(call.cursor).size = ProjectPage
    BY DEF List, Ask
  <2>5. QED BY <2>1, <2>2, <2>3, <2>4, ManagerAssumption
<1>2. a = Page(call, all, Answer(call))
  BY DEF Response
<1>3. all \in Seq(Projects) /\ Len(all) \in Nat
  BY SortedFacts
<1>4. CASE call.cursor > Len(all)
  <2>1. a = Refusal(call, "MalformedRequest")
    BY <1>2, <1>4 DEF Page
  <2>2. QED BY <2>1 DEF Refusal, Answer, ValidResponse
<1>5. CASE ~(call.cursor > Len(all))
  <2>1. /\ a.status = "Ok" /\ a.operation = "ListProjects"
        /\ a.total = Len(all) /\ ~a.exists /\ ~a.enabled
        /\ a.next = PageEnd(call.cursor, ProjectPage, Len(all))
        /\ a.items = Slice(all, call.cursor, ProjectPage)
    BY <1>1, <1>2, <1>5 DEF Page, Answer
  <2>2. call.cursor \in 0..Len(all) /\ ProjectPage \in Nat
    <3> HIDE DEF all
    <3>1. QED BY <1>1, <1>3, <1>5
  <2>3. /\ Len(a.items) \in 0..ProjectPage
        /\ call.cursor + Len(a.items) <= Len(all)
    BY <1>3, <2>1, <2>2, SliceIs
  <2>4. Len(a.items) <= 512 /\ Len(a.items) <= Len(all)
    BY <1>1, <1>3, <2>3
  <2> HIDE DEF a, all
  <2>5. ValidResponse(a)
    BY <2>1, <2>4 DEF ValidResponse
  <2> USE DEF a, all
  <2>6. QED BY <2>1, <2>2, <2>5
<1>6. QED BY <1>4, <1>5

\* The answer to a request for a page of entries.
LEMMA ViewAnswer ==
  ASSUME TypeOK, CallInv, call.operation = "ViewProject"
  PROVE  LET d == store[ui.selected]
         IN /\ Response(call).operation = "ViewProject"
            /\ ValidResponse(Response(call))
            /\ Response(call).status = "Ok" =>
                 /\ d.exists
                 /\ Response(call).enabled = d.enabled
                 /\ Response(call).items =
                      Slice(Sorted(d.entries), call.cursor, EntryPage)
                 /\ Response(call).items \in Seq(Entries)
                 /\ Response(call).next \in Cursors \cup {NoNextCursor}
<1> DEFINE d == store[ui.selected]
           all == Sorted(d.entries)
           a == Response(call)
<1>1. /\ call \in Request /\ call.cursor \in Nat /\ call.size = EntryPage
      /\ EntryPage \in 1..128
      /\ call.project = ui.selected
  <2>1. call # NoCall /\ call \in Request
    BY DEF TypeOK, NoCall
  <2>2. call.cursor \in Nat
    BY <2>1, SortedFacts DEF Request
  <2>3. QED BY <2>1, <2>2, ManagerAssumption DEF CallInv, Idle
<1>2. /\ ui.selected \in Projects
      /\ d.exists \in BOOLEAN /\ d.entries \in SUBSET Entries
  <2>1. ui.selected \in Projects
    BY DEF TypeOK, Ui, CallInv, Idle, NoCall, Ids
  <2>2. QED BY <2>1 DEF TypeOK
<1>3. a = IF ~d.exists THEN Refusal(call, "NotFound")
          ELSE Page(call, all, Metadata(call, d))
  BY <1>1 DEF Response
<1>4. all \in Seq(Entries) /\ Len(all) \in Cursors /\ Len(all) \in Nat
  BY <1>2, SortedFacts
<1>5. CASE ~d.exists \/ call.cursor > Len(all)
  <2>1. PICK st \in {"NotFound", "MalformedRequest"} : a = Refusal(call, st)
    BY <1>3, <1>5 DEF Page
  <2>2. QED BY <2>1 DEF Refusal, Answer, ValidResponse
<1>6. CASE d.exists /\ ~(call.cursor > Len(all))
  <2>1. /\ a.status = "Ok" /\ a.operation = "ViewProject"
        /\ a.total = Len(all) /\ a.exists /\ a.enabled = d.enabled
        /\ a.next = PageEnd(call.cursor, EntryPage, Len(all))
        /\ a.items = Slice(all, call.cursor, EntryPage)
    BY <1>1, <1>3, <1>6 DEF Page, Metadata, Answer
  <2>2. call.cursor \in 0..Len(all) /\ EntryPage \in Nat
    <3> HIDE DEF all, a, d
    <3>1. call.cursor \in Nat /\ Len(all) \in Nat /\ ~(call.cursor > Len(all))
      BY <1>1, <1>4, <1>6
    <3>2. EntryPage \in Nat
      BY <1>1
    <3>3. QED BY <3>1, <3>2
  <2>3. /\ Len(a.items) \in 0..EntryPage
        /\ call.cursor + Len(a.items) <= Len(all)
        /\ a.items \in Seq(Entries)
    <3> HIDE DEF a, all
    <3>1. /\ Len(Slice(all, call.cursor, EntryPage)) \in 0..EntryPage
          /\ call.cursor + Len(Slice(all, call.cursor, EntryPage)) <= Len(all)
          /\ Slice(all, call.cursor, EntryPage) \in Seq(Entries)
      BY <1>4, <2>2, SliceIs
    <3>2. QED BY <2>1, <3>1
  <2>4. Len(a.items) <= 128 /\ Len(a.items) <= Len(all)
    <3> HIDE DEF a, all
    <3>1. QED BY <1>1, <1>4, <2>3
  <2>5. a.next \in Cursors \cup {NoNextCursor}
    <3> HIDE DEF a, all
    <3>1. EntryPage \in Nat \ {0}
      BY <1>1
    <3>2. PageEnd(call.cursor, EntryPage, Len(all)) \in Cursors \cup {NoNextCursor}
      BY <1>1, <1>4, <3>1, PageEndIs
    <3>3. QED BY <2>1, <3>2
  <2> HIDE DEF a, all
  <2>6. ValidResponse(a)
    BY <2>1, <2>4 DEF ValidResponse
  <2> USE DEF a, all
  <2>7. QED BY <1>6, <2>1, <2>3, <2>5, <2>6
<1>7. QED BY <1>2, <1>5, <1>6

\* The answer to a request for a change.
LEMMA ChangeAnswer ==
  ASSUME TypeOK, CallInv, ~Idle,
         call.operation \notin {"ListProjects", "ViewProject"}
  PROVE  /\ Response(call).operation = call.operation
         /\ call.operation \in {"SetEnabled", "RemoveProject", "UpsertTerm",
                                "RemoveEntry"}
         /\ ValidResponse(Response(call))
         /\ call.operation = "RemoveProject" => Response(call).status = "Ok"
<1>1. call \in Request /\ call.operation \in Operations
  BY DEF TypeOK, Idle, Request
<1>2. CASE call.operation = "RemoveProject"
  <2>1. Response(call) = Answer(call)
    BY <1>2 DEF Response
  <2>2. QED BY <1>2, <2>1 DEF Answer, ValidResponse
<1>3. CASE call.operation # "RemoveProject"
  <2>1. \/ Response(call) = Refusal(call, "NotFound")
        \/ Response(call) = Metadata(call, Changed(call))
    BY <1>3 DEF Response
  <2>2. CASE Response(call) = Refusal(call, "NotFound")
    BY <1>1, <1>3, <2>2 DEF Refusal, Answer, ValidResponse, Operations
  <2>3. CASE Response(call) = Metadata(call, Changed(call))
    BY <1>1, <1>3, <2>3 DEF Metadata, Answer, ValidResponse, Operations
  <2>4. QED BY <2>1, <2>2, <2>3
<1>4. QED BY <1>2, <1>3

\* What a request does to the dictionaries: only a removal takes one away.
LEMMA EffectIs ==
  ASSUME TypeOK, CallInv, ~Idle, ValidRequest(call),
         Effect(call) \/ UNCHANGED store
  PROVE  /\ store' \in Stores
         /\ call.operation # "RemoveProject" => Existing' = Existing
         /\ call.operation \in {"ListProjects", "ViewProject"} => store' = store
<1>1. /\ call \in Request /\ call.operation \in Operations /\ store \in Stores
      /\ call.enabled \in BOOLEAN
  BY DEF TypeOK, Idle, Request, Stores
<1>2. CASE UNCHANGED store
  BY <1>1, <1>2 DEF Existing
<1>3. CASE Effect(call) /\ call.operation \in {"ListProjects", "ViewProject"}
  BY <1>1, <1>3 DEF Effect, Existing
<1>4. ASSUME call.operation \notin {"ListProjects", "ViewProject"}
      PROVE  call.project \in Projects
  BY <1>4 DEF TypeOK, CallInv, Idle, Ui, Ids
<1>5. CASE Effect(call) /\ call.operation = "RemoveProject"
  <2>1. store' = [store EXCEPT ![call.project] =
                     [exists |-> FALSE, enabled |-> TRUE, entries |-> {}]]
    BY <1>5 DEF Effect
  <2>2. QED BY <1>1, <1>4, <1>5, <2>1 DEF Stores
<1>6. CASE /\ Effect(call)
           /\ call.operation \in {"SetEnabled", "UpsertTerm", "RemoveEntry"}
  <2> DEFINE d == store[call.project]
  <2>1. d \in [exists: BOOLEAN, enabled: BOOLEAN, entries: SUBSET Entries]
    BY <1>1, <1>4, <1>6 DEF Stores
  <2>2. call.operation = "UpsertTerm" => call.entry \in Entries
    BY <1>6 DEF ValidRequest
  <2>3. /\ Changed(call) \in [exists: BOOLEAN, enabled: BOOLEAN,
                              entries: SUBSET Entries]
        /\ Changed(call).exists = d.exists
    BY <1>1, <1>6, <2>1, <2>2 DEF Changed
  <2>4. store' = [store EXCEPT ![call.project] = Changed(call)] \/ store' = store
    BY <1>6 DEF Effect
  <2> HIDE DEF d
  <2>5. store' \in Stores
    BY <1>1, <2>3, <2>4 DEF Stores
  <2>6. \A p \in Projects : store'[p].exists = store[p].exists
    BY <1>1, <2>3, <2>4 DEF Stores, d
  <2>7. Existing' = Existing
    BY <2>6 DEF Existing
  <2>8. QED BY <1>6, <2>5, <2>7
<1>7. QED BY <1>1, <1>2, <1>3, <1>5, <1>6 DEF Operations

-----------------------------------------------------------------------------
(***************************************************************************)
(* The window.                                                             *)
(***************************************************************************)

\* What the window's helpers leave of the list of projects.
SameList(u, v) ==
  /\ u.ids = v.ids /\ u.rows = v.rows /\ u.listed = v.listed
  /\ u.selected = v.selected

LEMMA SetButtonsIs ==
  ASSUME NEW u \in Ui
  PROVE  /\ SetButtons(u) \in Ui
         /\ SameList(SetButtons(u), u)
         /\ SetButtons(u).entries = u.entries
         /\ SetButtons(u).cursor = u.cursor
         /\ SetButtons(u).enabled = u.enabled
         /\ u.selected = NoProject =>
              ~SetButtons(u).buttons.project /\ ~SetButtons(u).buttons.entry
<1> DEFINE on == u.selected # NoProject
           b == [project |-> on, entry |-> on /\ u.entry > 0,
                 previous |-> on /\ u.cursor > 0,
                 next |-> on /\ u.next # NoNextCursor]
<1>1. SetButtons(u) = [u EXCEPT !.buttons = b]
  BY DEF SetButtons
<1>2. b \in [project: BOOLEAN, entry: BOOLEAN, previous: BOOLEAN, next: BOOLEAN]
  OBVIOUS
<1>3. u.selected = NoProject => ~b.project /\ ~b.entry
  OBVIOUS
<1> HIDE DEF b
<1>4. QED BY <1>1, <1>2, <1>3 DEF Ui, SameList

LEMMA ClearEntriesIs ==
  ASSUME NEW u \in Ui
  PROVE  /\ ClearEntries(u) \in Ui
         /\ SameList(ClearEntries(u), u)
         /\ ClearEntries(u).entries = <<>>
         /\ u.selected = NoProject =>
              /\ ~ClearEntries(u).buttons.project
              /\ ~ClearEntries(u).buttons.entry
<1> DEFINE v == [u EXCEPT !.entries = <<>>, !.entry = 0, !.cursor = 0,
                          !.next = NoNextCursor, !.enabled = FALSE]
<1>1. ClearEntries(u) = SetButtons(v)
  BY DEF ClearEntries
<1>2. /\ v \in Ui /\ SameList(v, u) /\ v.entries = <<>>
      /\ v.selected = u.selected
  BY SortedFacts, EmptySeq DEF Ui, SameList
<1> HIDE DEF v
<1>3. QED BY <1>1, <1>2, SetButtonsIs DEF SameList

LEMMA PopulateEntriesIs ==
  ASSUME NEW u \in Ui, NEW cursor \in Cursors, NEW a,
         a.items \in Seq(Entries), a.next \in Cursors \cup {NoNextCursor},
         a.enabled \in BOOLEAN
  PROVE  LET v == PopulateEntries(u, cursor, a)
         IN /\ v \in Ui
            /\ SameList(v, u)
            /\ v.entries = a.items
            /\ v.cursor = cursor
            /\ v.enabled = a.enabled
<1> DEFINE v == [u EXCEPT !.entries = a.items, !.entry = 0, !.cursor = cursor,
                          !.next = a.next, !.enabled = a.enabled]
<1>1. PopulateEntries(u, cursor, a) = SetButtons(v)
  BY DEF PopulateEntries
<1>2. /\ v \in Ui /\ SameList(v, u) /\ v.entries = a.items
      /\ v.cursor = cursor /\ v.enabled = a.enabled
  BY DEF Ui, SameList
<1> HIDE DEF v
<1>3. QED BY <1>1, <1>2, SetButtonsIs DEF SameList

\* The requests the window makes.
LEMMA ListIs ==
  ASSUME NEW cursor \in Cursors
  PROVE  /\ List(cursor) \in Request
         /\ ValidRequest(List(cursor))
         /\ List(cursor).operation = "ListProjects"
         /\ List(cursor).cursor = cursor
         /\ List(cursor).project = NoProject
         /\ List(cursor) # NoCall
<1>1. /\ List(cursor).operation = "ListProjects"
      /\ List(cursor).project = NoProject
      /\ List(cursor).enabled = FALSE /\ List(cursor).size = ProjectPage
      /\ List(cursor).cursor = cursor /\ List(cursor).entry = NoEntry
  BY DEF List, Ask
<1>2. List(cursor) \in Request
  <2>1. Ask("ListProjects", NoProject) \in Request
    BY SortedFacts DEF Ask, Request, Operations, Ids
  <2>2. ProjectPage \in Nat
    BY ManagerAssumption
  <2>3. QED BY <2>1, <2>2 DEF List, Request
<1>3. ValidRequest(List(cursor))
  BY <1>1, ManagerAssumption DEF ValidRequest, Operations
<1>4. NoCall.operation = "none"
  BY DEF NoCall
<1>5. QED BY <1>1, <1>2, <1>3, <1>4

LEMMA ViewIs ==
  ASSUME NEW p \in Projects, NEW cursor \in Cursors
  PROVE  /\ View(p, cursor) \in Request
         /\ ValidRequest(View(p, cursor))
         /\ View(p, cursor).operation = "ViewProject"
         /\ View(p, cursor).cursor = cursor
         /\ View(p, cursor).project = p
         /\ View(p, cursor).size = EntryPage
         /\ View(p, cursor) # NoCall
<1>1. /\ View(p, cursor).operation = "ViewProject" /\ View(p, cursor).project = p
      /\ View(p, cursor).enabled = FALSE /\ View(p, cursor).size = EntryPage
      /\ View(p, cursor).cursor = cursor /\ View(p, cursor).entry = NoEntry
  BY DEF View, Ask
<1>2. View(p, cursor) \in Request
  <2>1. Ask("ViewProject", p) \in Request
    BY SortedFacts DEF Ask, Request, Operations, Ids
  <2>2. EntryPage \in Nat
    BY ManagerAssumption
  <2>3. QED BY <2>1, <2>2 DEF View, Request
<1>3. ValidRequest(View(p, cursor))
  BY <1>1, ManagerAssumption DEF ValidRequest, Operations
<1>4. NoCall.operation = "none"
  BY DEF NoCall
<1>5. QED BY <1>1, <1>2, <1>3, <1>4

-----------------------------------------------------------------------------
(***************************************************************************)
(* Every step keeps the types, the inductive invariant, the page and the   *)
(* list.                                                                   *)
(***************************************************************************)
StoredPage ==
  LET d == store[ui.selected]
  IN /\ d.exists /\ ui.enabled = d.enabled
     /\ ui.entries = Slice(Sorted(d.entries), ui.cursor, EntryPage)

\* A term that is refused finds the page as it was before the user typed it, and
\* leaves it.
CurrentInv ==
  fresh /\ (TermRefused \/ (Idle /\ ui.selected # NoProject)) => StoredPage

Inv == TypeOK /\ ManagerInv /\ CurrentInv /\ ListIsComplete


\* The types of all that is not the window or its call.
RestOK ==
  /\ store \in Stores
  /\ faults \in 0..MaxFaults
  /\ others \in 0..MaxOthers
  /\ origin \in Ids
  /\ {unread, fresh, quiet} \subseteq BOOLEAN

LEMMA TypeIs == TypeOK <=> ui \in Ui /\ call \in Request \cup {NoCall} /\ RestOK
BY DEF TypeOK, RestOK, Stores

\* The rows of u are all of the projects S.
AllRows(u, S) ==
  \/ u.rows = Sorted(S)
  \/ /\ Len(u.rows) >= MaximumDisplayed
     /\ u.rows = Slice(Sorted(S), 0, Len(u.rows))

LEMMA ListIsCompleteIs ==
  ListIsComplete <=> /\ ~ui.listed => ui.rows = <<>>
                     /\ ui.listed /\ quiet => AllRows(ui, Existing)
BY DEF ListIsComplete, AllRows

\* RefreshProjects starts over.
LEMMA RefreshedInv ==
  ASSUME ui \in Ui, RefreshProjects(ui), RestOK'
  PROVE  Inv'
<1> DEFINE u == [ui EXCEPT !.previous = ui.selected, !.ids = <<>>, !.rows = <<>>,
                           !.selected = NoProject, !.listed = FALSE]
<1>1. /\ u \in Ui /\ u.ids = <<>> /\ u.rows = <<>> /\ u.selected = NoProject
      /\ u.listed = FALSE
  BY EmptySeq DEF Ui, Ids
<1>2. ui' = ClearEntries(u) /\ call' = List(0) /\ quiet' = TRUE
  BY DEF RefreshProjects
<1> HIDE DEF u
<1>3. /\ ui' \in Ui /\ ui'.ids = <<>> /\ ui'.rows = <<>>
      /\ ui'.selected = NoProject /\ ui'.listed = FALSE /\ ui'.entries = <<>>
      /\ ~ui'.buttons.project /\ ~ui'.buttons.entry
  BY <1>1, <1>2, ClearEntriesIs DEF SameList
<1>4. /\ call' \in Request /\ ValidRequest(call')
      /\ call'.operation = "ListProjects" /\ call'.cursor = 0
      /\ call' = List(call'.cursor) /\ call' # NoCall
  BY <1>2, ListIs, SortedFacts
<1>5. TypeOK'
  BY <1>3, <1>4, TypeIs DEF TypeOK, RestOK, Stores
<1>6. CallInv' /\ BelongInv'
  BY <1>3, <1>4 DEF CallInv, BelongInv, Idle
<1>7. ListInv'
  <2>1. /\ Sorted(Existing') \in Seq(Projects)
        /\ Cardinality(Existing') \in Nat
    <3>1. Existing' \in SUBSET Projects
      BY DEF Existing
    <3>2. QED BY <3>1, SortedFacts
  <2>2. Slice(Sorted(Existing'), 0, 0) = <<>>
    BY <2>1, SliceJoins
  <2>3. Len(<<>>) = 0
    OBVIOUS
  <2>4. QED BY <1>3, <1>4, <2>1, <2>2, <2>3 DEF ListInv
<1>8. CurrentInv' /\ ListIsComplete'
  BY <1>3, <1>4 DEF CurrentInv, TermRefused, ListIsComplete, Idle
<1>9. QED BY <1>5, <1>6, <1>7, <1>8 DEF Inv, ManagerInv

\* LoadEntryPage shows nothing or has a call under way.
LEMMA LoadedInv ==
  ASSUME NEW u \in Ui, NEW cursor \in Cursors, LoadEntryPage(u, cursor), RestOK',
         ~u.listed => u.rows = <<>>,
         u.listed /\ quiet' => AllRows(u, Existing')
  PROVE  Inv'
<1>1. CASE u.selected = NoProject
  <2>1. ui' = ClearEntries(u) /\ call' = NoCall
    BY <1>1 DEF LoadEntryPage
  <2>2. /\ ui' \in Ui /\ SameList(ui', u) /\ ui'.entries = <<>>
        /\ ~ui'.buttons.project /\ ~ui'.buttons.entry
    BY <1>1, <2>1, ClearEntriesIs
  <2>3. TypeOK'
    BY <2>1, <2>2 DEF TypeOK, RestOK, Stores
  <2>4. CallInv' /\ BelongInv' /\ ListInv' /\ CurrentInv'
    BY <1>1, <2>1, <2>2
       DEF CallInv, BelongInv, ListInv, CurrentInv, TermRefused, Idle, NoCall,
           SameList
  <2>5. ListIsComplete'
    BY <2>2 DEF ListIsComplete, AllRows, SameList
  <2>6. QED BY <2>3, <2>4, <2>5 DEF Inv, ManagerInv
<1>2. CASE u.selected # NoProject
  <2>1. ui' = u /\ call' = View(u.selected, cursor) /\ u.selected \in Projects
    BY <1>2 DEF LoadEntryPage, Ui, Ids
  <2>2. /\ call' \in Request /\ ValidRequest(call') /\ call' # NoCall
        /\ call'.operation = "ViewProject" /\ call'.project = ui'.selected
        /\ call'.size = EntryPage
    BY <2>1, ViewIs
  <2>3. TypeOK'
    BY <2>1, <2>2 DEF TypeOK, RestOK, Stores
  <2>4. CallInv' /\ BelongInv' /\ ListInv' /\ CurrentInv'
    BY <1>2, <2>1, <2>2
       DEF CallInv, BelongInv, ListInv, CurrentInv, TermRefused, Idle
  <2>5. ListIsComplete'
    BY <2>1 DEF ListIsComplete, AllRows
  <2>6. QED BY <2>3, <2>4, <2>5 DEF Inv, ManagerInv
<1>3. QED BY <1>1, <1>2

\* A change is asked for, about the selected project.
LEMMA PressedInv ==
  ASSUME Inv, NEW r \in Request, Press(r),
         ValidRequest(r) \/ (r.operation = "UpsertTerm" /\ r.entry \in Refused),
         r.operation \notin {"ListProjects", "ViewProject"},
         r.project = ui.selected, ui.selected # NoProject
  PROVE  Inv'
<1>1. /\ call = NoCall /\ call' = r
      /\ UNCHANGED <<store, ui, faults, others, origin, unread, fresh, quiet>>
  BY DEF Press, Idle, bounds, history
<1>2. NoCall.operation = "none" /\ r.operation # "none"
  BY DEF NoCall, Request, Operations
<1>3. TypeOK'
  BY <1>1 DEF Inv, TypeOK
<1>4. CallInv'
  BY <1>1 DEF CallInv, Idle, TermRefused
<1>5. BelongInv'
  BY <1>1, <1>2 DEF Inv, ManagerInv, BelongInv
<1>6. ListInv'
  BY <1>1, <1>2 DEF ListInv
<1>7. CurrentInv'
  BY <1>1 DEF Inv, CurrentInv, StoredPage, Idle
<1>8. ListIsComplete'
  BY <1>1 DEF Inv, ListIsComplete, Existing
<1>9. QED BY <1>3, <1>4, <1>5, <1>6, <1>7, <1>8 DEF Inv, ManagerInv

\* A call fails.
LEMMA FailedInv ==
  ASSUME Inv, ~Idle, NEW status, Fails(status), RestOK',
         ValidRequest(call) \/ store' = store,
         call.operation # "RemoveProject" => Existing' = Existing
  PROVE  Inv'
<1>1. /\ call' = NoCall /\ origin' = origin
      /\ fresh' = (fresh /\ ~ValidRequest(call))
      /\ unread' = (unread \/ call.operation = "ViewProject")
      /\ quiet' = (quiet /\ call.operation # "RemoveProject")
  BY DEF Fails
<1>2. NoCall.operation = "none"
  BY DEF NoCall
<1>3. ui \in Ui /\ {unread, quiet} \subseteq BOOLEAN
  BY DEF Inv, TypeOK
<1>4. /\ ui' \in Ui
      /\ ui'.rows = ui.rows /\ ui'.listed = ui.listed
      /\ \/ ui' = ui
         \/ /\ ui'.selected = NoProject /\ ui'.entries = <<>>
            /\ ~ui'.buttons.project /\ ~ui'.buttons.entry
  <2>1. CASE ui' = ui
    BY <1>3, <2>1
  <2>2. CASE ui' = ClearEntries([ui EXCEPT !.selected = NoProject])
    <3> DEFINE u == [ui EXCEPT !.selected = NoProject]
    <3>1. /\ u \in Ui /\ u.rows = ui.rows /\ u.listed = ui.listed
          /\ u.selected = NoProject
      BY <1>3 DEF Ui, Ids
    <3>2. ui' = ClearEntries(u)
      BY <2>2
    <3> HIDE DEF u
    <3>3. QED BY <3>1, <3>2, ClearEntriesIs DEF SameList
  <2>3. QED BY <2>1, <2>2 DEF Fails
<1>5. TypeOK'
  BY <1>1, <1>4 DEF TypeOK, RestOK, Stores
<1>6. CallInv' /\ ListInv'
  BY <1>1, <1>2 DEF CallInv, ListInv, Idle
<1>7. CurrentInv'
  <2>1. CASE ValidRequest(call)
    BY <1>1, <2>1 DEF CurrentInv
  <2>2. CASE ~ValidRequest(call)
    <3>1. TermRefused /\ store' = store
      BY <2>2 DEF Inv, ManagerInv, CallInv
    <3>2. ui' = ui
      BY <3>1 DEF Fails, TermRefused
    <3>3. QED BY <1>1, <3>1, <3>2 DEF Inv, CurrentInv, StoredPage
  <2>3. QED BY <2>1, <2>2
<1>8. BelongInv'
  BY <1>1, <1>3, <1>4 DEF Inv, ManagerInv, BelongInv
<1>9. ListIsComplete'
  <2>1. ~ui'.listed => ui'.rows = <<>>
    BY <1>4 DEF Inv, ListIsComplete
  <2>2. ASSUME ui'.listed, quiet'
        PROVE  AllRows(ui', Existing')
    <3>1. AllRows(ui, Existing) /\ Existing' = Existing
      BY <1>1, <1>4, <2>2, ListIsCompleteIs DEF Inv
    <3>2. QED BY <1>4, <3>1 DEF AllRows
  <2>3. QED BY <2>1, <2>2 DEF ListIsComplete, AllRows
<1>10. QED BY <1>5, <1>6, <1>7, <1>8, <1>9 DEF Inv, ManagerInv

\* A page of entries arrives.
LEMMA ViewedInv ==
  ASSUME Inv, call.operation = "ViewProject", Response(call).status = "Ok",
         Viewed(Response(call)), RestOK', store' = store
  PROVE  Inv'
<1> DEFINE a == Response(call)
           d == store[ui.selected]
<1>1. /\ d.exists /\ a.enabled = d.enabled
      /\ a.items = Slice(Sorted(d.entries), call.cursor, EntryPage)
      /\ a.items \in Seq(Entries) /\ a.next \in Cursors \cup {NoNextCursor}
  BY ViewAnswer DEF Inv, ManagerInv
<1>2. /\ ui \in Ui /\ call \in Request /\ call.cursor \in Cursors
      /\ ui.selected \in Projects /\ d.enabled \in BOOLEAN
  <2>1. call # NoCall
    BY DEF NoCall
  <2>2. ui \in Ui /\ call \in Request
    BY <2>1 DEF Inv, TypeOK
  <2>3. ui.selected \in Projects
    BY <2>1, <2>2 DEF Inv, ManagerInv, CallInv, Idle, Ui, Ids
  <2>4. QED BY <2>2, <2>3 DEF Inv, TypeOK, Request
<1>3. /\ ui' = PopulateEntries(ui, call.cursor, a) /\ call' = NoCall
      /\ origin' = ui.selected /\ quiet' = quiet
  BY DEF Viewed
<1> HIDE DEF a
<1>4. /\ ui' \in Ui /\ SameList(ui', ui)
      /\ ui'.entries = a.items /\ ui'.cursor = call.cursor
      /\ ui'.enabled = a.enabled
  <2>1. a.enabled \in BOOLEAN
    BY <1>1, <1>2
  <2>2. QED BY <1>1, <1>2, <1>3, <2>1, PopulateEntriesIs
<1>5. NoCall.operation = "none" /\ ui.selected # NoProject
  BY <1>2, ManagerAssumption DEF NoCall, NoProject
<1>6. TypeOK'
  BY <1>3, <1>4 DEF TypeOK, RestOK, Stores
<1>7. CallInv' /\ BelongInv' /\ ListInv'
  BY <1>3, <1>4, <1>5 DEF CallInv, BelongInv, ListInv, Idle, SameList
<1>8. CurrentInv'
  BY <1>1, <1>3, <1>4, <1>5 DEF CurrentInv, StoredPage, SameList
<1>9. ListIsComplete'
  BY <1>3, <1>4 DEF Inv, ListIsComplete, SameList, Existing
<1>10. QED BY <1>6, <1>7, <1>8, <1>9 DEF Inv, ManagerInv

-----------------------------------------------------------------------------
(***************************************************************************)
(* A page of projects arrives.                                             *)
(***************************************************************************)

\* What the list of identifiers is with the page that arrives.
LEMMA MoreIds ==
  ASSUME Inv, call.operation = "ListProjects", Response(call).status = "Ok"
  PROVE  LET ids == ui.ids \o Response(call).items
             next == Response(call).next
         IN /\ ids \in Seq(Projects)
            /\ next \in Cursors \cup {NoNextCursor}
            /\ next # NoNextCursor =>
                 next > call.cursor /\ next <= Cardinality(Existing)
            /\ quiet => /\ Len(ids) <= Cardinality(Existing)
                        /\ ids = Slice(Sorted(Existing), 0, Len(ids))
                        /\ IF next = NoNextCursor
                           THEN ids = Sorted(Existing)
                           ELSE Len(ids) = next
<1> DEFINE s == Sorted(Existing)
           c == call.cursor
           items == Slice(s, c, ProjectPage)
           next == PageEnd(c, ProjectPage, Len(s))
           ids == ui.ids \o items
<1>1. /\ Response(call).items = items /\ Response(call).next = next
      /\ c \in 0..Len(s)
  BY ListAnswer DEF Inv, ManagerInv
<1>2. /\ s \in Seq(Projects) /\ Len(s) = Cardinality(Existing)
      /\ Len(s) \in Cursors /\ Len(s) \in Nat
  BY SortedFacts
<1>3. ProjectPage \in Nat \ {0} /\ c \in Nat
  BY <1>1, ManagerAssumption
<1>4. /\ next \in Cursors \cup {NoNextCursor}
      /\ next = NoNextCursor <=> Len(s) <= c + ProjectPage
      /\ next # NoNextCursor => next = c + ProjectPage /\ c + ProjectPage < Len(s)
  BY <1>2, <1>3, PageEndIs
<1>5. /\ items \in Seq(Projects)
      /\ Len(items) = IF c + ProjectPage < Len(s) THEN ProjectPage ELSE Len(s) - c
      /\ c + Len(items) <= Len(s) /\ Len(items) \in Nat
  <2> HIDE DEF s, c
  <2>1. ProjectPage \in Nat
    BY <1>3
  <2>2. Len(Slice(s, c, ProjectPage)) \in 0..ProjectPage
    BY <1>1, <1>2, <2>1, SliceIs
  <2>3. /\ Slice(s, c, ProjectPage) \in Seq(Projects)
        /\ Len(Slice(s, c, ProjectPage)) =
             IF c + ProjectPage < Len(s) THEN ProjectPage ELSE Len(s) - c
        /\ c + Len(Slice(s, c, ProjectPage)) <= Len(s)
    BY <1>1, <1>2, <2>1, SliceIs
  <2> HIDE DEF items
  <2>4. QED BY <2>1, <2>2, <2>3 DEF items
<1>6. ui.ids \in Seq(Projects)
  BY DEF Inv, TypeOK, Ui
<1>7. ids \in Seq(Projects)
  BY <1>5, <1>6, ConcatProperties
<1>8. next # NoNextCursor => next > c /\ next <= Len(s)
  <2> HIDE DEF next, s, c
  <2>1. QED BY <1>2, <1>3, <1>4
<1>9. ASSUME quiet
      PROVE  /\ ids = Slice(s, 0, c + Len(items))
             /\ Len(ids) = c + Len(items)
  <2>1. ui.ids = Slice(s, 0, c) /\ Len(ui.ids) = c
    BY <1>9 DEF Inv, ManagerInv, ListInv
  <2>2. Len(ids) = Len(ui.ids) + Len(items)
    <3> HIDE DEF items
    <3>1. QED BY <1>5, <1>6, ConcatProperties
  <2> HIDE DEF s, c
  <2>3. Slice(s, 0, c) \o Slice(s, c, ProjectPage) =
          Slice(s, 0, c + Len(Slice(s, c, ProjectPage)))
    BY <1>1, <1>2, <1>3, SliceJoins
  <2>4. QED BY <2>1, <2>2, <2>3
<1>10. ASSUME quiet
       PROVE  IF next = NoNextCursor THEN ids = s ELSE Len(ids) = next
  <2>1. Slice(s, 0, Len(s)) = s
    BY <1>2, SliceJoins
  <2> HIDE DEF s, c, items, next, ids
  <2>2. CASE next = NoNextCursor
    <3>1. c + Len(items) = Len(s)
      BY <1>2, <1>3, <1>4, <1>5, <2>2
    <3>2. QED BY <1>9, <1>10, <2>1, <2>2, <3>1
  <2>3. CASE next # NoNextCursor
    BY <1>3, <1>4, <1>5, <1>9, <1>10, <2>3
  <2>4. QED BY <2>2, <2>3
<1> HIDE DEF s, c, items, next, ids
<1>11. quiet => Len(ids) <= Len(s) /\ ids = Slice(s, 0, Len(ids))
  BY <1>5, <1>9
<1>12. QED BY <1>1, <1>2, <1>4, <1>7, <1>8, <1>10, <1>11 DEF s, c, ids

LEMMA ListEndedInv ==
  ASSUME Inv, call.operation = "ListProjects", RestOK', store' = store,
         quiet' = quiet, NEW ids \in Seq(Projects),
         ListEnds([ui EXCEPT !.ids = ids]),
         quiet => AllRows([rows |-> ids], Existing)
  PROVE  Inv'
<1> DEFINE all == [ui EXCEPT !.ids = ids, !.rows = ids, !.listed = TRUE,
                             !.previous = NoProject]
<1>1. /\ ui \in Ui /\ ui.selected = NoProject
      /\ ui.entries = <<>> /\ ~ui.buttons.project /\ ~ui.buttons.entry
  BY DEF Inv, TypeOK, ManagerInv, CallInv, BelongInv, Idle, NoCall
<1>2. /\ all \in Ui /\ all.rows = ids /\ all.listed = TRUE
      /\ all.selected = NoProject /\ all.entries = <<>>
      /\ ~all.buttons.project /\ ~all.buttons.entry
  BY <1>1 DEF Ui, Ids
<1>3. Existing' = Existing
  BY DEF Existing
<1>4. CASE ids = <<>>
  <2>1. ui' = all /\ call' = NoCall
    BY <1>1, <1>4 DEF ListEnds, Ui
  <2>2. NoCall.operation = "none"
    BY DEF NoCall
  <2> HIDE DEF all
  <2>3. TypeOK'
    BY <1>2, <2>1 DEF TypeOK, RestOK, Stores
  <2>4. CallInv' /\ BelongInv' /\ ListInv' /\ CurrentInv'
    BY <1>2, <2>1, <2>2
       DEF CallInv, BelongInv, ListInv, CurrentInv, TermRefused, Idle
  <2>5. ListIsComplete'
    BY <1>2, <1>3, <2>1 DEF ListIsComplete, AllRows
  <2>6. QED BY <2>3, <2>4, <2>5 DEF Inv, ManagerInv
<1>5. CASE ids # <<>>
  <2>1. PICK p \in Projects : SelectProject(all, p)
    <3> DEFINE found == \E i \in DOMAIN ids : ids[i] = ui.previous
               p == IF found THEN ui.previous ELSE ids[1]
    <3>1. p \in Projects
      BY <1>5
    <3>2. SelectProject(all, p)
      BY <1>1, <1>5 DEF ListEnds, Ui
    <3>3. QED BY <3>1, <3>2
  <2> DEFINE u == [all EXCEPT !.selected = p]
  <2> HIDE DEF all
  <2>2. u \in Ui /\ u.rows = ids /\ u.listed = TRUE
    BY <1>2 DEF Ui, Ids
  <2>3. LoadEntryPage(u, 0)
    BY <2>1 DEF SelectProject
  <2> HIDE DEF u
  <2>4. quiet' => AllRows(u, Existing')
    BY <1>3, <2>2 DEF AllRows
  <2>5. QED BY <2>2, <2>3, <2>4, LoadedInv, SortedFacts
<1>6. QED BY <1>4, <1>5

LEMMA ListedInv ==
  ASSUME Inv, call.operation = "ListProjects", Response(call).status = "Ok",
         Listed(Response(call)), RestOK', store' = store
  PROVE  Inv'
<1> DEFINE a == Response(call)
           ids == ui.ids \o a.items
           u == [ui EXCEPT !.ids = ids]
<1>1. /\ ids \in Seq(Projects)
      /\ a.next \in Cursors \cup {NoNextCursor}
      /\ a.next # NoNextCursor =>
           a.next > call.cursor /\ a.next <= Cardinality(Existing)
      /\ quiet => /\ Len(ids) <= Cardinality(Existing)
                  /\ ids = Slice(Sorted(Existing), 0, Len(ids))
                  /\ IF a.next = NoNextCursor THEN ids = Sorted(Existing)
                     ELSE Len(ids) = a.next
  BY MoreIds
<1>2. quiet' = quiet /\ Existing' = Existing
  BY DEF Listed, Existing
<1>3. ui \in Ui /\ ui.selected = NoProject /\ ~ui.listed
  BY DEF Inv, TypeOK, ManagerInv, CallInv, ListInv, Idle, NoCall
<1>4. u \in Ui /\ u.ids = ids /\ u.rows = ui.rows /\ u.listed = ui.listed
      /\ u.selected = NoProject /\ u.entries = ui.entries
      /\ u.buttons = ui.buttons
  BY <1>1, <1>3 DEF Ui
<1>5. CASE a.next = NoNextCursor \/ Len(ids) >= MaximumDisplayed
  <2>1. ListEnds(u)
    BY <1>4, <1>5 DEF Listed
  <2> HIDE DEF a, ids
  <2>2. quiet => AllRows([rows |-> ids], Existing)
    BY <1>1, <1>5 DEF AllRows
  <2>3. QED BY <1>1, <1>2, <2>1, <2>2, ListEndedInv
<1>6. CASE ~(a.next = NoNextCursor \/ Len(ids) >= MaximumDisplayed)
  <2>1. call.cursor \in Nat /\ a.next \in Cursors /\ a.next \in Nat
    <3>1. call \in Request
      BY DEF Inv, TypeOK, NoCall
    <3>2. call.cursor \in Cursors /\ a.next \in Cursors
      BY <1>1, <1>6, <3>1 DEF Request
    <3>3. QED BY <3>2, SortedFacts
  <2>2. ui' = u /\ call' = List(a.next)
    <3>1. ~(a.next <= call.cursor)
      <4> HIDE DEF a, ids
      <4>1. a.next > call.cursor
        BY <1>1, <1>6
      <4>2. \A m, n \in Nat : m > n => ~(m <= n)
        OBVIOUS
      <4>3. QED BY <2>1, <4>1, <4>2
    <3>2. IF a.next = NoNextCursor \/ Len(u.ids) >= MaximumDisplayed
          THEN ListEnds(u)
          ELSE /\ ui' = u
               /\ call' = IF a.next <= call.cursor THEN NoCall ELSE List(a.next)
      BY DEF Listed
    <3> HIDE DEF a, ids, u
    <3>3. QED BY <1>4, <1>6, <3>1, <3>2
  <2> HIDE DEF u, ids, a
  <2>3. /\ call' \in Request /\ ValidRequest(call')
        /\ call'.operation = "ListProjects" /\ call'.cursor = a.next
        /\ call' # NoCall
    BY <2>1, <2>2, ListIs
  <2>4. TypeOK'
    BY <1>4, <2>2, <2>3 DEF TypeOK, RestOK, Stores
  <2>5. CallInv' /\ CurrentInv'
    BY <1>4, <2>2, <2>3 DEF CallInv, CurrentInv, TermRefused, Idle
  <2>6. BelongInv'
    <3>1. BelongInv
      BY DEF Inv, ManagerInv
    <3>2. QED BY <1>3, <1>4, <2>2, <3>1 DEF BelongInv
  <2>7. ListInv'
    BY <1>1, <1>2, <1>3, <1>4, <1>6, <2>2, <2>3 DEF ListInv
  <2>8. ListIsComplete'
    BY <1>3, <1>4, <2>2 DEF Inv, ListIsComplete
  <2>9. QED BY <2>4, <2>5, <2>6, <2>7, <2>8 DEF Inv, ManagerInv
<1>7. QED BY <1>5, <1>6

-----------------------------------------------------------------------------
(***************************************************************************)
(* The steps.                                                              *)
(***************************************************************************)
LEMMA InitInv == Init => Inv
<1> SUFFICES ASSUME Init PROVE Inv
  OBVIOUS
<1>1. /\ call = List(0) /\ call \in Request /\ ValidRequest(call)
      /\ call.operation = "ListProjects" /\ call.cursor = 0 /\ call # NoCall
  BY ListIs, SortedFacts DEF Init
<1>2. /\ ui \in Ui /\ ui.ids = <<>> /\ ui.rows = <<>>
      /\ ui.selected = NoProject /\ ui.listed = FALSE /\ ui.entries = <<>>
      /\ ~ui.buttons.project /\ ~ui.buttons.entry
  BY SortedFacts, EmptySeq DEF Init, Ui, Ids
<1>3. TypeOK
  <2>1. store \in Stores
    <3> DEFINE D == [exists: BOOLEAN, enabled: BOOLEAN, entries: SUBSET Entries]
               full == [exists |-> TRUE, enabled |-> TRUE, entries |-> Entries]
               none == [exists |-> FALSE, enabled |-> TRUE, entries |-> {}]
    <3>1. full \in D /\ none \in D
      OBVIOUS
    <3>2. store \in [Projects -> {full, none}]
      BY DEF Init
    <3>3. Stores = [Projects -> D]
      BY DEF Stores
    <3> HIDE DEF D, full, none
    <3>4. QED BY <3>1, <3>2, <3>3
  <2>2. 0 \in 0..MaxFaults /\ 0 \in 0..MaxOthers
    BY ManagerAssumption
  <2>3. RestOK
    BY <2>1, <2>2 DEF Init, RestOK, Ids
  <2>4. QED BY <1>1, <1>2, <2>3, TypeIs
<1>4. CallInv /\ BelongInv
  BY <1>1, <1>2 DEF CallInv, BelongInv, Idle
<1>5. ListInv
  <2>1. /\ Sorted(Existing) \in Seq(Projects)
        /\ Cardinality(Existing) \in Nat
    BY SortedFacts
  <2>2. Slice(Sorted(Existing), 0, 0) = <<>>
    BY <2>1, SliceJoins
  <2>3. Len(<<>>) = 0
    OBVIOUS
  <2>4. QED BY <1>1, <1>2, <2>1, <2>2, <2>3 DEF ListInv
<1>6. CurrentInv /\ ListIsComplete
  BY <1>1, <1>2 DEF CurrentInv, TermRefused, ListIsComplete, Idle
<1>7. QED BY <1>3, <1>4, <1>5, <1>6 DEF Inv, ManagerInv

LEMMA StutterInv ==
  ASSUME Inv, UNCHANGED vars
  PROVE  Inv'
<1>1. UNCHANGED <<store, ui, call, faults, others, origin, unread, fresh, quiet>>
  BY DEF vars, bounds, history
<1>2. TypeOK'
  BY <1>1 DEF Inv, TypeOK
<1>3. CallInv' /\ BelongInv'
  BY <1>1 DEF Inv, ManagerInv, CallInv, BelongInv, Idle, TermRefused
<1>4. ListInv'
  BY <1>1 DEF Inv, ManagerInv, ListInv, Existing
<1>5. CurrentInv' /\ ListIsComplete'
  BY <1>1
     DEF Inv, CurrentInv, StoredPage, TermRefused, ListIsComplete, Idle, Existing
<1>6. QED BY <1>2, <1>3, <1>4, <1>5 DEF Inv, ManagerInv

\* The buttons that ask for a change.
LEMMA ButtonsInv ==
  ASSUME Inv,
         \/ ToggleProject
         \/ RemoveProject
         \/ \E e \in Terms \cup Refused : AddTerm(e)
         \/ RemoveSelectedEntry
  PROVE  Inv'
<1>1. /\ ui \in Ui /\ ui.selected \in Ids /\ ui.enabled \in BOOLEAN
      /\ ui.entries \in Seq(Entries)
  BY DEF Inv, TypeOK, Ui
<1>2. ui.buttons.project \/ ui.buttons.entry => ui.selected # NoProject
  BY DEF Inv, ManagerInv, BelongInv
<1> DEFINE asked(o) == Ask(o, ui.selected)
<1>3. ASSUME NEW o \in Operations
      PROVE  asked(o) \in Request
  BY <1>1, SortedFacts DEF Ask, Request
<1>4. ASSUME NEW o \in Operations
      PROVE  /\ asked(o).operation = o /\ asked(o).project = ui.selected
             /\ asked(o).size = 0 /\ asked(o).cursor = 0
             /\ asked(o).enabled = FALSE
  BY DEF Ask
<1>5. {"SetEnabled", "RemoveProject", "UpsertTerm", "RemoveEntry"} \subseteq
        Operations
  BY DEF Operations
<1> HIDE DEF asked
<1>6. CASE ToggleProject
  <2> DEFINE r == [asked("SetEnabled") EXCEPT !.enabled = ~ui.enabled]
  <2>1. Press(r) /\ ui.selected # NoProject
    BY <1>2, <1>6 DEF ToggleProject, asked
  <2>2. asked("SetEnabled") \in Request
    BY <1>3, <1>5
  <2>3. /\ r \in Request /\ r.operation = "SetEnabled"
        /\ r.project = ui.selected /\ r.size = 0 /\ r.cursor = 0
    BY <1>1, <1>4, <1>5, <2>2 DEF Request
  <2> HIDE DEF r
  <2>4. ValidRequest(r)
    BY <1>5, <2>3 DEF ValidRequest
  <2>5. QED BY <2>1, <2>3, <2>4, PressedInv
<1>7. CASE RemoveProject
  <2> DEFINE r == asked("RemoveProject")
  <2>1. Press(r) /\ ui.selected # NoProject
    BY <1>2, <1>7 DEF RemoveProject, asked
  <2>2. /\ r \in Request /\ r.operation = "RemoveProject" /\ ~r.enabled
        /\ r.project = ui.selected /\ r.size = 0 /\ r.cursor = 0
    BY <1>3, <1>4, <1>5
  <2> HIDE DEF r
  <2>3. ValidRequest(r)
    BY <1>5, <2>2 DEF ValidRequest
  <2>4. QED BY <2>1, <2>2, <2>3, PressedInv
<1>8. ASSUME NEW o \in {"UpsertTerm", "RemoveEntry"},
             NEW e \in Entries \cup Refused,
             Press([Ask(o, ui.selected) EXCEPT !.entry = e]),
             IF o = "UpsertTerm" THEN e \in Terms \cup Refused ELSE e \in Entries,
             ui.selected # NoProject
      PROVE  Inv'
  <2> DEFINE r == [asked(o) EXCEPT !.entry = e]
  <2>1. Press(r)
    BY <1>8 DEF asked
  <2>2. o \in Operations /\ asked(o) \in Request
    BY <1>3, <1>5
  <2>3. /\ r \in Request /\ r.operation = o /\ ~r.enabled /\ r.entry = e
        /\ r.project = ui.selected /\ r.size = 0 /\ r.cursor = 0
    BY <1>4, <2>2 DEF Request
  <2> HIDE DEF r
  <2>4. ValidRequest(r) \/ (r.operation = "UpsertTerm" /\ r.entry \in Refused)
    <3>1. o = "UpsertTerm" => e \in Refused \/ (e \in Terms /\ e \in Entries)
      BY <1>8, ManagerAssumption
    <3>2. QED BY <1>8, <2>2, <2>3, <3>1 DEF ValidRequest
  <2>5. QED BY <1>8, <2>1, <2>3, <2>4, PressedInv
<1>9. CASE \E e \in Terms \cup Refused : AddTerm(e)
  <2>1. PICK e \in Terms \cup Refused : AddTerm(e)
    BY <1>9
  <2>2. e \in Entries \cup Refused
    BY ManagerAssumption
  <2>3. ui.selected # NoProject
    BY <1>2, <2>1 DEF AddTerm
  <2>4. Press([Ask("UpsertTerm", ui.selected) EXCEPT !.entry = e])
    BY <2>1 DEF AddTerm
  <2>5. QED BY <1>8, <2>2, <2>3, <2>4
<1>10. CASE RemoveSelectedEntry
  <2> DEFINE e == ui.entries[ui.entry]
  <2>1. e \in Entries
    BY <1>1, <1>10 DEF RemoveSelectedEntry
  <2>2. ui.selected # NoProject
    BY <1>2, <1>10 DEF RemoveSelectedEntry
  <2>3. Press([Ask("RemoveEntry", ui.selected) EXCEPT !.entry = e])
    BY <1>10 DEF RemoveSelectedEntry
  <2> HIDE DEF e
  <2>4. QED BY <1>8, <2>1, <2>2, <2>3
<1>11. QED BY <1>6, <1>7, <1>9, <1>10

\* A row of the page is selected.
LEMMA SelectEntryInv ==
  ASSUME Inv, SelectEntry
  PROVE  Inv'
<1>1. ui \in Ui /\ ui.entries \in Seq(Entries)
  BY DEF Inv, TypeOK, Ui
<1>2. PICK i \in DOMAIN ui.entries \cup {0} :
        ui' = SetButtons([ui EXCEPT !.entry = i])
  BY DEF SelectEntry
<1> DEFINE u == [ui EXCEPT !.entry = i]
<1>3. /\ u \in Ui /\ SameList(u, ui) /\ u.entries = ui.entries
      /\ u.cursor = ui.cursor /\ u.enabled = ui.enabled
  <2>1. i \in Nat
    BY <1>1
  <2>2. QED BY <1>1, <2>1 DEF Ui, SameList
<1>4. ui' = SetButtons(u)
  BY <1>2
<1> HIDE DEF u
<1>5. /\ ui' \in Ui /\ SameList(ui', ui) /\ ui'.entries = ui.entries
      /\ ui'.cursor = ui.cursor /\ ui'.enabled = ui.enabled
      /\ ui.selected = NoProject => ~ui'.buttons.project /\ ~ui'.buttons.entry
  BY <1>3, <1>4, SetButtonsIs DEF SameList
<1>6. /\ call = NoCall
      /\ UNCHANGED <<store, call, faults, others, origin, unread, fresh, quiet>>
  BY DEF SelectEntry, Idle, bounds, history
<1>7. NoCall.operation = "none"
  BY DEF NoCall
<1>8. TypeOK'
  BY <1>5, <1>6 DEF Inv, TypeOK
<1>9. CallInv' /\ ListInv'
  BY <1>6, <1>7 DEF CallInv, ListInv, Idle
<1>10. BelongInv'
  BY <1>5, <1>6 DEF Inv, ManagerInv, BelongInv, SameList
<1>11. CurrentInv'
  BY <1>5, <1>6 DEF Inv, CurrentInv, StoredPage, TermRefused, Idle, SameList
<1>12. ListIsComplete'
  BY <1>5, <1>6 DEF Inv, ListIsComplete, SameList, Existing
<1>13. QED BY <1>8, <1>9, <1>10, <1>11, <1>12 DEF Inv, ManagerInv

\* A project is selected, or another page of its entries asked for.
LEMMA LoadStepInv ==
  ASSUME Inv, Select \/ PreviousPage \/ NextPage
  PROVE  Inv'
<1>1. ui \in Ui /\ ui.cursor \in Cursors /\ ui.rows \in Seq(Projects)
  BY DEF Inv, TypeOK, Ui
<1>2. RestOK' /\ Existing' = Existing /\ quiet' = quiet
  <2>1. /\ UNCHANGED <<store, faults, others, origin, fresh, quiet>>
        /\ unread' \in {FALSE, unread}
    BY DEF Select, PreviousPage, NextPage, bounds, history
  <2>2. QED BY <2>1 DEF Inv, TypeOK, RestOK, Stores, Existing
<1>3. /\ ~ui.listed => ui.rows = <<>>
      /\ ui.listed /\ quiet' => AllRows(ui, Existing')
  BY <1>2, ListIsCompleteIs DEF Inv
<1>4. CASE Select
  <2>1. PICK p \in {ui.rows[i] : i \in DOMAIN ui.rows} : SelectProject(ui, p)
    BY <1>4 DEF Select
  <2> DEFINE u == [ui EXCEPT !.selected = p]
  <2>2. u \in Ui /\ u.rows = ui.rows /\ u.listed = ui.listed
    <3>1. p \in Projects
      BY <1>1
    <3>2. QED BY <1>1, <3>1 DEF Ui, Ids
  <2>3. LoadEntryPage(u, 0)
    BY <2>1 DEF SelectProject
  <2> HIDE DEF u
  <2>4. u.listed /\ quiet' => AllRows(u, Existing')
    BY <1>3, <2>2 DEF AllRows
  <2>5. QED BY <1>2, <1>3, <2>2, <2>3, <2>4, LoadedInv, SortedFacts
<1>5. CASE PreviousPage
  <2> DEFINE cursor == IF ui.cursor > EntryPage THEN ui.cursor - EntryPage ELSE 0
  <2>1. cursor \in Cursors
    <3>1. /\ Cardinality(Projects) \in Nat /\ Cardinality(Entries) \in Nat
          /\ EntryPage \in Nat
      BY ManagerAssumption, FS_CardinalityType
    <3>2. QED BY <1>1, <3>1 DEF Cursors
  <2>2. LoadEntryPage(ui, cursor)
    BY <1>5 DEF PreviousPage
  <2> HIDE DEF cursor
  <2>3. QED BY <1>1, <1>2, <1>3, <2>1, <2>2, LoadedInv
<1>6. CASE NextPage
  <2>1. ui.next \in Cursors /\ LoadEntryPage(ui, ui.next)
    BY <1>1, <1>6 DEF NextPage, Ui
  <2>2. QED BY <1>1, <1>2, <1>3, <2>1, LoadedInv
<1>7. QED BY <1>4, <1>5, <1>6

\* The service has served the call.
LEMMA ServedInv ==
  ASSUME Inv, Served
  PROVE  Inv'
<1> DEFINE a == Response(call)
<1>1. /\ ~Idle /\ ValidRequest(call) /\ Effect(call) /\ Finish(a)
      /\ UNCHANGED <<faults, others>>
  BY DEF Served, bounds
<1>2. /\ store' \in Stores
      /\ call.operation # "RemoveProject" => Existing' = Existing
      /\ call.operation \in {"ListProjects", "ViewProject"} => store' = store
  BY <1>1, EffectIs DEF Inv, ManagerInv
<1>3. call \in Request /\ call.operation \in Operations /\ ui \in Ui /\ RestOK
  BY <1>1, TypeIs DEF Inv, Idle, Request
<1>4. a.operation = call.operation
  BY <1>1, <1>3, ListAnswer, ViewAnswer, ChangeAnswer
     DEF Inv, ManagerInv, Operations
<1> HIDE DEF a
<1>5. CASE a.status # "Ok"
  <2>1. Fails(a.status)
    BY <1>1, <1>5 DEF Finish
  <2>2. RestOK'
    BY <1>1, <1>2, <1>3, <2>1 DEF Fails, RestOK
  <2>3. QED BY <1>1, <1>2, <2>1, <2>2, FailedInv
<1>6. CASE a.status = "Ok" /\ call.operation = "ListProjects"
  <2>1. Listed(a)
    BY <1>1, <1>4, <1>6 DEF Finish, Succeeds
  <2>2. UNCHANGED <<origin, fresh, quiet>> /\ unread' \in {unread, FALSE}
    BY <2>1 DEF Listed, ListEnds
  <2>3. RestOK'
    BY <1>1, <1>2, <1>3, <2>2 DEF RestOK
  <2>4. QED BY <1>2, <1>6, <2>1, <2>3, ListedInv DEF a
<1>7. CASE a.status = "Ok" /\ call.operation = "ViewProject"
  <2>1. Viewed(a)
    BY <1>1, <1>4, <1>7 DEF Finish, Succeeds
  <2>2. RestOK'
    BY <1>1, <1>2, <1>3, <2>1 DEF Viewed, RestOK, Ui
  <2>3. QED BY <1>2, <1>7, <2>1, <2>2, ViewedInv DEF a
<1>8. CASE a.status = "Ok" /\ call.operation = "RemoveProject"
  <2>1. RefreshProjects(ui) /\ UNCHANGED <<origin, unread, fresh>>
    BY <1>1, <1>4, <1>8 DEF Finish, Succeeds
  <2>2. RestOK'
    BY <1>1, <1>2, <1>3, <2>1 DEF RefreshProjects, RestOK
  <2>3. QED BY <1>3, <2>1, <2>2, RefreshedInv
<1>9. CASE /\ a.status = "Ok"
           /\ call.operation \in {"SetEnabled", "UpsertTerm", "RemoveEntry"}
  <2>1. LoadEntryPage(ui, ui.cursor) /\ UNCHANGED <<origin, unread, fresh, quiet>>
    BY <1>1, <1>4, <1>9 DEF Finish, Succeeds, Reload, history
  <2>2. RestOK'
    BY <1>1, <1>2, <1>3, <2>1 DEF RestOK
  <2>3. /\ ~ui.listed => ui.rows = <<>>
        /\ ui.listed /\ quiet' => AllRows(ui, Existing')
    BY <1>2, <1>9, <2>1, ListIsCompleteIs DEF Inv
  <2>4. ui.cursor \in Cursors
    BY <1>3 DEF Ui
  <2>5. QED BY <1>3, <2>1, <2>2, <2>3, <2>4, LoadedInv
<1>10. QED BY <1>3, <1>5, <1>6, <1>7, <1>8, <1>9 DEF Operations

\* No answer comes, or an error.
LEMMA CallFailsInv ==
  ASSUME Inv, CallFails
  PROVE  Inv'
<1>1. /\ ~Idle /\ ValidRequest(call) /\ Fails("StoreError")
      /\ (Effect(call) \/ UNCHANGED store)
      /\ faults < MaxFaults /\ faults' = faults + 1 /\ others' = others
  BY DEF CallFails, Fault
<1>2. /\ store' \in Stores
      /\ call.operation # "RemoveProject" => Existing' = Existing
  BY <1>1, EffectIs DEF Inv, ManagerInv
<1>3. faults' \in 0..MaxFaults
  BY <1>1, ManagerAssumption DEF Inv, TypeOK
<1>4. RestOK'
  <2>1. RestOK
    BY TypeIs DEF Inv
  <2>2. QED BY <1>1, <1>2, <1>3, <2>1 DEF Fails, RestOK
<1>5. QED BY <1>1, <1>2, <1>4, FailedInv

\* The encoder refuses what the user typed.
LEMMA CallRefusedInv ==
  ASSUME Inv, CallRefused
  PROVE  Inv'
<1>1. /\ ~Idle /\ ~ValidRequest(call) /\ Fails("ProtocolError")
      /\ UNCHANGED <<store, faults, others>>
  BY DEF CallRefused, bounds
<1>2. RestOK'
  <2>1. RestOK
    BY TypeIs DEF Inv
  <2>2. QED BY <1>1, <2>1 DEF Fails, RestOK
<1>3. Existing' = Existing
  BY <1>1 DEF Existing
<1>4. QED BY <1>1, <1>2, <1>3, FailedInv

\* The editor publishes a symbol, at any moment of the manager's.
LEMMA PublishInv ==
  ASSUME Inv, NEW p \in Projects, NEW e \in Entries, Publish(p, e)
  PROVE  Inv'
<1>1. /\ store' = [store EXCEPT ![p].exists = TRUE, ![p].entries = @ \cup {e}]
      /\ quiet' = (quiet /\ store[p].exists) /\ fresh' = FALSE
      /\ UNCHANGED <<ui, call, faults, origin, unread>>
      /\ others < MaxOthers /\ others' = others + 1
  BY DEF Publish
<1>2. store \in Stores
  BY DEF Inv, TypeOK, Stores
<1>3. store' \in Stores
  BY <1>1, <1>2 DEF Stores
<1>4. quiet' => quiet /\ Existing' = Existing
  BY <1>1, <1>2 DEF Stores, Existing
<1>5. others' \in 0..MaxOthers
  BY <1>1, ManagerAssumption DEF Inv, TypeOK
<1>6. TypeOK'
  BY <1>1, <1>3, <1>5, <1>2 DEF Inv, TypeOK, Stores
<1>7. CallInv' /\ BelongInv'
  BY <1>1 DEF Inv, ManagerInv, CallInv, BelongInv, Idle, TermRefused
<1>8. ListInv'
  <2>1. ListInv
    BY DEF Inv, ManagerInv
  <2>2. QED BY <1>1, <1>4, <2>1 DEF ListInv
<1>9. CurrentInv'
  BY <1>1 DEF CurrentInv, TermRefused
<1>10. ListIsComplete'
  BY <1>1, <1>4 DEF Inv, ListIsComplete
<1>11. QED BY <1>6, <1>7, <1>8, <1>9, <1>10 DEF Inv, ManagerInv

LEMMA NextInv ==
  ASSUME Inv, [Next]_vars
  PROVE  Inv'
<1>1. CASE Refresh
  <2>1. /\ RefreshProjects(ui)
        /\ UNCHANGED <<store, faults, others, origin, unread, fresh>>
    BY <1>1 DEF Refresh, bounds
  <2>2. ui \in Ui /\ RestOK
    BY TypeIs DEF Inv
  <2>3. RestOK'
    BY <2>1, <2>2 DEF RefreshProjects, RestOK
  <2>4. QED BY <2>1, <2>2, <2>3, RefreshedInv
<1>2. CASE Select \/ PreviousPage \/ NextPage
  BY <1>2, LoadStepInv
<1>3. CASE \/ ToggleProject \/ RemoveProject \/ RemoveSelectedEntry
           \/ \E e \in Terms \cup Refused : AddTerm(e)
  BY <1>3, ButtonsInv
<1>4. CASE SelectEntry
  BY <1>4, SelectEntryInv
<1>5. CASE Served
  BY <1>5, ServedInv
<1>6. CASE CallFails
  BY <1>6, CallFailsInv
<1>7. CASE \E p \in Projects, e \in Entries : Publish(p, e)
  BY <1>7, PublishInv
<1>8. CASE CallRefused
  BY <1>8, CallRefusedInv
<1>9. CASE UNCHANGED vars
  BY <1>9, StutterInv
<1>10. QED BY <1>1, <1>2, <1>3, <1>4, <1>5, <1>6, <1>7, <1>8, <1>9 DEF Next

-----------------------------------------------------------------------------
(***************************************************************************)
(* The theorems.                                                           *)
(***************************************************************************)

\* The types, the requests and the listing under way, the page and the list: what
\* every reachable state of the manager and the service satisfies.
THEOREM InvCorrect == Spec => []Inv
<1>1. Inv /\ [Next]_vars => Inv'
  BY NextInv
<1>2. QED BY InitInv, <1>1, PTL DEF Spec

\* While nothing is under way, the page is the selected project's, or its load
\* has failed, and without a project no button that changes one works.
THEOREM PageIsTheSelecteds == Spec => []PageBelongs
<1>1. Inv => PageBelongs
  <2>1. NoCall.operation = "none"
    BY DEF NoCall
  <2>2. QED BY <2>1 DEF Inv, ManagerInv, BelongInv, PageBelongs, Idle
<1>2. QED BY InvCorrect, <1>1, PTL

\* The page shown is the stored one, after whatever changes the manager made.
THEOREM PageIsTheStoreds == Spec => []PageIsCurrent
<1>1. Inv => PageIsCurrent
  BY DEF Inv, CurrentInv, StoredPage, PageIsCurrent
<1>2. QED BY InvCorrect, <1>1, PTL

\* A listing in pages shows every project once, in its order, or as many of the
\* first as the window holds.
THEOREM ListComplete == Spec => []ListIsComplete
<1>1. Inv => ListIsComplete
  BY DEF Inv
<1>2. QED BY InvCorrect, <1>1, PTL

\* The encoder refuses no request of the manager's but a term the user typed that
\* is no entry, and no response of the service's, and a listing gets on.
THEOREM FramesWellFormed == Spec => []WellFormed
<1>1. Inv => WellFormed
  <2> SUFFICES ASSUME Inv PROVE WellFormed
    OBVIOUS
  <2>1. TypeOK /\ CallInv
    BY DEF Inv, ManagerInv
  <2>2. ASSUME ~Idle PROVE ValidResponse(Response(call))
    BY <2>1, <2>2, ListAnswer, ViewAnswer, ChangeAnswer
  <2>3. ASSUME ~Idle, ~ValidRequest(call) PROVE TermRefused
    BY <2>1, <2>3 DEF CallInv
  <2>4. ASSUME call.operation = "ListProjects"
        PROVE  Response(call).next \notin 0..call.cursor
    <3>1. CASE Response(call).status = "Ok"
      <4>1. /\ Response(call).next \in Cursors \cup {NoNextCursor}
            /\ Response(call).next # NoNextCursor =>
                 Response(call).next > call.cursor
        BY <2>4, <3>1, MoreIds
      <4>2. call.cursor \in Nat /\ Cursors \subseteq Nat
        <5>1. call \in Request
          BY <2>1, <2>4 DEF TypeOK, NoCall
        <5>2. QED BY <5>1, SortedFacts DEF Request
      <4>3. QED BY <4>1, <4>2 DEF NoNextCursor
    <3>2. CASE Response(call).status # "Ok"
      <4>1. Response(call).next = NoNextCursor
        BY <2>1, <2>4, <3>2, ListAnswer DEF ValidResponse
      <4>2. call.cursor \in Nat
        <5>1. call \in Request
          BY <2>1, <2>4 DEF TypeOK, NoCall
        <5>2. QED BY <5>1, SortedFacts DEF Request
      <4>3. QED BY <4>1, <4>2 DEF NoNextCursor
    <3>3. QED BY <3>1, <3>2
  <2>5. QED BY <2>1, <2>2, <2>3, <2>4 DEF WellFormed
<1>2. QED BY InvCorrect, <1>1, PTL
=============================================================================
