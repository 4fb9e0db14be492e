--------------------------- MODULE PassagesProofs ---------------------------
(***************************************************************************)
(* Shared passages, for every number of documents, passages, resets and    *)
(* aborted transactions.                                                   *)
(***************************************************************************)
EXTENDS Passages, TLAPS

\* A row that a transaction is changing is one of its own: inserted for a
\* passage of its document, or deleted by its reset.
OwnRow(p) ==
    /\ chunks[p].is \in {"none", "live"} <=> chunks[p].by = Nobody
    /\ chunks[p].is # "none" => chunks[p].id >= 1
    /\ chunks[p].is = "new" =>
          /\ tx[chunks[p].by].at \in {"insert", "check"}
          /\ p \in PassagesOf(chunks[p].by)
          /\ tx[chunks[p].by].at = "check" =>
                <<p, chunks[p].id>> \in tx[chunks[p].by].rows
    /\ chunks[p].is = "going" =>
          /\ tx[chunks[p].by].at = "delete"
          /\ <<p, chunks[p].id>> \in tx[chunks[p].by].done
OwnInv == \A p \in Passages : OwnRow(p)

\* A row that d may count on: committed, or its own.
Safe(d, p) == chunks[p].is = "live" \/ (chunks[p].is = "new" /\ chunks[p].by = d)

\* What d's placements point at: rows that are there, that were there, or that d
\* inserts; a row that another transaction inserts meanwhile has a later id.
\* Those whose foreign key is checked stay.
Checking(d) ==
    /\ status[d] = "PROCESSING"
    /\ \A r \in tx[d].rows :
          /\ r[2] <= chunks[r[1]].id
          /\ chunks[r[1]].is = "new" /\ chunks[r[1]].by # d => r[2] < chunks[r[1]].id
    /\ \A r \in tx[d].done : chunks[r[1]].id = r[2] /\ Safe(d, r[1])

\* A reset, the only one, takes d's own placements away; those it does not
\* take have another holder.
Deleting(d) ==
    /\ status[d] = "COMPLETED"
    /\ \A e \in Docs : tx[e].at = "delete" => e = d
    /\ \A r \in tx[d].rows : <<d, r[1], r[2]>> \in placed
    /\ \A r \in tx[d].done : chunks[r[1]].is = "going"
    /\ \A o \in placed : o[1] = d /\ <<o[2], o[3]>> \notin tx[d].rows =>
          \E q \in placed : q[1] # d /\ q[2] = o[2]

\* What the open transaction of d has seen and done.
TxFine(d) ==
    /\ tx[d].done \subseteq tx[d].rows
    /\ tx[d].at = "insert" =>
          tx[d].done = {} /\ tx[d].next >= 1 /\ status[d] = "PROCESSING"
    /\ tx[d].at = "check" => Checking(d)
    /\ tx[d].at = "delete" => Deleting(d)
TxInv == \A d \in Docs : TxFine(d)

\* A placement's row is there and nobody is inserting it.
PlacedInv ==
    \A o \in placed : /\ chunks[o[2]].id = o[3]
                      /\ chunks[o[2]].is \in {"live", "going"}
                      /\ status[o[1]] = "COMPLETED"

\* Before the first reset: what a transaction has inserted or found stays, so
\* that its join finds all of it.
WholeFine(d) ==
    /\ tx[d].at # "delete"
    /\ tx[d].at = "insert" =>
          \A i \in DOMAIN Text[d] : i < tx[d].next => Safe(d, Text[d][i])
    /\ tx[d].at = "check" =>
          \A p \in PassagesOf(d) : Safe(d, p) /\ <<p, chunks[p].id>> \in tx[d].rows
    /\ status[d] = "COMPLETED" =>
          \A p \in PassagesOf(d) :
              chunks[p].is = "live" /\ <<d, p, chunks[p].id>> \in placed
WholeInv == resets = 0 => \A d \in Docs : WholeFine(d)

IInv == TypeOK /\ OwnInv /\ TxInv /\ PlacedInv /\ NoOrphans /\ WholeInv

-----------------------------------------------------------------------------
LEMMA Texts ==
  ASSUME NEW d \in Docs
  PROVE  /\ PassagesOf(d) \subseteq Passages
         /\ \A i \in DOMAIN Text[d] : Text[d][i] \in PassagesOf(d)
         /\ \A p \in PassagesOf(d) : \E i \in DOMAIN Text[d] : p = Text[d][i]
         /\ DOMAIN Text[d] = 1..Len(Text[d]) /\ Len(Text[d]) \in Nat
BY PassageAssumption DEF PassageAssumption, PassagesOf, Range

LEMMA InitInv == Init => IInv
<1> SUFFICES ASSUME Init PROVE IInv
  OBVIOUS
<1>1. TypeOK
  BY PassageAssumption DEF Init, TypeOK, Row, RowStates, Tx, NoTx, PassageAssumption
<1>2. OwnInv /\ NoOrphans /\ PlacedInv
  BY DEF Init, OwnInv, OwnRow, NoOrphans, PlacedInv
<1>3. TxInv /\ WholeInv
  BY DEF Init, TxInv, TxFine, WholeInv, WholeFine, NoTx, Checking, Deleting
<1> QED
  BY <1>1, <1>2, <1>3 DEF IInv

-----------------------------------------------------------------------------
(* One lemma for each effect of a step.                                    *)

\* The rows and the transaction after a rollback.
LEMMA RollbackKeeps ==
  ASSUME IInv, NEW d \in Docs, Rollback(d), aborts' \in 0..MaxAborts
  PROVE  IInv'
<1>1. /\ TypeOK /\ OwnInv /\ TxInv /\ PlacedInv /\ NoOrphans /\ WholeInv
      /\ UNCHANGED <<placed, status, resets>>
  BY DEF IInv, Rollback
<1>2. \A p \in Passages : chunks[p] \in Row
  BY <1>1 DEF TypeOK
<1>3. ASSUME NEW p \in Passages
      PROVE  /\ chunks[p].by # d => chunks'[p] = chunks[p]
             /\ chunks[p].by = d /\ chunks[p].is = "new" =>
                   /\ chunks'[p].is = "none"
                   /\ chunks'[p].by = Nobody
                   /\ chunks'[p].id = chunks[p].id - 1
             /\ chunks[p].by = d /\ chunks[p].is # "new" =>
                   /\ chunks'[p].is = "live"
                   /\ chunks'[p].by = Nobody
                   /\ chunks'[p].id = chunks[p].id
  BY DEF Rollback, RolledBack, Mine, Unowned
<1>4. /\ tx'[d] = NoTx /\ \A e \in Docs : e # d => tx'[e] = tx[e]
      /\ tx' \in [Docs -> Tx]
  BY <1>1 DEF Rollback, TypeOK, Tx, NoTx
<1>5. d # Nobody
  BY PassageAssumption DEF PassageAssumption
<1>6. chunks' \in [Passages -> Row]
  <2>1. ASSUME NEW p \in Passages PROVE chunks'[p] \in Row
    <3>1. CASE chunks[p].by = d /\ chunks[p].is = "new"
      <4>1. chunks[p].id \in Nat /\ chunks[p].id >= 1
        BY <1>1, <1>2, <3>1 DEF OwnInv, OwnRow, Row
      <4>2. chunks'[p] = [is |-> "none", by |-> Nobody, id |-> chunks[p].id - 1]
        BY <3>1 DEF Rollback, RolledBack, Mine, Unowned
      <4>3. chunks[p].id - 1 \in Nat
        BY <4>1
      <4> QED
        BY <4>2, <4>3 DEF Row, RowStates
    <3>2. CASE chunks[p].by = d /\ chunks[p].is # "new"
      <4>1. chunks'[p] = [is |-> "live", by |-> Nobody, id |-> chunks[p].id]
        BY <3>2 DEF Rollback, RolledBack, Mine, Unowned
      <4> QED
        BY <1>2, <4>1 DEF Row, RowStates
    <3>3. CASE chunks[p].by # d
      BY <1>2, <1>3, <3>3
    <3> QED
      BY <3>1, <3>2, <3>3
  <2>2. chunks' = [p \in Passages |-> chunks'[p]]
    BY DEF Rollback, RolledBack
  <2> QED
    BY <2>1, <2>2
<1>7. TypeOK'
  BY <1>1, <1>4, <1>6 DEF TypeOK
<1>8. ASSUME NEW p \in Passages, chunks[p].by = d, chunks[p].is # "new"
      PROVE  chunks[p].is = "going" /\ <<d, p, chunks[p].id>> \in placed
  <2>1. chunks[p].is = "going"
    BY <1>1, <1>2, <1>5, <1>8 DEF OwnInv, OwnRow, Row, RowStates
  <2>2. tx[d].at = "delete" /\ <<p, chunks[p].id>> \in tx[d].rows
    BY <1>1, <1>8, <2>1 DEF OwnInv, OwnRow, TxInv, TxFine, Checking, Deleting
  <2> QED
    BY <1>1, <2>1, <2>2 DEF TxInv, TxFine, Checking, Deleting
<1>9. OwnInv'
  <2> SUFFICES ASSUME NEW p \in Passages PROVE OwnRow(p)'
    BY DEF OwnInv, OwnRow
  <2>1. CASE chunks[p].by = d
    BY <1>1, <1>3, <1>8, <2>1 DEF OwnInv, OwnRow
  <2>2. CASE chunks[p].by # d
    <3>1. chunks'[p] = chunks[p]
      BY <1>3, <2>2
    <3>2. chunks[p].by = Nobody \/ chunks[p].by \in Docs
      BY <1>2 DEF Row
    <3> QED
      BY <1>1, <1>4, <2>2, <3>1, <3>2 DEF OwnInv, OwnRow
  <2> QED
    BY <2>1, <2>2
<1>10. ASSUME NEW p \in Passages, chunks[p].is \in {"live", "going"}
       PROVE  chunks'[p].is \in {"live", "going"} /\ chunks'[p].id = chunks[p].id
  BY <1>3, <1>10
<1>11. PlacedInv'
  BY <1>1, <1>10 DEF PlacedInv, TypeOK
<1>12. ASSUME NEW e \in Docs, e # d, NEW p \in Passages, Safe(e, p)
       PROVE  chunks'[p] = chunks[p]
  BY <1>1, <1>3, <1>5, <1>12 DEF Safe, OwnInv, OwnRow
<1>13. TxInv'
  <2> SUFFICES ASSUME NEW e \in Docs PROVE TxFine(e)'
    BY DEF TxInv
  <2>1. CASE e = d
    BY <1>4, <2>1 DEF TxFine, NoTx
  <2>2. CASE e # d
    <3>1. tx'[e] = tx[e] /\ tx[e] \in Tx /\ TxFine(e) /\ status'[e] = status[e]
      BY <1>1, <1>4, <2>2 DEF TypeOK, TxInv
    <3>2. /\ \A r \in tx[e].rows : r[1] \in Passages /\ r[2] \in Nat
          /\ \A r \in tx[e].done : r[1] \in Passages
      BY <3>1 DEF Tx
    <3>3. CASE tx[e].at = "check"
      <4>1. ASSUME NEW r \in tx[e].rows
            PROVE  /\ r[2] <= chunks'[r[1]].id
                   /\ chunks'[r[1]].is = "new" /\ chunks'[r[1]].by # e =>
                         r[2] < chunks'[r[1]].id
        <5>1. /\ r[2] <= chunks[r[1]].id
              /\ chunks[r[1]].is = "new" /\ chunks[r[1]].by # e => r[2] < chunks[r[1]].id
          BY <3>1, <3>3 DEF TxFine, Checking
        <5>2. r[1] \in Passages /\ r[2] \in Nat /\ chunks[r[1]].id \in Nat
          BY <1>2, <3>2 DEF Row
        <5>3. CASE chunks[r[1]].by = d /\ chunks[r[1]].is = "new"
          BY <1>3, <2>2, <5>1, <5>2, <5>3
        <5>4. CASE chunks[r[1]].by = d /\ chunks[r[1]].is # "new"
          BY <1>3, <5>1, <5>2, <5>4
        <5>5. CASE chunks[r[1]].by # d
          BY <1>3, <5>1, <5>2, <5>5
        <5> QED
          BY <5>3, <5>4, <5>5
      <4>2. ASSUME NEW r \in tx[e].done
            PROVE  chunks'[r[1]].id = r[2] /\ Safe(e, r[1])'
        <5>1. chunks[r[1]].id = r[2] /\ Safe(e, r[1])
          BY <3>1, <3>3 DEF TxFine, Checking
        <5>2. chunks'[r[1]] = chunks[r[1]]
          BY <1>12, <2>2, <3>2, <5>1
        <5> QED
          BY <5>1, <5>2 DEF Safe
      <4>3. Checking(e)'
        BY <3>1, <3>3, <4>1, <4>2 DEF TxFine, Checking
      <4> QED
        BY <3>1, <3>3, <4>3 DEF TxFine
    <3>4. CASE tx[e].at = "delete"
      <4>1. Deleting(e)
        BY <3>1, <3>4 DEF TxFine
      <4>2. \A f \in Docs : tx'[f].at = "delete" => f = e
        BY <1>4, <4>1 DEF NoTx, Deleting
      <4>3. ASSUME NEW r \in tx[e].done
            PROVE  chunks'[r[1]].is = "going"
        <5>1. chunks[r[1]].is = "going" /\ r[1] \in Passages
          BY <3>2, <4>1 DEF Deleting
        <5>2. chunks[r[1]].by # d
          <6> SUFFICES ASSUME chunks[r[1]].by = d PROVE FALSE
            OBVIOUS
          <6>1. tx[d].at = "delete"
            BY <1>1, <5>1 DEF OwnInv, OwnRow
          <6> QED
            BY <2>2, <4>1, <6>1 DEF Deleting
        <5>3. chunks'[r[1]] = chunks[r[1]]
          BY <1>3, <5>1, <5>2
        <5> QED
          BY <5>1, <5>3
      <4>4. Deleting(e)'
        BY <1>1, <3>1, <4>1, <4>2, <4>3 DEF Deleting
      <4> QED
        BY <3>1, <3>4, <4>4 DEF TxFine
    <3>5. CASE tx[e].at \notin {"check", "delete"}
      BY <3>1, <3>5 DEF TxFine
    <3> QED
      BY <3>3, <3>4, <3>5
  <2> QED
    BY <2>1, <2>2
<1>14. NoOrphans'
  <2> SUFFICES ASSUME NEW p \in Passages, chunks'[p].is = "live"
               PROVE  \E o \in placed : o[2] = p /\ o[3] = chunks'[p].id
    BY <1>1 DEF NoOrphans
  <2>1. CASE chunks[p].by = d
    BY <1>3, <1>8, <2>1
  <2>2. CASE chunks[p].by # d
    BY <1>1, <1>3, <2>2 DEF NoOrphans
  <2> QED
    BY <2>1, <2>2
<1>15. WholeInv'
  <2> SUFFICES ASSUME resets' = 0, NEW e \in Docs PROVE WholeFine(e)'
    BY DEF WholeInv
  <2>1. \A p \in Passages : chunks[p].is = "live" => chunks'[p] = chunks[p]
    BY <1>1, <1>3, <1>5 DEF OwnInv, OwnRow
  <2> USE DEF WholeFine
  <2>2. WholeFine(e) /\ PassagesOf(e) \subseteq Passages
    BY <1>1, Texts DEF WholeInv
  <2>3. status'[e] = "COMPLETED" =>
           \A p \in PassagesOf(e) :
               chunks'[p].is = "live" /\ <<e, p, chunks'[p].id>> \in placed'
    BY <1>1, <2>1, <2>2
  <2>4. CASE e = d
    BY <1>4, <2>3, <2>4 DEF NoTx, PassagesOf
  <2>5. CASE e # d
    <3>1. tx'[e] = tx[e]
      BY <1>4, <2>5
    <3>2. \A p \in PassagesOf(e) : Safe(e, p) => Safe(e, p)' /\ chunks'[p] = chunks[p]
      BY <1>12, <2>2, <2>5 DEF Safe
    <3>3. tx[e].at = "insert" =>
             \A i \in DOMAIN Text[e] : i < tx[e].next => Safe(e, Text[e][i])'
      BY <2>2, <3>2, Texts
    <3>4. tx[e].at = "check" =>
             \A p \in PassagesOf(e) : Safe(e, p)' /\ <<p, chunks'[p].id>> \in tx[e].rows
      BY <2>2, <3>2
    <3> QED
      BY <2>2, <2>3, <3>1, <3>3, <3>4 DEF PassagesOf
  <2> QED
    BY <2>4, <2>5
<1> QED
  BY <1>7, <1>9, <1>11, <1>13, <1>14, <1>15 DEF IInv

\* A step of d's transaction that changes no row.
LEMMA TxStep ==
  ASSUME IInv, NEW d \in Docs,
         tx' \in [Docs -> Tx], \A e \in Docs : e # d => tx'[e] = tx[e],
         UNCHANGED <<chunks, placed, status, aborts>>,
         resets' \in 0..MaxResets, resets' = 0 => resets = 0,
         \A p \in Passages : chunks[p].by = d => OwnRow(p)',
         TxFine(d)', resets' = 0 => WholeFine(d)'
  PROVE  IInv'
<1>1. /\ TypeOK /\ OwnInv /\ TxInv /\ PlacedInv /\ NoOrphans /\ WholeInv
  BY DEF IInv
<1>2. TypeOK'
  BY <1>1 DEF TypeOK
<1>3. OwnInv'
  <2> SUFFICES ASSUME NEW p \in Passages PROVE OwnRow(p)'
    BY DEF OwnInv
  <2>1. CASE chunks[p].by = d
    BY <2>1
  <2>2. CASE chunks[p].by # d
    <3>1. chunks[p].by = Nobody \/ chunks[p].by \in Docs
      BY <1>1 DEF TypeOK, Row
    <3>2. OwnRow(p)
      BY <1>1 DEF OwnInv
    <3>3. CASE chunks[p].by = Nobody
      BY <1>1, <3>2, <3>3 DEF OwnRow, TypeOK, Row, RowStates
    <3>4. CASE chunks[p].by \in Docs
      <4>1. tx'[chunks[p].by] = tx[chunks[p].by]
        BY <1>1, <2>2, <3>4
      <4> QED
        BY <3>2, <4>1 DEF OwnRow, PassagesOf
    <3> QED
      BY <3>1, <3>3, <3>4
  <2> QED
    BY <2>1, <2>2
<1>4. TxInv'
  <2> SUFFICES ASSUME NEW e \in Docs, e # d PROVE TxFine(e)'
    BY DEF TxInv
  <2>1. TxFine(e) /\ tx'[e] = tx[e]
    BY <1>1 DEF TxInv
  <2>2. CASE tx[e].at = "delete"
    <3>1. \A f \in Docs : tx[f].at = "delete" => f = e
      BY <2>1, <2>2 DEF TxFine, Deleting
    <3>2. tx'[d].at # "delete"
      BY <2>1, <2>2 DEF TxFine, Deleting
    <3>3. \A f \in Docs : tx'[f].at = "delete" => f = e
      BY <1>1, <3>1, <3>2
    <3> QED
      BY <2>1, <2>2, <3>3 DEF TxFine, Deleting
  <2>3. CASE tx[e].at # "delete"
    BY <2>1, <2>3 DEF TxFine, Checking, Safe
  <2> QED
    BY <2>2, <2>3
<1>5. PlacedInv' /\ NoOrphans'
  BY <1>1 DEF PlacedInv, NoOrphans
<1>6. WholeInv'
  <2> SUFFICES ASSUME resets' = 0, NEW e \in Docs, e # d PROVE WholeFine(e)'
    BY DEF WholeInv
  <2>1. WholeFine(e) /\ tx'[e] = tx[e]
    BY <1>1 DEF WholeInv
  <2> QED
    BY <2>1 DEF WholeFine, Safe, PassagesOf
<1> QED
  BY <1>2, <1>3, <1>4, <1>5, <1>6 DEF IInv

\* An idle transaction owns no row.
LEMMA IdleOwnsNothing ==
  ASSUME IInv, NEW d \in Docs, ~Open(d), NEW p \in Passages
  PROVE  chunks[p].by # d
<1> SUFFICES ASSUME chunks[p].by = d PROVE FALSE
  OBVIOUS
<1>1. OwnRow(p) /\ chunks[p] \in Row /\ d # Nobody
  BY PassageAssumption DEF IInv, OwnInv, TypeOK, PassageAssumption
<1>2. chunks[p].is \in {"new", "going"}
  BY <1>1 DEF OwnRow, Row, RowStates
<1> QED
  BY <1>1, <1>2 DEF OwnRow, Open

LEMMA BeginKeeps ==
  ASSUME IInv, NEW d \in Docs, Begin(d)
  PROVE  IInv'
<1> DEFINE t == Opened("insert", {})
<1>1. t \in Tx
  <2>1. 1 \in Nat /\ {} \subseteq Passages \X Nat
    OBVIOUS
  <2> QED
    BY <2>1 DEF Tx, Opened
<1>2. tx' = [tx EXCEPT ![d] = t] /\ UNCHANGED <<chunks, placed, status, resets, aborts>>
  BY DEF Begin
<1>3. /\ tx'[d] = t /\ \A e \in Docs : e # d => tx'[e] = tx[e]
      /\ tx' \in [Docs -> Tx] /\ resets \in 0..MaxResets
  BY <1>1, <1>2 DEF IInv, TypeOK
<1>4. \A p \in Passages : chunks[p].by = d => OwnRow(p)'
  BY IdleOwnsNothing DEF Begin
<1>5. TxFine(d)'
  BY <1>1, <1>2, <1>3 DEF TxFine, Begin, Opened
<1>6. WholeFine(d)'
  <2>1. status'[d] = "PROCESSING"
    BY <1>2 DEF Begin
  <2>2. \A i \in DOMAIN Text[d] : ~(i < 1)
    BY Texts
  <2> QED
    BY <1>1, <1>3, <2>1, <2>2 DEF WholeFine, Opened
<1> HIDE DEF t
<1> QED
  BY <1>1, <1>2, <1>3, <1>4, <1>5, <1>6, TxStep

\* The i-th passage of d, and what is known of its row.
LEMMA NextPassage ==
  ASSUME IInv, NEW d \in Docs, tx[d].at = "insert", tx[d].next <= Len(Text[d])
  PROVE  /\ tx[d].next \in DOMAIN Text[d]
         /\ Text[d][tx[d].next] \in PassagesOf(d)
         /\ Text[d][tx[d].next] \in Passages
<1>1. tx[d].next \in Nat /\ tx[d].next >= 1
  BY DEF IInv, TypeOK, Tx, TxInv, TxFine
<1> QED
  BY <1>1, Texts

\* Insert meets a committed row and leaves it alone.
LEMMA SkipKeeps ==
  ASSUME IInv, NEW d \in Docs, Insert(d), chunks[Text[d][tx[d].next]].is = "live"
  PROVE  IInv'
<1> DEFINE t == [tx[d] EXCEPT !.next = @ + 1]
<1>1. tx[d] \in Tx /\ tx[d].at = "insert"
  BY DEF IInv, TypeOK, Insert
<1>2. /\ t \in Tx /\ t.at = "insert" /\ t.next = tx[d].next + 1
      /\ t.done = tx[d].done /\ t.rows = tx[d].rows
  BY <1>1 DEF Tx
<1>3. tx' = [tx EXCEPT ![d] = t]
  BY <1>1 DEF Insert, IInv, TypeOK
<1>4. UNCHANGED <<chunks, placed, status, resets, aborts>>
  BY DEF Insert
<1>5. /\ tx'[d] = t /\ \A e \in Docs : e # d => tx'[e] = tx[e]
      /\ tx' \in [Docs -> Tx] /\ resets \in 0..MaxResets
  BY <1>2, <1>3 DEF IInv, TypeOK
<1> HIDE DEF t
<1>6. ASSUME NEW p \in Passages, chunks[p].by = d
      PROVE  OwnRow(p)'
  <2>1. OwnRow(p)
    BY DEF IInv, OwnInv
  <2> QED
    BY <1>1, <1>2, <1>4, <1>5, <1>6, <2>1 DEF OwnRow, PassagesOf
<1>7. TxFine(d)'
  <2>1. TxFine(d) /\ tx[d].next \in Nat
    BY <1>1 DEF IInv, TxInv, Tx
  <2>2. tx[d].next + 1 >= 1
    BY <2>1
  <2> QED
    BY <1>1, <1>2, <1>4, <1>5, <2>1, <2>2 DEF TxFine
<1>8. ASSUME resets' = 0
      PROVE  WholeFine(d)'
  <2>1. WholeFine(d) /\ tx[d].next \in Nat
    BY <1>1, <1>4, <1>8 DEF IInv, WholeInv, Tx
  <2>2. \A i \in DOMAIN Text[d] : i < t.next => Safe(d, Text[d][i])'
    <3> SUFFICES ASSUME NEW i \in DOMAIN Text[d], i < tx[d].next + 1
                 PROVE  Safe(d, Text[d][i])
      BY <1>2, <1>4 DEF Safe
    <3>1. i \in Nat /\ (i < tx[d].next \/ i = tx[d].next)
      BY <2>1, Texts
    <3> QED
      BY <1>1, <2>1, <3>1 DEF WholeFine, Safe
  <2>3. status[d] # "COMPLETED"
    BY <1>1 DEF IInv, TxInv, TxFine
  <2> QED
    BY <1>2, <1>4, <1>5, <2>2, <2>3 DEF WholeFine
<1> QED
  BY <1>2, <1>3, <1>4, <1>5, <1>6, <1>7, <1>8, TxStep

LEMMA PlaceKeeps ==
  ASSUME IInv, NEW d \in Docs, Place(d)
  PROVE  IInv'
<1> DEFINE R == {<<p, chunks[p].id>> : p \in {q \in PassagesOf(d) : Visible(d, q)}}
<1>1. /\ tx[d] \in Tx /\ tx[d].at = "insert" /\ tx[d].next > Len(Text[d])
      /\ TxFine(d) /\ UNCHANGED <<chunks, placed, status, resets, aborts>>
      /\ resets \in 0..MaxResets /\ tx \in [Docs -> Tx]
      /\ \A p \in Passages : chunks[p] \in Row
  BY DEF IInv, TypeOK, TxInv, Place
<1>2. /\ tx'[d].at = "check" /\ tx'[d].rows = R
      /\ tx'[d].next = tx[d].next /\ tx'[d].done = tx[d].done
      /\ \A e \in Docs : e # d => tx'[e] = tx[e]
  BY <1>1 DEF Place, Tx
<1>3. R \subseteq Passages \X Nat
  BY <1>1, Texts DEF Row
<1>4. tx' \in [Docs -> Tx]
  BY <1>1, <1>3 DEF Place, Tx
<1>5. tx[d].done = {} /\ status[d] = "PROCESSING"
  BY <1>1 DEF TxFine
<1>6. ASSUME NEW p \in Passages, chunks[p].by = d
      PROVE  OwnRow(p)'
  <2>1. OwnRow(p)
    BY DEF IInv, OwnInv
  <2>2. chunks[p].is # "going"
    BY <1>1, <1>6, <2>1 DEF OwnRow
  <2>3. chunks[p].is = "new" => p \in PassagesOf(d) /\ Visible(d, p)
    BY <1>6, <2>1 DEF OwnRow, Visible
  <2>4. chunks[p].is = "new" => <<p, chunks[p].id>> \in R
    BY <2>3
  <2> HIDE DEF R
  <2> QED
    BY <1>1, <1>2, <1>6, <2>1, <2>2, <2>3, <2>4 DEF OwnRow, PassagesOf
<1>7. Checking(d)'
  <2>1. ASSUME NEW r \in R
        PROVE  /\ r[2] = chunks[r[1]].id
               /\ chunks[r[1]].is = "new" => chunks[r[1]].by = d
               /\ chunks[r[1]].id \in Nat
    <3>1. PICK p \in PassagesOf(d) : Visible(d, p) /\ r = <<p, chunks[p].id>>
      OBVIOUS
    <3>2. r[1] = p /\ r[2] = chunks[p].id /\ p \in Passages
      BY <3>1, Texts
    <3> QED
      BY <1>1, <3>1, <3>2 DEF Visible, Row
  <2> HIDE DEF R
  <2> QED
    BY <1>1, <1>2, <1>5, <2>1 DEF Checking
<1>8. TxFine(d)'
  BY <1>2, <1>5, <1>7 DEF TxFine
<1>9. ASSUME resets' = 0
      PROVE  WholeFine(d)'
  <2>1. WholeFine(d)
    BY <1>1, <1>9 DEF IInv, WholeInv
  <2>2. ASSUME NEW p \in PassagesOf(d)
        PROVE  Safe(d, p) /\ <<p, chunks[p].id>> \in R
    <3>1. PICK i \in DOMAIN Text[d] : p = Text[d][i]
      BY Texts
    <3>2. i < tx[d].next
      BY <1>1, Texts DEF Tx
    <3>3. Safe(d, p)
      BY <1>1, <2>1, <3>1, <3>2 DEF WholeFine
    <3> QED
      BY <3>3 DEF Safe, Visible
  <2> HIDE DEF R
  <2> QED
    BY <1>1, <1>2, <1>5, <2>2 DEF WholeFine, Safe, PassagesOf
<1> HIDE DEF R
<1> QED
  BY <1>1, <1>2, <1>4, <1>6, <1>8, <1>9, TxStep

LEMMA CheckKeeps ==
  ASSUME IInv, NEW d \in Docs, Check(d)
  PROVE  IInv'
<1>1. /\ tx[d] \in Tx /\ tx[d].at = "check" /\ TxFine(d) /\ Checking(d)
      /\ UNCHANGED <<chunks, placed, status, resets, aborts>>
      /\ resets \in 0..MaxResets /\ tx \in [Docs -> Tx]
      /\ \A p \in Passages : chunks[p] \in Row
  BY DEF IInv, TypeOK, TxInv, TxFine, Check
<1>2. PICK r \in tx[d].rows \ tx[d].done :
         /\ IsRow(r) /\ chunks[r[1]].is # "going"
         /\ tx' = [tx EXCEPT ![d].done = @ \union {r}]
  BY DEF Check
<1>3. r \in Passages \X Nat
  BY <1>1 DEF Tx
<1>4. /\ tx'[d].at = "check" /\ tx'[d].rows = tx[d].rows
      /\ tx'[d].next = tx[d].next /\ tx'[d].done = tx[d].done \union {r}
      /\ \A e \in Docs : e # d => tx'[e] = tx[e]
  BY <1>1, <1>2 DEF Tx
<1>5. tx' \in [Docs -> Tx]
  BY <1>1, <1>2, <1>3 DEF Tx
<1>6. ASSUME NEW p \in Passages, chunks[p].by = d
      PROVE  OwnRow(p)'
  <2>1. OwnRow(p)
    BY DEF IInv, OwnInv
  <2> QED
    BY <1>1, <1>4, <1>6, <2>1 DEF OwnRow, PassagesOf
<1>7. chunks[r[1]].id = r[2] /\ Safe(d, r[1])
  <2>1. chunks[r[1]].id = r[2] /\ chunks[r[1]].is \in {"new", "live"}
    BY <1>1, <1>2, <1>3 DEF IsRow, Row, RowStates
  <2>2. r[2] \in Nat /\ ~(r[2] < r[2])
    BY <1>3
  <2> QED
    BY <1>1, <1>2, <2>1, <2>2 DEF Checking, Safe
<1>8. TxFine(d)'
  <2>1. Checking(d)'
    BY <1>1, <1>4, <1>7 DEF Checking, Safe
  <2> QED
    BY <1>1, <1>2, <1>4, <2>1 DEF TxFine
<1>9. ASSUME resets' = 0
      PROVE  WholeFine(d)'
  <2>1. WholeFine(d)
    BY <1>1, <1>9 DEF IInv, WholeInv
  <2> QED
    BY <1>1, <1>4, <2>1 DEF WholeFine, Safe, PassagesOf
<1> QED
  BY <1>1, <1>4, <1>5, <1>6, <1>8, <1>9, TxStep

LEMMA ResetBeginKeeps ==
  ASSUME IInv, NEW d \in Docs, ResetBegin(d)
  PROVE  IInv'
<1>1. /\ TypeOK /\ status[d] = "COMPLETED"
      /\ \A e \in Docs : tx[e].at # "delete"
      /\ tx' = [tx EXCEPT ![d] = Opened("delete", Released(d))]
      /\ UNCHANGED <<chunks, placed, status, aborts>>
  BY DEF IInv, ResetBegin
<1>2. resets' \in 0..MaxResets /\ resets' # 0
  BY PassageAssumption DEF IInv, TypeOK, ResetBegin, PassageAssumption
<1>3. ASSUME NEW o \in placed
      PROVE  o = <<o[1], o[2], o[3]>> /\ o[2] \in Passages /\ o[3] \in Nat
  BY <1>1 DEF TypeOK
<1>4. Released(d) \subseteq Passages \X Nat
  BY <1>3 DEF Released
<1>5. Opened("delete", Released(d)) \in Tx
  BY <1>4 DEF Opened, Tx
<1>6. /\ tx' \in [Docs -> Tx] /\ tx'[d] = Opened("delete", Released(d))
      /\ \A e \in Docs : e # d => tx'[e] = tx[e]
  BY <1>1, <1>5 DEF TypeOK
<1>7. /\ tx'[d].at = "delete" /\ tx'[d].rows = Released(d) /\ tx'[d].done = {}
  BY <1>6 DEF Opened
<1>8. ASSUME NEW r \in Released(d)
      PROVE  <<d, r[1], r[2]>> \in placed
  <2>1. PICK q \in placed : q[1] = d /\ r = <<q[2], q[3]>>
    BY DEF Released
  <2>2. r[1] = q[2] /\ r[2] = q[3]
    BY <2>1
  <2> QED
    BY <1>3, <2>1, <2>2
<1>9. ASSUME NEW o \in placed, o[1] = d, <<o[2], o[3]>> \notin Released(d)
      PROVE  \E q \in placed : q[1] # d /\ q[2] = o[2]
  BY <1>9 DEF Released
<1>10. Deleting(d)'
  <2>1. \A e \in Docs : tx'[e].at = "delete" => e = d
    BY <1>1, <1>6
  <2> QED
    BY <1>1, <1>7, <1>8, <1>9, <2>1 DEF Deleting
<1>11. TxFine(d)'
  BY <1>7, <1>10 DEF TxFine
<1>12. \A p \in Passages : chunks[p].by = d => OwnRow(p)'
  BY IdleOwnsNothing DEF ResetBegin
<1> QED
  BY <1>1, <1>2, <1>6, <1>11, <1>12, TxStep

\* A step of d's transaction, seen by the transaction of e.
LEMMA OtherKeeps ==
  ASSUME IInv, NEW d \in Docs, NEW e \in Docs, e # d,
         \A f \in Docs : f # d => tx'[f] = tx[f],
         status'[e] = status[e],
         tx[e].at = "delete" => tx'[d].at # "delete" /\ placed \subseteq placed',
         \A o \in placed' : o[1] = e => o \in placed,
         tx[e].at = "check" =>
            /\ \A r \in tx[e].rows :
                  /\ r[2] <= chunks'[r[1]].id
                  /\ chunks'[r[1]].is = "new" /\ chunks'[r[1]].by # e =>
                        r[2] < chunks'[r[1]].id
            /\ \A r \in tx[e].done : chunks'[r[1]].id = r[2] /\ Safe(e, r[1])',
         tx[e].at = "delete" => \A r \in tx[e].done : chunks'[r[1]].is = "going"
  PROVE  TxFine(e)'
<1>1. TxFine(e) /\ tx'[e] = tx[e]
  BY DEF IInv, TxInv
<1>2. CASE tx[e].at = "check"
  <2>1. Checking(e)'
    BY <1>1, <1>2 DEF TxFine, Checking
  <2> QED
    BY <1>1, <1>2, <2>1 DEF TxFine
<1>3. CASE tx[e].at = "delete"
  <2>1. Deleting(e)
    BY <1>1, <1>3 DEF TxFine
  <2>2. \A f \in Docs : tx'[f].at = "delete" => f = e
    BY <1>3, <2>1 DEF Deleting
  <2>3. \A o \in placed' : o[1] = e /\ <<o[2], o[3]>> \notin tx'[e].rows =>
           \E q \in placed' : q[1] # e /\ q[2] = o[2]
    BY <1>1, <1>3, <2>1 DEF Deleting
  <2>4. Deleting(e)'
    BY <1>1, <1>3, <2>1, <2>2, <2>3 DEF Deleting
  <2> QED
    BY <1>1, <1>3, <2>4 DEF TxFine
<1>4. CASE tx[e].at \notin {"check", "delete"}
  BY <1>1, <1>4 DEF TxFine
<1> QED
  BY <1>2, <1>3, <1>4

LEMMA WriteKeeps ==
  ASSUME IInv, NEW d \in Docs, Insert(d),
         NEW new, new = Text[d][tx[d].next], chunks[new].is # "live"
  PROVE  IInv'
<1>1. /\ TypeOK /\ OwnInv /\ TxInv /\ PlacedInv /\ NoOrphans /\ WholeInv
      /\ tx[d] \in Tx /\ tx[d].at = "insert" /\ TxFine(d)
      /\ UNCHANGED <<placed, status, resets, aborts>>
      /\ \A p \in Passages : chunks[p] \in Row
      /\ d # Nobody
  BY PassageAssumption DEF IInv, TypeOK, TxInv, Insert, PassageAssumption
<1>2. new \in PassagesOf(d) /\ new \in Passages
  BY NextPassage DEF Insert
<1>3. /\ chunks[new].by = Nobody /\ chunks[new].is = "none"
      /\ chunks' = [chunks EXCEPT ![new] = [is |-> "new", by |-> d, id |-> @.id + 1]]
  BY <1>1, <1>2 DEF Insert, Free, OwnInv, OwnRow
<1>4. /\ chunks'[new] = [is |-> "new", by |-> d, id |-> chunks[new].id + 1]
      /\ chunks[new].id \in Nat
      /\ \A p \in Passages : p # new => chunks'[p] = chunks[p]
  BY <1>1, <1>2, <1>3 DEF TypeOK, Row
<1>5. /\ tx'[d].at = "insert" /\ tx'[d].next = tx[d].next + 1
      /\ tx'[d].rows = tx[d].rows /\ tx'[d].done = tx[d].done
      /\ \A e \in Docs : e # d => tx'[e] = tx[e]
  BY <1>1 DEF Insert, TypeOK, Tx
<1>6. TypeOK'
  <2>1. chunks'[new] \in Row
    BY <1>4 DEF Row, RowStates
  <2>2. chunks' \in [Passages -> Row]
    BY <1>1, <1>2, <1>3, <1>4, <2>1 DEF TypeOK
  <2>3. [tx[d] EXCEPT !.next = @ + 1] \in Tx
    BY <1>1 DEF Tx
  <2>4. tx' = [tx EXCEPT ![d] = [tx[d] EXCEPT !.next = @ + 1]]
    BY <1>1 DEF Insert, TypeOK
  <2>5. tx' \in [Docs -> Tx]
    BY <1>1, <2>3, <2>4 DEF TypeOK
  <2> QED
    BY <1>1, <2>2, <2>5 DEF TypeOK
<1>7. OwnInv'
  <2> SUFFICES ASSUME NEW p \in Passages PROVE OwnRow(p)'
    BY DEF OwnInv
  <2>1. CASE p = new
    <3>1. /\ chunks'[p].is = "new" /\ chunks'[p].by = d
          /\ chunks'[p].id >= 1 /\ p \in PassagesOf(d)
      BY <1>2, <1>4, <2>1
    <3>2. chunks'[p].by # Nobody /\ tx'[d].at = "insert"
      BY <1>1, <1>5, <3>1
    <3> QED
      BY <3>1, <3>2 DEF OwnRow, PassagesOf
  <2>2. CASE p # new
    <3>1. chunks'[p] = chunks[p] /\ OwnRow(p) /\ chunks[p] \in Row
      BY <1>1, <1>4, <2>2 DEF OwnInv
    <3>2. CASE chunks[p].by = d
      BY <1>1, <1>5, <3>1, <3>2 DEF OwnRow, PassagesOf
    <3>3. CASE chunks[p].by # d
      BY <1>1, <1>5, <3>1, <3>3 DEF OwnRow, PassagesOf, Row, RowStates
    <3> QED
      BY <3>2, <3>3
  <2> QED
    BY <2>1, <2>2
<1>8. ASSUME NEW e \in Docs, NEW p \in Passages, Safe(e, p)
      PROVE  chunks'[p] = chunks[p] /\ Safe(e, p)'
  <2>1. p # new
    BY <1>3, <1>8 DEF Safe
  <2> QED
    BY <1>4, <1>8, <2>1 DEF Safe
<1>9. TxInv'
  <2> SUFFICES ASSUME NEW e \in Docs PROVE TxFine(e)'
    BY DEF TxInv
  <2>1. CASE e = d
    <3>1. /\ tx[d].done = {} /\ tx[d].next >= 1 /\ tx[d].next \in Nat
          /\ status[d] = "PROCESSING"
      BY <1>1 DEF TxFine, Tx
    <3> QED
      BY <1>1, <1>5, <2>1, <3>1 DEF TxFine
  <2>2. CASE e # d
    <3>1. tx[e] \in Tx /\ TxFine(e)
      BY <1>1 DEF TypeOK, TxInv
    <3>2. \A r \in tx[e].rows \union tx[e].done : r[1] \in Passages /\ r[2] \in Nat
      BY <3>1 DEF Tx
    <3>3. ASSUME tx[e].at = "check", NEW r \in tx[e].rows
          PROVE  /\ r[2] <= chunks'[r[1]].id
                 /\ chunks'[r[1]].is = "new" /\ chunks'[r[1]].by # e =>
                       r[2] < chunks'[r[1]].id
      <4>1. /\ r[2] <= chunks[r[1]].id
            /\ chunks[r[1]].is = "new" /\ chunks[r[1]].by # e => r[2] < chunks[r[1]].id
        BY <3>1, <3>3 DEF TxFine, Checking
      <4>2. CASE r[1] = new
        BY <1>4, <3>2, <4>1, <4>2
      <4>3. CASE r[1] # new
        <5>1. chunks'[r[1]] = chunks[r[1]]
          BY <1>4, <3>2, <4>3
        <5> QED
          BY <4>1, <5>1
      <4> QED
        BY <4>2, <4>3
    <3>4. ASSUME tx[e].at = "check", NEW r \in tx[e].done
          PROVE  chunks'[r[1]].id = r[2] /\ Safe(e, r[1])'
      <4>1. chunks[r[1]].id = r[2] /\ Safe(e, r[1])
        BY <3>1, <3>4 DEF TxFine, Checking
      <4>2. chunks'[r[1]] = chunks[r[1]] /\ Safe(e, r[1])'
        BY <1>8, <3>2, <4>1
      <4> QED
        BY <4>1, <4>2
    <3>5. ASSUME tx[e].at = "delete", NEW r \in tx[e].done
          PROVE  chunks'[r[1]].is = "going"
      <4>1. chunks[r[1]].is = "going"
        BY <3>1, <3>5 DEF TxFine, Deleting
      <4>2. chunks'[r[1]] = chunks[r[1]]
        BY <1>3, <1>4, <3>2, <4>1
      <4> QED
        BY <4>1, <4>2
    <3> QED
      BY <1>1, <1>5, <2>2, <3>3, <3>4, <3>5, OtherKeeps
  <2> QED
    BY <2>1, <2>2
<1>10. PlacedInv'
  <2> SUFFICES ASSUME NEW o \in placed
               PROVE  /\ chunks'[o[2]].id = o[3]
                      /\ chunks'[o[2]].is \in {"live", "going"}
                      /\ status'[o[1]] = "COMPLETED"
    BY <1>1 DEF PlacedInv
  <2>1. /\ chunks[o[2]].id = o[3] /\ chunks[o[2]].is \in {"live", "going"}
        /\ status[o[1]] = "COMPLETED" /\ o[2] \in Passages
    BY <1>1 DEF PlacedInv, TypeOK
  <2>2. chunks'[o[2]] = chunks[o[2]]
    BY <1>3, <1>4, <2>1
  <2> QED
    BY <1>1, <2>1, <2>2
<1>11. NoOrphans'
  <2> SUFFICES ASSUME NEW p \in Passages, chunks'[p].is = "live"
               PROVE  \E o \in placed : o[2] = p /\ o[3] = chunks'[p].id
    BY <1>1 DEF NoOrphans
  <2>1. p # new
    BY <1>4
  <2> QED
    BY <1>1, <1>4, <2>1 DEF NoOrphans
<1>12. WholeInv'
  <2> SUFFICES ASSUME resets' = 0, NEW e \in Docs PROVE WholeFine(e)'
    BY DEF WholeInv
  <2>1. WholeFine(e) /\ PassagesOf(e) \subseteq Passages
    BY <1>1, Texts DEF WholeInv
  <2>2. \A p \in PassagesOf(e) : Safe(e, p) => chunks'[p] = chunks[p] /\ Safe(e, p)'
    BY <1>8, <2>1
  <2>3. status'[e] = "COMPLETED" =>
           \A p \in PassagesOf(e) :
               chunks'[p].is = "live" /\ <<e, p, chunks'[p].id>> \in placed'
    BY <1>1, <2>1, <2>2 DEF WholeFine, Safe
  <2>4. tx[e].at = "check" =>
           \A p \in PassagesOf(e) : Safe(e, p)' /\ <<p, chunks'[p].id>> \in tx[e].rows
    BY <2>1, <2>2 DEF WholeFine
  <2>5. \A i \in DOMAIN Text[e] : Safe(e, Text[e][i]) => Safe(e, Text[e][i])'
    BY <2>2, Texts
  <2>6. CASE e = d
    <3>1. Safe(d, new)'
      BY <1>4 DEF Safe
    <3>2. ASSUME NEW i \in DOMAIN Text[d], i < tx[d].next + 1
          PROVE  Safe(d, Text[d][i])'
      <4>1. i \in Nat /\ tx[d].next \in Nat
        BY <1>1, Texts DEF Tx
      <4>2. i < tx[d].next \/ i = tx[d].next
        BY <3>2, <4>1
      <4>3. CASE i < tx[d].next
        BY <1>1, <2>1, <2>5, <2>6, <4>3 DEF WholeFine
      <4>4. CASE i = tx[d].next
        BY <3>1, <4>4
      <4> QED
        BY <4>2, <4>3, <4>4
    <3> QED
      BY <1>5, <2>3, <2>6, <3>2 DEF WholeFine
  <2>7. CASE e # d
    <3>1. tx'[e] = tx[e]
      BY <1>5, <2>7
    <3> QED
      BY <2>1, <2>3, <2>4, <2>5, <3>1 DEF WholeFine, PassagesOf
  <2> QED
    BY <2>6, <2>7
<1> QED
  BY <1>6, <1>7, <1>9, <1>10, <1>11, <1>12 DEF IInv

LEMMA DeleteKeeps ==
  ASSUME IInv, NEW d \in Docs, DeleteRow(d)
  PROVE  IInv'
<1>1. /\ TypeOK /\ OwnInv /\ TxInv /\ PlacedInv /\ NoOrphans /\ WholeInv
      /\ tx[d] \in Tx /\ tx[d].at = "delete" /\ TxFine(d) /\ Deleting(d)
      /\ UNCHANGED <<placed, status, resets, aborts>>
      /\ \A p \in Passages : chunks[p] \in Row
      /\ d # Nobody
  BY PassageAssumption DEF IInv, TypeOK, TxInv, TxFine, DeleteRow, PassageAssumption
<1>2. PICK r \in tx[d].rows \ tx[d].done :
         /\ Lockers(r) = {}
         /\ chunks' = [chunks EXCEPT ![r[1]].is = "going", ![r[1]].by = d]
         /\ tx' = [tx EXCEPT ![d].done = @ \union {r}]
  BY DEF DeleteRow
<1>3. PICK gone \in Passages, n \in Nat : r = <<gone, n>> /\ r[1] = gone /\ r[2] = n
  BY <1>1 DEF Tx
<1>4. <<d, gone, n>> \in placed
  BY <1>1, <1>2, <1>3 DEF Deleting
<1>5. chunks[gone].id = n /\ chunks[gone].is \in {"live", "going"}
  <2> DEFINE o == <<d, gone, n>>
  <2>1. o[2] = gone /\ o[3] = n
    OBVIOUS
  <2> HIDE DEF o
  <2> QED
    BY <1>1, <1>4, <2>1 DEF PlacedInv, o
<1>6. chunks[gone].is = "live"
  <2> SUFFICES ASSUME chunks[gone].is = "going" PROVE FALSE
    BY <1>5
  <2>1. OwnRow(gone) /\ chunks[gone].by \in Docs
    BY <1>1, <1>3 DEF OwnInv, OwnRow, Row
  <2>2. tx[chunks[gone].by].at = "delete"
    BY <2>1 DEF OwnRow
  <2>3. chunks[gone].by = d
    BY <1>1, <2>1, <2>2 DEF Deleting
  <2> QED
    BY <1>2, <1>3, <1>5, <2>1, <2>3 DEF OwnRow
<1>7. /\ chunks'[gone].is = "going" /\ chunks'[gone].by = d /\ chunks'[gone].id = n
      /\ \A p \in Passages : p # gone => chunks'[p] = chunks[p]
  BY <1>1, <1>2, <1>3, <1>5 DEF TypeOK, Row
<1>8. /\ tx'[d].at = "delete" /\ tx'[d].rows = tx[d].rows
      /\ tx'[d].done = tx[d].done \union {<<gone, n>>}
      /\ \A e \in Docs : e # d => tx'[e] = tx[e]
  BY <1>1, <1>2, <1>3 DEF TypeOK, Tx
<1>9. TypeOK'
  <2>1. [[chunks[gone] EXCEPT !.is = "going"] EXCEPT !.by = d] \in Row
    BY <1>1 DEF Row, RowStates
  <2>2. chunks' \in [Passages -> Row]
    BY <1>1, <1>2, <1>3, <2>1 DEF TypeOK, Row, RowStates
  <2>3. [tx[d] EXCEPT !.done = @ \union {r}] \in Tx
    BY <1>1, <1>2 DEF Tx
  <2>4. tx' = [tx EXCEPT ![d] = [tx[d] EXCEPT !.done = @ \union {r}]]
    BY <1>1, <1>2 DEF TypeOK
  <2>5. tx' \in [Docs -> Tx]
    BY <1>1, <2>3, <2>4 DEF TypeOK
  <2> QED
    BY <1>1, <2>2, <2>5 DEF TypeOK
<1>10. OwnInv'
  <2> SUFFICES ASSUME NEW p \in Passages PROVE OwnRow(p)'
    BY DEF OwnInv
  <2>1. OwnRow(p)
    BY <1>1 DEF OwnInv
  <2>2. CASE p = gone
    <3>1. chunks'[p].is = "going" /\ chunks'[p].by = d /\ chunks'[p].id = n
      BY <1>7, <2>2
    <3>2. n >= 1 /\ d # Nobody
      BY <1>1, <1>5, <1>6, <2>1, <2>2 DEF OwnRow
    <3>3. tx'[d].at = "delete" /\ <<p, n>> \in tx'[d].done
      BY <1>8, <2>2
    <3> QED
      BY <3>1, <3>2, <3>3 DEF OwnRow
  <2>3. CASE p # gone
    <3>1. chunks'[p] = chunks[p] /\ chunks[p] \in Row
      BY <1>1, <1>7, <2>3
    <3>2. CASE chunks[p].by = d
      BY <1>1, <1>8, <2>1, <3>1, <3>2 DEF OwnRow, PassagesOf
    <3>3. CASE chunks[p].by # d
      BY <1>8, <2>1, <3>1, <3>3 DEF OwnRow, PassagesOf, Row, RowStates
    <3> QED
      BY <3>2, <3>3
  <2> QED
    BY <2>2, <2>3
<1>11. TxInv'
  <2> SUFFICES ASSUME NEW e \in Docs PROVE TxFine(e)'
    BY DEF TxInv
  <2>1. CASE e = d
    <3>1. \A f \in Docs : tx'[f].at = "delete" => f = d
      BY <1>1, <1>8 DEF Deleting
    <3>2. ASSUME NEW q \in tx'[d].done
          PROVE  chunks'[q[1]].is = "going"
      <4>1. CASE q \in tx[d].done
        <5>1. chunks[q[1]].is = "going" /\ q[1] \in Passages
          BY <1>1, <4>1 DEF Deleting, Tx
        <5>2. chunks'[q[1]] = chunks[q[1]]
          BY <1>6, <1>7, <5>1
        <5> QED
          BY <5>1, <5>2
      <4>2. CASE q = <<gone, n>>
        BY <1>7, <4>2
      <4> QED
        BY <1>8, <4>1, <4>2
    <3>3. Deleting(d)'
      BY <1>1, <1>8, <3>1, <3>2 DEF Deleting
    <3>4. tx'[d].done \subseteq tx'[d].rows
      BY <1>1, <1>2, <1>3, <1>8 DEF TxFine
    <3> QED
      BY <1>8, <2>1, <3>3, <3>4 DEF TxFine
  <2>2. CASE e # d
    <3>1. tx[e] \in Tx /\ TxFine(e) /\ tx[e].at # "delete"
      BY <1>1, <2>2 DEF TypeOK, TxInv, Deleting
    <3>2. \A q \in tx[e].rows \union tx[e].done :
             q[1] \in Passages /\ q[2] \in Nat /\ q = <<q[1], q[2]>>
      BY <3>1 DEF Tx
    <3>3. ASSUME tx[e].at = "check", NEW q \in tx[e].rows
          PROVE  /\ q[2] <= chunks'[q[1]].id
                 /\ chunks'[q[1]].is = "new" /\ chunks'[q[1]].by # e =>
                       q[2] < chunks'[q[1]].id
      <4>1. /\ q[2] <= chunks[q[1]].id
            /\ chunks[q[1]].is = "new" /\ chunks[q[1]].by # e => q[2] < chunks[q[1]].id
        BY <3>1, <3>3 DEF TxFine, Checking
      <4>2. CASE q[1] = gone
        BY <1>5, <1>7, <4>1, <4>2
      <4>3. CASE q[1] # gone
        <5>1. chunks'[q[1]] = chunks[q[1]]
          BY <1>7, <3>2, <4>3
        <5> QED
          BY <4>1, <5>1
      <4> QED
        BY <4>2, <4>3
    <3>4. ASSUME tx[e].at = "check", NEW q \in tx[e].done
          PROVE  chunks'[q[1]].id = q[2] /\ Safe(e, q[1])'
      <4>1. chunks[q[1]].id = q[2] /\ Safe(e, q[1])
        BY <3>1, <3>4 DEF TxFine, Checking
      <4>2. q[1] # gone
        <5> SUFFICES ASSUME q[1] = gone PROVE FALSE
          OBVIOUS
        <5>1. q = r
          BY <1>3, <1>5, <3>2, <4>1
        <5>2. e \in Lockers(r)
          BY <3>4, <5>1 DEF Lockers
        <5> QED
          BY <1>2, <5>2
      <4>3. chunks'[q[1]] = chunks[q[1]]
        BY <1>7, <3>2, <4>2
      <4> QED
        BY <4>1, <4>3 DEF Safe
    <3> QED
      BY <1>1, <1>8, <2>2, <3>1, <3>3, <3>4, OtherKeeps
  <2> QED
    BY <2>1, <2>2
<1>12. PlacedInv'
  <2> SUFFICES ASSUME NEW o \in placed
               PROVE  /\ chunks'[o[2]].id = o[3]
                      /\ chunks'[o[2]].is \in {"live", "going"}
                      /\ status'[o[1]] = "COMPLETED"
    BY <1>1 DEF PlacedInv
  <2>1. /\ chunks[o[2]].id = o[3] /\ chunks[o[2]].is \in {"live", "going"}
        /\ status[o[1]] = "COMPLETED" /\ o[2] \in Passages
    BY <1>1 DEF PlacedInv, TypeOK
  <2>2. CASE o[2] = gone
    BY <1>1, <1>5, <1>7, <2>1, <2>2
  <2>3. CASE o[2] # gone
    BY <1>1, <1>7, <2>1, <2>3
  <2> QED
    BY <2>2, <2>3
<1>13. NoOrphans'
  <2> SUFFICES ASSUME NEW p \in Passages, chunks'[p].is = "live"
               PROVE  \E o \in placed : o[2] = p /\ o[3] = chunks'[p].id
    BY <1>1 DEF NoOrphans
  <2>1. p # gone
    BY <1>7
  <2> QED
    BY <1>1, <1>7, <2>1 DEF NoOrphans
<1>14. WholeInv'
  BY <1>1 DEF WholeInv, WholeFine
<1> QED
  BY <1>9, <1>10, <1>11, <1>12, <1>13, <1>14 DEF IInv

\* The rows after a commit.
LEMMA CommittedRows ==
  ASSUME IInv, NEW d \in Docs, chunks' = Committed(d)
  PROVE  /\ chunks' \in [Passages -> Row]
         /\ \A p \in Passages :
               /\ chunks[p].by # d => chunks'[p] = chunks[p]
               /\ chunks[p].by = d =>
                     /\ chunks'[p].is = IF chunks[p].is = "new" THEN "live" ELSE "none"
                     /\ chunks'[p].by = Nobody
                     /\ chunks'[p].id = chunks[p].id
<1>1. \A p \in Passages : chunks[p] \in Row
  BY DEF IInv, TypeOK
<1>2. ASSUME NEW p \in Passages
      PROVE  chunks'[p] \in Row
  <2>1. CASE chunks[p].by = d
    <3>1. chunks'[p] = [is |-> IF chunks[p].is = "new" THEN "live" ELSE "none",
                        by |-> Nobody, id |-> chunks[p].id]
      BY <2>1 DEF Committed, Mine, Unowned
    <3> QED
      BY <1>1, <3>1 DEF Row, RowStates
  <2>2. CASE chunks[p].by # d
    BY <1>1, <2>2 DEF Committed, Mine
  <2> QED
    BY <2>1, <2>2
<1>3. chunks' = [p \in Passages |-> chunks'[p]]
  BY DEF Committed
<1>4. chunks' \in [Passages -> Row]
  BY <1>2, <1>3
<1>5. ASSUME NEW p \in Passages
      PROVE  /\ chunks[p].by # d => chunks'[p] = chunks[p]
             /\ chunks[p].by = d =>
                   /\ chunks'[p].is = IF chunks[p].is = "new" THEN "live" ELSE "none"
                   /\ chunks'[p].by = Nobody
                   /\ chunks'[p].id = chunks[p].id
  BY DEF Committed, Mine, Unowned
<1> QED
  BY <1>4, <1>5

\* After d's commit nobody else's transaction sees a change of the rows it
\* counts on.
LEMMA CommitOthers ==
  ASSUME IInv, NEW d \in Docs, chunks' = Committed(d),
         tx' = [tx EXCEPT ![d] = NoTx], NEW e \in Docs, e # d,
         status'[e] = status[e],
         tx[e].at = "delete" => placed \subseteq placed',
         \A o \in placed' : o[1] = e => o \in placed
  PROVE  TxFine(e)'
<1>1. /\ tx[e] \in Tx /\ TxFine(e) /\ d # Nobody
      /\ \A p \in Passages : chunks[p] \in Row /\ OwnRow(p)
  BY PassageAssumption DEF IInv, TypeOK, TxInv, OwnInv, PassageAssumption
<1>2. \A r \in tx[e].rows \union tx[e].done : r[1] \in Passages /\ r[2] \in Nat
  BY <1>1 DEF Tx
<1>3. tx'[d].at # "delete" /\ \A f \in Docs : f # d => tx'[f] = tx[f]
  BY DEF IInv, TypeOK, NoTx
<1>4. ASSUME tx[e].at = "check", NEW r \in tx[e].rows
      PROVE  /\ r[2] <= chunks'[r[1]].id
             /\ chunks'[r[1]].is = "new" /\ chunks'[r[1]].by # e =>
                   r[2] < chunks'[r[1]].id
  <2>1. /\ r[2] <= chunks[r[1]].id
        /\ chunks[r[1]].is = "new" /\ chunks[r[1]].by # e => r[2] < chunks[r[1]].id
    BY <1>1, <1>4 DEF TxFine, Checking
  <2>2. r[1] \in Passages
    BY <1>2
  <2>3. CASE chunks[r[1]].by = d
    <3>1. chunks'[r[1]].id = chunks[r[1]].id /\ chunks'[r[1]].is # "new"
      BY <2>2, <2>3, CommittedRows
    <3> QED
      BY <2>1, <3>1
  <2>4. CASE chunks[r[1]].by # d
    <3>1. chunks'[r[1]] = chunks[r[1]]
      BY <2>2, <2>4, CommittedRows
    <3> QED
      BY <2>1, <3>1
  <2> QED
    BY <2>3, <2>4
<1>5. ASSUME tx[e].at = "check", NEW r \in tx[e].done
      PROVE  chunks'[r[1]].id = r[2] /\ Safe(e, r[1])'
  <2>1. chunks[r[1]].id = r[2] /\ Safe(e, r[1]) /\ r[1] \in Passages
    BY <1>1, <1>2, <1>5 DEF TxFine, Checking
  <2>2. chunks[r[1]].by # d
    BY <1>1, <2>1 DEF Safe, OwnRow
  <2>3. chunks'[r[1]] = chunks[r[1]]
    BY <2>1, <2>2, CommittedRows
  <2> QED
    BY <2>1, <2>3 DEF Safe
<1>6. ASSUME tx[e].at = "delete", NEW r \in tx[e].done
      PROVE  chunks'[r[1]].is = "going"
  <2>1. chunks[r[1]].is = "going" /\ r[1] \in Passages /\ Deleting(e)
    BY <1>1, <1>2, <1>6 DEF TxFine, Deleting
  <2>2. chunks[r[1]].by # d
    <3> SUFFICES ASSUME chunks[r[1]].by = d PROVE FALSE
      OBVIOUS
    <3>1. tx[d].at = "delete"
      BY <1>1, <2>1 DEF OwnRow
    <3> QED
      BY <2>1, <3>1 DEF Deleting
  <2>3. chunks'[r[1]] = chunks[r[1]]
    BY <2>1, <2>2, CommittedRows
  <2> QED
    BY <2>1, <2>3
<1> QED
  BY <1>3, <1>4, <1>5, <1>6, OtherKeeps

\* A commit leaves no row to the transaction that ended.
LEMMA CommitOwns ==
  ASSUME IInv, NEW d \in Docs, chunks' = Committed(d), tx' = [tx EXCEPT ![d] = NoTx]
  PROVE  OwnInv'
<1> SUFFICES ASSUME NEW p \in Passages PROVE OwnRow(p)'
  BY DEF OwnInv
<1>1. OwnRow(p) /\ chunks[p] \in Row /\ d # Nobody
  BY PassageAssumption DEF IInv, OwnInv, TypeOK, PassageAssumption
<1>2. CASE chunks[p].by = d
  <2>1. /\ chunks'[p].is \in {"none", "live"} /\ chunks'[p].by = Nobody
        /\ chunks'[p].is = "live" => chunks[p].is = "new"
        /\ chunks'[p].id = chunks[p].id
    BY <1>2, CommittedRows
  <2> QED
    BY <1>1, <2>1 DEF OwnRow
<1>3. CASE chunks[p].by # d
  <2>1. chunks'[p] = chunks[p]
    BY <1>3, CommittedRows
  <2>2. \A e \in Docs : e # d => tx'[e] = tx[e]
    BY DEF IInv, TypeOK
  <2> QED
    BY <1>1, <1>3, <2>1, <2>2 DEF OwnRow, PassagesOf, Row, RowStates
<1> QED
  BY <1>2, <1>3

LEMMA CommitKeeps ==
  ASSUME IInv, NEW d \in Docs, CommitStore(d)
  PROVE  IInv'
<1>1. /\ TypeOK /\ OwnInv /\ TxInv /\ PlacedInv /\ NoOrphans /\ WholeInv
      /\ tx[d] \in Tx /\ tx[d].at = "check" /\ TxFine(d) /\ Checking(d)
      /\ tx[d].done = tx[d].rows
      /\ chunks' = Committed(d) /\ tx' = [tx EXCEPT ![d] = NoTx]
      /\ placed' = placed \union {<<d, r[1], r[2]>> : r \in tx[d].rows}
      /\ status' = [status EXCEPT ![d] = "COMPLETED"]
      /\ UNCHANGED <<resets, aborts>>
  BY DEF IInv, TypeOK, TxInv, TxFine, CommitStore
<1>2. /\ \A p \in Passages : chunks[p] \in Row /\ OwnRow(p)
      /\ d # Nobody
      /\ status'[d] = "COMPLETED" /\ \A e \in Docs : e # d => status'[e] = status[e]
      /\ tx'[d] = NoTx /\ \A e \in Docs : e # d => tx'[e] = tx[e]
      /\ chunks' \in [Passages -> Row]
  BY <1>1, PassageAssumption, CommittedRows DEF TypeOK, OwnInv, PassageAssumption
<1>3. ASSUME NEW p \in Passages, chunks[p].by = d
      PROVE  chunks[p].is = "new" /\ <<p, chunks[p].id>> \in tx[d].rows
  BY <1>1, <1>2, <1>3 DEF OwnRow, Row, RowStates
<1>4. ASSUME NEW p \in Passages
      PROVE  /\ chunks'[p].id = chunks[p].id
             /\ Safe(d, p) => chunks'[p].is = "live"
             /\ chunks[p].is = "going" => chunks'[p].is = "going"
  <2>1. CASE chunks[p].by = d
    <3>1. chunks'[p].id = chunks[p].id /\ chunks'[p].is = "live" /\ chunks[p].is = "new"
      BY <1>1, <1>3, <2>1, CommittedRows
    <3> QED
      BY <3>1
  <2>2. CASE chunks[p].by # d
    <3>1. chunks'[p] = chunks[p]
      BY <1>1, <2>2, CommittedRows
    <3> QED
      BY <2>2, <3>1 DEF Safe
  <2> QED
    BY <2>1, <2>2
<1>5. TypeOK'
  <2>1. tx[d].rows \subseteq Passages \X Nat
    BY <1>1 DEF Tx
  <2>2. placed' \subseteq Docs \X Passages \X Nat
    BY <1>1, <2>1 DEF TypeOK
  <2>3. NoTx \in Tx
    BY DEF Tx, NoTx
  <2>4. tx' \in [Docs -> Tx]
    BY <1>1, <2>3 DEF TypeOK
  <2>5. status' \in [Docs -> {"PROCESSING", "COMPLETED", "SKIPPED"}]
    BY <1>1 DEF TypeOK
  <2> QED
    BY <1>1, <1>2, <2>2, <2>4, <2>5 DEF TypeOK
<1>6. OwnInv'
  BY <1>1, CommitOwns
<1>7. ASSUME NEW o \in placed', o \notin placed
      PROVE  /\ o[1] = d /\ <<o[2], o[3]>> \in tx[d].rows
             /\ o[2] \in Passages /\ chunks[o[2]].id = o[3] /\ Safe(d, o[2])
  <2>1. PICK r \in tx[d].rows : o = <<d, r[1], r[2]>>
    BY <1>1, <1>7
  <2>2. o[1] = d /\ o[2] = r[1] /\ o[3] = r[2]
    BY <2>1
  <2>3. r = <<r[1], r[2]>> /\ r[1] \in Passages
    BY <1>1 DEF Tx
  <2>4. chunks[r[1]].id = r[2] /\ Safe(d, r[1])
    BY <1>1 DEF Checking
  <2> QED
    BY <2>2, <2>3, <2>4
<1>8. TxInv'
  <2> SUFFICES ASSUME NEW e \in Docs PROVE TxFine(e)'
    BY DEF TxInv
  <2>1. CASE e = d
    BY <1>2, <2>1 DEF TxFine, NoTx
  <2>2. CASE e # d
    <3>1. \A o \in placed' : o[1] = e => o \in placed
      BY <1>7, <2>2
    <3>2. placed \subseteq placed'
      BY <1>1
    <3> QED
      BY <1>1, <1>2, <2>2, <3>1, <3>2, CommitOthers
  <2> QED
    BY <2>1, <2>2
<1>9. PlacedInv'
  <2> SUFFICES ASSUME NEW o \in placed'
               PROVE  /\ chunks'[o[2]].id = o[3]
                      /\ chunks'[o[2]].is \in {"live", "going"}
                      /\ status'[o[1]] = "COMPLETED"
    BY DEF PlacedInv
  <2>1. CASE o \in placed
    <3>1. /\ chunks[o[2]].id = o[3] /\ chunks[o[2]].is \in {"live", "going"}
          /\ status[o[1]] = "COMPLETED" /\ o[2] \in Passages /\ o[1] \in Docs
      BY <1>1, <2>1 DEF PlacedInv, TypeOK
    <3>2. status'[o[1]] = "COMPLETED"
      BY <1>2, <3>1
    <3> QED
      BY <1>4, <3>1, <3>2 DEF Safe
  <2>2. CASE o \notin placed
    BY <1>2, <1>4, <1>7, <2>2
  <2> QED
    BY <2>1, <2>2
<1>10. NoOrphans'
  <2> SUFFICES ASSUME NEW p \in Passages, chunks'[p].is = "live"
               PROVE  \E o \in placed' : o[2] = p /\ o[3] = chunks'[p].id
    BY DEF NoOrphans
  <2>1. CASE chunks[p].by = d
    <3> DEFINE o == <<d, p, chunks[p].id>>
    <3>1. o \in placed'
      <4>1. <<p, chunks[p].id>> \in tx[d].rows
        BY <1>3, <2>1
      <4> DEFINE r == <<p, chunks[p].id>>
      <4>2. r \in tx[d].rows /\ o = <<d, r[1], r[2]>>
        BY <4>1
      <4> HIDE DEF r, o
      <4> QED
        BY <1>1, <4>2
    <3>2. o[2] = p /\ o[3] = chunks'[p].id
      BY <1>4
    <3> QED
      BY <3>1, <3>2
  <2>2. CASE chunks[p].by # d
    <3>1. chunks'[p] = chunks[p]
      BY <1>1, <2>2, CommittedRows
    <3>2. PICK o \in placed : o[2] = p /\ o[3] = chunks[p].id
      BY <1>1, <3>1 DEF NoOrphans
    <3>3. o \in placed'
      BY <1>1
    <3> QED
      BY <3>1, <3>2, <3>3
  <2> QED
    BY <2>1, <2>2
<1>11. WholeInv'
  <2> SUFFICES ASSUME resets' = 0, NEW e \in Docs PROVE WholeFine(e)'
    BY DEF WholeInv
  <2>1. WholeFine(e) /\ WholeFine(d) /\ PassagesOf(e) \subseteq Passages
    BY <1>1, Texts DEF WholeInv
  <2>2. CASE e = d
    <3>1. ASSUME NEW p \in PassagesOf(d)
          PROVE  chunks'[p].is = "live" /\ <<d, p, chunks'[p].id>> \in placed'
      <4>1. Safe(d, p) /\ <<p, chunks[p].id>> \in tx[d].rows /\ p \in Passages
        BY <1>1, <2>1, <2>2 DEF WholeFine
      <4> DEFINE r == <<p, chunks[p].id>>
      <4>2. <<d, p, chunks[p].id>> = <<d, r[1], r[2]>> /\ r \in tx[d].rows
        BY <4>1
      <4>3. chunks'[p].is = "live" /\ chunks'[p].id = chunks[p].id
        BY <1>4, <4>1
      <4> HIDE DEF r
      <4> QED
        BY <1>1, <4>2, <4>3
    <3> QED
      BY <1>2, <2>2, <3>1 DEF WholeFine, NoTx, PassagesOf
  <2>3. CASE e # d
    <3>1. tx'[e] = tx[e] /\ status'[e] = status[e]
      BY <1>2, <2>3
    <3>2. ASSUME NEW p \in PassagesOf(e), Safe(e, p)
          PROVE  chunks'[p] = chunks[p] /\ Safe(e, p)'
      <4>0. p \in Passages
        BY <2>1
      <4>1. chunks[p].by # d
        BY <1>2, <2>3, <3>2, <4>0 DEF Safe, OwnRow
      <4>2. chunks'[p] = chunks[p]
        BY <1>1, <4>0, <4>1, CommittedRows
      <4> QED
        BY <3>2, <4>2 DEF Safe
    <3>3. \A i \in DOMAIN Text[e] : Safe(e, Text[e][i]) => Safe(e, Text[e][i])'
      BY <3>2, Texts
    <3>4. status[e] = "COMPLETED" => \A p \in PassagesOf(e) :
             chunks'[p].is = "live" /\ <<e, p, chunks'[p].id>> \in placed'
      <4> SUFFICES ASSUME status[e] = "COMPLETED", NEW p \in PassagesOf(e)
                   PROVE  chunks'[p].is = "live" /\ <<e, p, chunks'[p].id>> \in placed'
        OBVIOUS
      <4>1. chunks[p].is = "live" /\ <<e, p, chunks[p].id>> \in placed
        BY <2>1 DEF WholeFine
      <4>2. chunks'[p] = chunks[p]
        BY <3>2, <4>1 DEF Safe
      <4> QED
        BY <1>1, <4>1, <4>2
    <3>5. tx[e].at = "check" => \A p \in PassagesOf(e) :
             Safe(e, p)' /\ <<p, chunks'[p].id>> \in tx[e].rows
      BY <2>1, <3>2 DEF WholeFine
    <3> QED
      BY <2>1, <3>1, <3>3, <3>4, <3>5 DEF WholeFine, PassagesOf
  <2> QED
    BY <2>2, <2>3
<1> QED
  BY <1>5, <1>6, <1>8, <1>9, <1>10, <1>11 DEF IInv

LEMMA ResetCommitKeeps ==
  ASSUME IInv, NEW d \in Docs, ResetCommit(d)
  PROVE  IInv'
<1>1. /\ TypeOK /\ OwnInv /\ TxInv /\ PlacedInv /\ NoOrphans /\ WholeInv
      /\ tx[d] \in Tx /\ tx[d].at = "delete" /\ TxFine(d) /\ Deleting(d)
      /\ tx[d].done = tx[d].rows /\ ~Restricted(d)
      /\ chunks' = Committed(d) /\ tx' = [tx EXCEPT ![d] = NoTx]
      /\ placed' = {o \in placed : o[1] # d}
      /\ UNCHANGED <<resets, aborts>>
  BY DEF IInv, TypeOK, TxInv, TxFine, ResetCommit, Deleted
<1>2. PICK s \in {"PROCESSING", "SKIPPED"} : status' = [status EXCEPT ![d] = s]
  BY DEF ResetCommit
<1>3. /\ \A p \in Passages : chunks[p] \in Row /\ OwnRow(p)
      /\ d # Nobody
      /\ \A e \in Docs : e # d => status'[e] = status[e]
      /\ tx'[d] = NoTx /\ \A e \in Docs : e # d => tx'[e] = tx[e]
      /\ chunks' \in [Passages -> Row]
  BY <1>1, <1>2, PassageAssumption, CommittedRows DEF TypeOK, OwnInv, PassageAssumption
<1>4. ASSUME NEW p \in Passages, chunks[p].by = d
      PROVE  chunks[p].is = "going" /\ <<p, chunks[p].id>> \in tx[d].rows
  BY <1>1, <1>3, <1>4 DEF OwnRow, Row, RowStates
<1>5. TypeOK'
  <2>1. NoTx \in Tx
    BY DEF Tx, NoTx
  <2>2. tx' \in [Docs -> Tx]
    BY <1>1, <2>1 DEF TypeOK
  <2>3. status' \in [Docs -> {"PROCESSING", "COMPLETED", "SKIPPED"}]
    BY <1>1, <1>2 DEF TypeOK
  <2>4. placed' \subseteq Docs \X Passages \X Nat
    BY <1>1 DEF TypeOK
  <2> QED
    BY <1>1, <1>3, <2>2, <2>3, <2>4 DEF TypeOK
<1>6. OwnInv'
  BY <1>1, CommitOwns
<1>7. TxInv'
  <2> SUFFICES ASSUME NEW e \in Docs PROVE TxFine(e)'
    BY DEF TxInv
  <2>1. CASE e = d
    BY <1>3, <2>1 DEF TxFine, NoTx
  <2>2. CASE e # d
    <3>1. tx[e].at # "delete"
      BY <1>1, <2>2 DEF Deleting
    <3>2. \A o \in placed' : o[1] = e => o \in placed
      BY <1>1
    <3> QED
      BY <1>1, <1>3, <2>2, <3>1, <3>2, CommitOthers
  <2> QED
    BY <2>1, <2>2
<1>8. ASSUME NEW o \in placed, o[1] # d
      PROVE  chunks'[o[2]] = chunks[o[2]] /\ o[2] \in Passages
  <2>1. o[2] \in Passages /\ chunks[o[2]].id = o[3]
    BY <1>1 DEF TypeOK, PlacedInv
  <2>2. chunks[o[2]].by # d
    <3> SUFFICES ASSUME chunks[o[2]].by = d PROVE FALSE
      OBVIOUS
    <3>1. <<o[2], o[3]>> \in tx[d].rows
      BY <1>4, <2>1
    <3> QED
      BY <1>1, <1>8, <3>1 DEF Restricted
  <2> QED
    BY <1>1, <2>1, <2>2, CommittedRows
<1>9. PlacedInv'
  <2> SUFFICES ASSUME NEW o \in placed'
               PROVE  /\ chunks'[o[2]].id = o[3]
                      /\ chunks'[o[2]].is \in {"live", "going"}
                      /\ status'[o[1]] = "COMPLETED"
    BY DEF PlacedInv
  <2>1. o \in placed /\ o[1] # d /\ o[1] \in Docs
    BY <1>1 DEF TypeOK
  <2>2. /\ chunks[o[2]].id = o[3] /\ chunks[o[2]].is \in {"live", "going"}
        /\ status[o[1]] = "COMPLETED"
    BY <1>1, <2>1 DEF PlacedInv
  <2>3. chunks'[o[2]] = chunks[o[2]] /\ status'[o[1]] = status[o[1]]
    BY <1>3, <1>8, <2>1
  <2> QED
    BY <2>2, <2>3
<1>10. NoOrphans'
  <2> SUFFICES ASSUME NEW p \in Passages, chunks'[p].is = "live"
               PROVE  \E o \in placed' : o[2] = p /\ o[3] = chunks'[p].id
    BY DEF NoOrphans
  <2>1. chunks[p].by # d
    <3> SUFFICES ASSUME chunks[p].by = d PROVE FALSE
      OBVIOUS
    <3>1. chunks[p].is = "going"
      BY <1>4
    <3>2. chunks'[p].is = "none"
      BY <1>1, <3>1, CommittedRows
    <3> QED
      BY <3>2
  <2>2. chunks'[p] = chunks[p]
    BY <1>1, <2>1, CommittedRows
  <2>3. PICK o \in placed : o[2] = p /\ o[3] = chunks[p].id
    BY <1>1, <2>2 DEF NoOrphans
  <2>4. CASE o[1] # d
    BY <1>1, <2>2, <2>3, <2>4
  <2>5. CASE o[1] = d
    <3>1. <<o[2], o[3]>> \notin tx[d].rows
      <4> SUFFICES ASSUME <<o[2], o[3]>> \in tx[d].rows PROVE FALSE
        OBVIOUS
      <4> DEFINE r == <<o[2], o[3]>>
      <4>1. r \in tx[d].done /\ r[1] = p
        BY <1>1, <2>3
      <4> HIDE DEF r
      <4>2. chunks[p].is = "going"
        BY <1>1, <4>1 DEF Deleting
      <4> QED
        BY <2>2, <4>2
    <3>2. PICK q \in placed : q[1] # d /\ q[2] = o[2]
      BY <1>1, <2>5, <3>1 DEF Deleting
    <3>3. q \in placed' /\ q[2] = p /\ q[3] = chunks'[p].id
      BY <1>1, <2>2, <2>3, <3>2 DEF PlacedInv
    <3> QED
      BY <3>3
  <2> QED
    BY <2>4, <2>5
<1>11. WholeInv'
  BY <1>1 DEF WholeInv, WholeFine
<1> QED
  BY <1>5, <1>6, <1>7, <1>9, <1>10, <1>11 DEF IInv

-----------------------------------------------------------------------------
LEMMA NextInv == IInv /\ [Next]_vars => IInv'
<1> SUFFICES ASSUME IInv, [Next]_vars PROVE IInv'
  OBVIOUS
<1>1. CASE UNCHANGED vars
  BY <1>1 DEF vars, IInv, TypeOK, OwnInv, OwnRow, TxInv, TxFine, Checking, Deleting,
     Safe, PlacedInv, NoOrphans, WholeInv, WholeFine, PassagesOf
<1>2. ASSUME NEW d \in Docs, DocStep(d)
      PROVE  IInv'
  <2>1. aborts \in 0..MaxAborts /\ MaxAborts \in Nat
    BY PassageAssumption DEF IInv, TypeOK, PassageAssumption
  <2>2. ASSUME Insert(d)
        PROVE  IInv'
    BY <2>2, SkipKeeps, WriteKeeps
  <2>3. ASSUME Rollback(d), UNCHANGED aborts
        PROVE  IInv'
    BY <2>1, <2>3, RollbackKeeps
  <2>4. ASSUME Abort(d)
        PROVE  IInv'
    <3>1. aborts' \in 0..MaxAborts /\ Rollback(d)
      BY <2>1, <2>4 DEF Abort
    <3> QED
      BY <3>1, RollbackKeeps
  <2> QED
    BY <1>2, <2>2, <2>3, <2>4, BeginKeeps, PlaceKeeps, CheckKeeps, CommitKeeps,
       ResetBeginKeeps, DeleteKeeps, ResetCommitKeeps
       DEF DocStep, CheckFails, ResetFails, Deadlock
<1> QED
  BY <1>1, <1>2 DEF Next, AllDone

\* The invariant holds in every state, for any number of documents and passages
\* and any bound on resets and aborted transactions.
THEOREM Inductive == Spec => []IInv
BY InitInv, NextInv, PTL DEF Spec

\* Every state is well typed, no placement ever points at a passage that is gone,
\* and no passage outlives its last holder (ReplaceChunks and reset).
THEOREM AlwaysHeld == Spec => []PassagesHeld
<1>1. IInv => PassagesHeld
  <2> SUFFICES ASSUME IInv PROVE PassagesHeld
    OBVIOUS
  <2>1. ASSUME NEW o \in placed
        PROVE  IsRow(<<o[2], o[3]>>) /\ status[o[1]] = "COMPLETED"
    BY DEF IInv, PlacedInv, IsRow
  <2> QED
    BY <2>1 DEF PassagesHeld, NothingDangles, IInv
<1> QED
  BY <1>1, Inductive, PTL

\* Without resets a completed document has all of its passages, whatever is
\* aborted, deadlocked or embedded at the same time (insertChunks).
THEOREM AlwaysWhole == Spec => []WholeWithoutResets
<1>1. IInv => WholeWithoutResets
  <2> SUFFICES ASSUME IInv, resets = 0, NEW d \in Docs, status[d] = "COMPLETED",
                      NEW p \in PassagesOf(d)
               PROVE  \E i \in 1..chunks[p].id : <<d, p, i>> \in placed
    BY DEF WholeWithoutResets, WhollyIndexed
  <2>1. p \in Passages
    BY Texts
  <2>2. /\ chunks[p].is = "live" /\ <<d, p, chunks[p].id>> \in placed
        /\ OwnRow(p) /\ chunks[p].id \in Nat
    BY <2>1 DEF IInv, WholeInv, WholeFine, OwnInv, TypeOK, Row
  <2>3. chunks[p].id \in 1..chunks[p].id
    BY <2>2 DEF OwnRow
  <2> QED
    BY <2>2, <2>3
<1> QED
  BY <1>1, Inductive, PTL
=============================================================================
