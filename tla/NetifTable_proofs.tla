--------------------------- MODULE NetifTable_proofs ---------------------------
(***************************************************************************)
(* The table of network interfaces for any threads, any interfaces and any *)
(* lists of the kernel: what is filled in entry by entry is the table that *)
(* the list describes, and nobody sees it before it is complete.           *)
(***************************************************************************)
EXTENDS NetifTable, TLAPS

-----------------------------------------------------------------------------
(* One more entry of a list.                                               *)
Matches(e, n, family) == e.addressed /\ e.name = n /\ e.family = family

LEMMA NamedNext ==
  ASSUME NEW list, NEW k \in Nat, NEW n
  PROVE  Named(list, k + 1, n) <=>
           Named(list, k, n) \/ (list[k + 1].addressed /\ list[k + 1].name = n)
BY DEF Named

LEMMA LatestNext ==
  ASSUME NEW list, NEW k \in Nat, NEW n, NEW family
  PROVE  Latest(list, k + 1, n, family) =
           IF Matches(list[k + 1], n, family) THEN list[k + 1].value
           ELSE Latest(list, k, n, family)
<1> DEFINE old == Entries(list, k, n, family)
           new == Entries(list, k + 1, n, family)
<1>1. CASE Matches(list[k + 1], n, family)
  <2>1. k + 1 \in new /\ \A j \in new : j \in Int /\ j <= k + 1
    BY <1>1 DEF Entries, Matches
  <2> HIDE DEF new
  <2>2. (CHOOSE i \in new : \A j \in new : j <= i) = k + 1
    <3>1. \E i \in new : \A j \in new : j <= i
      BY <2>1
    <3>2. PICK c : c = (CHOOSE i \in new : \A j \in new : j <= i)
      OBVIOUS
    <3>3. c \in new /\ \A j \in new : j <= c
      BY <3>1, <3>2
    <3>4. c = k + 1
      BY <2>1, <3>3
    <3> QED
      BY <3>2, <3>4
  <2>3. new # {}
    BY <2>1
  <2>4. Latest(list, k + 1, n, family) = list[k + 1].value
    BY <2>2, <2>3 DEF Latest, new
  <2> QED
    BY <1>1, <2>4
<1>2. CASE ~Matches(list[k + 1], n, family)
  <2> DEFINE valueIn(given) ==
        IF given = {} THEN Invalid ELSE list[CHOOSE i \in given : \A j \in given : j <= i].value
  <2>1. new = old
    BY <1>2 DEF Entries, Matches
  <2>2. Latest(list, k + 1, n, family) = valueIn(new) /\ Latest(list, k, n, family) = valueIn(old)
    BY DEF Latest
  <2> HIDE DEF valueIn, new, old
  <2> QED
    BY <1>2, <2>1, <2>2
<1> QED
  BY <1>1, <1>2

\* A name that was not in the list has no address.
LEMMA LatestNone ==
  ASSUME NEW list, NEW k \in Nat, NEW n, NEW family, ~Named(list, k, n)
  PROVE  Latest(list, k, n, family) = Invalid
<1>1. Entries(list, k, n, family) = {}
  BY DEF Named, Entries
<1> QED
  BY <1>1 DEF Latest

LEMMA KnownDescribed ==
  ASSUME NEW list, NEW k \in Nat, NEW n \in Names
  PROVE  Known(Described(list, k), n) =
           [mac |-> Latest(list, k, n, "packet"), ip |-> Latest(list, k, n, "inet")]
<1>1. DOMAIN Described(list, k) = {m \in Names : Named(list, k, m)}
  BY DEF Described
<1>2. CASE Named(list, k, n)
  BY <1>1, <1>2 DEF Known, Described
<1>3. CASE ~Named(list, k, n)
  BY <1>1, <1>3, LatestNone DEF Known, NoRow
<1> QED
  BY <1>2, <1>3

\* Before the first entry the table is empty ...
LEMMA NothingDescribed == \A list : Described(list, 0) = NoTable
<1> TAKE list
<1>1. {m \in Names : Named(list, 0, m)} = {}
  BY DEF Named
<1> QED
  BY <1>1 DEF Described, NoTable

\* ... and each of them does to it what the code does.
LEMMA EntryDescribed ==
  ASSUME NEW list, NEW k \in Nat, list[k + 1] \in Entry
  PROVE  Described(list, k + 1) =
           IF list[k + 1].addressed THEN Entered(Described(list, k), list[k + 1])
           ELSE Described(list, k)
<1> DEFINE e == list[k + 1]
           row(j, n) == [mac |-> Latest(list, j, n, "packet"), ip |-> Latest(list, j, n, "inet")]
<1>1. e.name \in Names /\ e.family \in Families /\ e.addressed \in BOOLEAN
  BY DEF Entry
<1>2. /\ Described(list, k + 1) = [n \in {m \in Names : Named(list, k + 1, m)} |-> row(k + 1, n)]
      /\ Described(list, k) = [n \in {m \in Names : Named(list, k, m)} |-> row(k, n)]
  BY DEF Described
<1>3. CASE ~e.addressed
  <2>1. {m \in Names : Named(list, k + 1, m)} = {m \in Names : Named(list, k, m)}
    BY <1>3, NamedNext
  <2>2. \A n : row(k + 1, n) = row(k, n)
    BY <1>3, LatestNext DEF Matches
  <2> HIDE DEF row
  <2> QED
    BY <1>2, <1>3, <2>1, <2>2
<1>4. CASE e.addressed
  <2> DEFINE entered(n) == [mac |-> IF e.family = "packet" THEN e.value ELSE Known(Described(list, k), n).mac,
                            ip  |-> IF e.family = "inet"   THEN e.value ELSE Known(Described(list, k), n).ip]
  <2>1. {m \in Names : Named(list, k + 1, m)} = DOMAIN Described(list, k) \cup {e.name}
    BY <1>1, <1>2, <1>4, NamedNext
  <2>2. ASSUME NEW n \in Names, n # e.name PROVE row(k + 1, n) = row(k, n)
    BY <2>2, LatestNext DEF Matches
  <2>3. row(k + 1, e.name) = entered(e.name)
    <3>1. /\ Known(Described(list, k), e.name).mac = Latest(list, k, e.name, "packet")
          /\ Known(Described(list, k), e.name).ip = Latest(list, k, e.name, "inet")
      BY <1>1, KnownDescribed
    <3>2. /\ Latest(list, k + 1, e.name, "packet") = IF e.family = "packet" THEN e.value ELSE Latest(list, k, e.name, "packet")
          /\ Latest(list, k + 1, e.name, "inet") = IF e.family = "inet" THEN e.value ELSE Latest(list, k, e.name, "inet")
      BY <1>4, LatestNext DEF Matches
    <3> QED
      BY <3>1, <3>2
  <2> HIDE DEF row, entered
  <2>4. \A n \in DOMAIN Described(list, k) : n \in Names /\ Described(list, k)[n] = row(k, n)
    BY <1>2
  <2>5. \A n \in DOMAIN Described(list, k) \cup {e.name} :
          row(k + 1, n) = IF n # e.name THEN Described(list, k)[n] ELSE entered(n)
    BY <2>2, <2>3, <2>4
  <2>6. Entered(Described(list, k), e) =
          [n \in DOMAIN Described(list, k) \cup {e.name} |->
             IF n # e.name THEN Described(list, k)[n] ELSE entered(n)]
    BY DEF Entered, entered
  <2> QED
    BY <1>2, <1>4, <2>1, <2>5, <2>6
<1> QED
  BY <1>1, <1>3, <1>4

-----------------------------------------------------------------------------
(* The inductive invariant.  A thread that fills the table has put into it *)
(* what the entries up to now describe; a table that was ever written is   *)
(* that of a list of the kernel; and as long as a thread is alone no other *)
(* update is under way.                                                    *)
FillOK ==
  \A t \in Threads :
    /\ update[t].at # "none" =>
         \E i \in 1 .. Len(readings) : readings[i] = update[t].list
    /\ update[t].at = "fill" => s_table = Described(update[t].list, update[t].filled)
    /\ update[t].at # "none" => last[t] # "failed"

Written ==
  \E i \in 1 .. Len(readings) : Settled = Described(readings[i], Len(readings[i]))

WrittenOK ==
  \A t \in Threads : last[t] # "failed" /\ update[t].at # "lock" => Written

AloneOK ==
  \A t \in Threads : last[t] = "alone" =>
    /\ \A u \in Threads \ {t} : update[u].at = "none"
    /\ update[t].at = "none" => Settled = Described(update[t].list, Len(update[t].list))

IInv == TypeOK /\ FillOK /\ WrittenOK /\ AloneOK

\* What the two other invariants say follows.
LEMMA Finds == IInv => OwnUpdateIsSeen
BY DEF IInv, AloneOK, OwnUpdateIsSeen

LEMMA Lists == IInv => PresentIsListed
<1> SUFFICES ASSUME IInv, NEW t \in Threads, last[t] # "failed", update[t].at = "none",
                    NEW n \in Names,
                    \A i \in 1 .. Len(readings) : Named(readings[i], Len(readings[i]), n)
             PROVE  n \in DOMAIN Settled
  BY DEF PresentIsListed
<1>1. PICK i \in 1 .. Len(readings) : Settled = Described(readings[i], Len(readings[i]))
  BY DEF IInv, WrittenOK, Written
<1> QED
  BY <1>1 DEF Described

-----------------------------------------------------------------------------
(* Types.                                                                  *)
LEMMA AtTypes ==
  ASSUME NEW place \in {"none", "lock", "fill"}, NEW list \in Seq(Entry), NEW filled \in Nat
  PROVE  /\ At(place, list, filled) \in Updating
         /\ At(place, list, filled).at = place /\ At(place, list, filled).list = list
         /\ At(place, list, filled).filled = filled
BY DEF At, Updating

LEMMA EnteredTypes ==
  ASSUME NEW table \in Tables, NEW e \in Entry
  PROVE  Entered(table, e) \in Tables
<1>1. PICK ns \in SUBSET Names : table \in [ns -> Row]
  BY DEF Tables
<1>2. e.name \in Names /\ e.value \in Values
  BY DEF Entry
<1>3. \A n : Known(table, n) \in Row
  BY <1>1 DEF Known, Row, NoRow
<1>4. Entered(table, e) \in [ns \cup {e.name} -> Row]
  BY <1>1, <1>2, <1>3 DEF Entered, Row
<1>5. ns \cup {e.name} \in SUBSET Names
  BY <1>2
<1> QED
  BY <1>4, <1>5 DEF Tables

LEMMA NoTableTypes == NoTable \in Tables
BY DEF NoTable, Tables

LEMMA InitEstablishes == Init => IInv
<1> SUFFICES ASSUME Init PROVE IInv
  OBVIOUS
<1>1. <<>> \in Seq(Entry) /\ <<>> \in Seq(Readings) /\ Len(<<>>) = 0
  OBVIOUS
<1>2. \A t \in Threads : /\ update[t] \in Updating /\ update[t].at = "none"
                         /\ update[t].filled <= Len(update[t].list)
  <2>1. /\ At("none", <<>>, 0) \in Updating /\ At("none", <<>>, 0).at = "none"
        /\ At("none", <<>>, 0).list = <<>> /\ At("none", <<>>, 0).filled = 0
    BY <1>1 DEF At, Updating
  <2>2. \A t \in Threads : update[t] = At("none", <<>>, 0)
    BY DEF Init
  <2>3. 0 <= Len(<<>>)
    BY <1>1
  <2> QED
    BY <2>1, <2>2, <2>3
<1>3. TypeOK
  BY <1>1, <1>2, NoTableTypes, NetifAssumption DEF Init, TypeOK, Lasts
<1>4. FillOK /\ WrittenOK /\ AloneOK
  BY <1>2 DEF Init, FillOK, WrittenOK, AloneOK
<1> QED
  BY <1>3, <1>4 DEF IInv

-----------------------------------------------------------------------------
(* The steps.                                                              *)

\* What is common to them: thread t moves on, and the others stay.
LEMMA OthersStay ==
  ASSUME TypeOK, NEW t \in Threads, NEW a \in Updating, update' = [update EXCEPT ![t] = a]
  PROVE  /\ update' \in [Threads -> Updating] /\ update'[t] = a
         /\ \A u \in Threads \ {t} : update'[u] = update[u]
BY DEF TypeOK

LEMMA ReadFailsStep ==
  ASSUME IInv, NEW t \in Threads, ReadFails(t)
  PROVE  IInv' /\ Settled' = Settled
<1>1. /\ UNCHANGED <<s_table, s_lock, update, copy, readings>>
      /\ last' = [last EXCEPT ![t] = "failed"] /\ update[t].at = "none"
  BY DEF ReadFails
<1>2. last' \in [Threads -> Lasts] /\ \A u \in Threads : last'[u] \in {last[u], "failed"}
  BY <1>1 DEF IInv, TypeOK, Lasts
<1>3. TypeOK'
  BY <1>1, <1>2 DEF IInv, TypeOK
<1>4. Settled' = Settled /\ (Written => Written')
  BY <1>1 DEF Settled, Written
<1>5. FillOK'
  <2>1. \A u \in Threads : update[u].at # "none" => last'[u] = last[u]
    BY <1>1 DEF IInv, TypeOK
  <2> QED
    BY <1>1, <2>1 DEF IInv, FillOK
<1>6. WrittenOK' /\ AloneOK'
  BY <1>1, <1>2, <1>4 DEF IInv, WrittenOK, AloneOK
<1> QED
  BY <1>3, <1>4, <1>5, <1>6 DEF IInv

LEMMA ReadInterfacesStep ==
  ASSUME IInv, NEW t \in Threads, ReadInterfaces(t)
  PROVE  IInv' /\ Settled' = Settled
<1>1. PICK list \in Readings :
        /\ update' = [update EXCEPT ![t] = At("lock", list, 0)]
        /\ readings' = Append(readings, list)
  BY DEF ReadInterfaces
<1>2. /\ UNCHANGED <<s_table, s_lock, copy>> /\ update[t].at = "none"
      /\ last' = [u \in Threads |->
           IF u = t THEN IF \A v \in Threads \ {t} : update[v].at = "none" THEN "alone" ELSE "shared"
           ELSE IF last[u] = "alone" THEN "shared" ELSE last[u]]
  BY DEF ReadInterfaces
<1>3. TypeOK /\ FillOK /\ WrittenOK /\ AloneOK /\ list \in Seq(Entry) /\ Len(list) \in Nat
  BY NetifAssumption DEF IInv
<1>4. /\ At("lock", list, 0) \in Updating /\ At("lock", list, 0).at = "lock"
      /\ At("lock", list, 0).list = list /\ At("lock", list, 0).filled = 0
  BY <1>3, AtTypes
<1>5. /\ update' \in [Threads -> Updating] /\ update'[t] = At("lock", list, 0)
      /\ \A u \in Threads \ {t} : update'[u] = update[u]
  BY <1>1, <1>3, <1>4, OthersStay
<1>6. /\ last' \in [Threads -> Lasts]
      /\ last'[t] = IF \A v \in Threads \ {t} : update[v].at = "none" THEN "alone" ELSE "shared"
      /\ last'[t] # "failed"
      /\ \A u \in Threads \ {t} : last'[u] # "alone" /\ (last'[u] = "failed" <=> last[u] = "failed")
  BY <1>2, <1>3 DEF TypeOK, Lasts
<1>7. /\ readings' \in Seq(Readings) /\ Len(readings') = Len(readings) + 1
      /\ Len(readings) \in Nat /\ readings'[Len(readings) + 1] = list
      /\ \A i \in 1 .. Len(readings) : readings'[i] = readings[i]
  BY <1>1, <1>3 DEF TypeOK
<1>8. s_lock # t
  BY <1>2, <1>3 DEF TypeOK
<1>9. Settled' = Settled
  <2>1. s_lock # "free" => update'[s_lock] = update[s_lock]
    BY <1>3, <1>5, <1>8 DEF TypeOK
  <2> QED
    BY <1>2, <2>1 DEF Settled
<1>10. Written => Written'
  <2> SUFFICES ASSUME Written PROVE Written'
    OBVIOUS
  <2>1. PICK i \in 1 .. Len(readings) : Settled = Described(readings[i], Len(readings[i]))
    BY DEF Written
  <2>2. i \in 1 .. Len(readings') /\ readings'[i] = readings[i]
    BY <1>7
  <2> QED
    BY <1>9, <2>1, <2>2 DEF Written
<1>11. TypeOK'
  <2>1. \A u \in Threads : update'[u].at = "fill" <=> s_lock' = u
    BY <1>2, <1>3, <1>4, <1>5, <1>8 DEF TypeOK
  <2>2. \A u \in Threads : update'[u].filled <= Len(update'[u].list)
    BY <1>3, <1>4, <1>5 DEF TypeOK
  <2> QED
    BY <1>2, <1>3, <1>5, <1>6, <1>7, <2>1, <2>2 DEF TypeOK
<1>12. FillOK'
  <2>1. ASSUME NEW u \in Threads, update'[u].at # "none"
        PROVE  \E i \in 1 .. Len(readings') : readings'[i] = update'[u].list
    <3>1. CASE u = t
      BY <1>4, <1>5, <1>7, <3>1
    <3>2. CASE u # t
      <4>1. PICK i \in 1 .. Len(readings) : readings[i] = update[u].list
        BY <1>3, <1>5, <2>1, <3>2 DEF FillOK
      <4>2. i \in 1 .. Len(readings') /\ readings'[i] = update'[u].list
        BY <1>5, <1>7, <3>2, <4>1
      <4> QED
        BY <4>2
    <3> QED
      BY <3>1, <3>2
  <2>2. ASSUME NEW u \in Threads
        PROVE  /\ update'[u].at = "fill" => s_table = Described(update'[u].list, update'[u].filled)
               /\ update'[u].at # "none" => last'[u] # "failed"
    BY <1>3, <1>4, <1>5, <1>6 DEF FillOK
  <2> QED
    BY <1>2, <2>1, <2>2 DEF FillOK
<1>13. WrittenOK'
  BY <1>3, <1>4, <1>5, <1>6, <1>10 DEF WrittenOK
<1>14. AloneOK'
  BY <1>4, <1>5, <1>6 DEF AloneOK
<1> QED
  BY <1>9, <1>11, <1>12, <1>13, <1>14 DEF IInv

\* An update takes place when it gets the lock.
LEMMA LockTableStep ==
  ASSUME IInv, NEW t \in Threads, LockTable(t)
  PROVE  IInv' /\ Register!Update
<1> DEFINE list == update[t].list
<1>1. /\ update' = [update EXCEPT ![t] = At("fill", list, 0)]
      /\ s_table' = NoTable /\ s_lock = "free" /\ s_lock' = t /\ update[t].at = "lock"
      /\ UNCHANGED <<last, copy, readings>>
  BY DEF LockTable
<1>2. TypeOK /\ FillOK /\ WrittenOK /\ AloneOK
  BY DEF IInv
<1>3. list \in Seq(Entry) /\ Len(list) \in Nat
  BY <1>2 DEF TypeOK, Updating
<1>4. /\ At("fill", list, 0) \in Updating /\ At("fill", list, 0).at = "fill"
      /\ At("fill", list, 0).list = list /\ At("fill", list, 0).filled = 0
  BY <1>3, AtTypes
<1>5. /\ update' \in [Threads -> Updating] /\ update'[t] = At("fill", list, 0)
      /\ \A u \in Threads \ {t} : update'[u] = update[u]
  BY <1>1, <1>2, <1>4, OthersStay
<1>6. PICK i \in 1 .. Len(readings) : readings[i] = list
  BY <1>1, <1>2 DEF FillOK
<1>7. list \in Readings
  BY <1>2, <1>6 DEF TypeOK
<1>8. Settled' = Described(list, Len(list))
  <2>1. t # "free"
    BY NetifAssumption
  <2>2. update'[s_lock'].list = list
    BY <1>1, <1>4, <1>5
  <2> HIDE DEF list
  <2> QED
    BY <1>1, <2>1, <2>2 DEF Settled
<1> HIDE DEF list
<1>9. Written'
  BY <1>1, <1>6, <1>8 DEF Written
<1>10. TypeOK'
  <2>1. \A u \in Threads : update'[u].at = "fill" <=> s_lock' = u
    BY <1>1, <1>2, <1>4, <1>5, NetifAssumption DEF TypeOK
  <2>2. \A u \in Threads : update'[u].filled <= Len(update'[u].list)
    BY <1>2, <1>3, <1>4, <1>5 DEF TypeOK
  <2> QED
    BY <1>1, <1>2, <1>5, <2>1, <2>2, NoTableTypes DEF TypeOK
<1>11. FillOK'
  <2>1. \A u \in Threads \ {t} : update[u].at # "fill"
    BY <1>1, <1>2, NetifAssumption DEF TypeOK
  <2>2. s_table' = Described(list, 0)
    BY <1>1, NothingDescribed
  <2>3. last[t] # "failed"
    BY <1>1, <1>2 DEF FillOK
  <2>4. ASSUME NEW u \in Threads
        PROVE  /\ update'[u].at # "none" => \E j \in 1 .. Len(readings) : readings[j] = update'[u].list
               /\ update'[u].at = "fill" => s_table' = Described(update'[u].list, update'[u].filled)
               /\ update'[u].at # "none" => last[u] # "failed"
    <3>1. CASE u = t
      BY <1>4, <1>5, <1>6, <2>2, <2>3, <3>1
    <3>2. CASE u # t
      BY <1>2, <1>5, <2>1, <3>2 DEF FillOK
    <3> QED
      BY <3>1, <3>2
  <2> QED
    BY <1>1, <2>4 DEF FillOK
<1>12. WrittenOK'
  BY <1>9 DEF WrittenOK
<1>13. AloneOK'
  <2>1. ASSUME NEW u \in Threads, last[u] = "alone"
        PROVE  u = t /\ \A v \in Threads \ {u} : update'[v].at = "none"
    BY <1>1, <1>2, <1>5, <2>1 DEF AloneOK
  <2> QED
    BY <1>1, <1>4, <1>5, <2>1 DEF AloneOK
<1>14. Register!Update
  BY <1>1, <1>7, <1>8 DEF Register!Update
<1> QED
  BY <1>10, <1>11, <1>12, <1>13, <1>14 DEF IInv

LEMMA FillTableStep ==
  ASSUME IInv, NEW t \in Threads, FillTable(t)
  PROVE  IInv' /\ Settled' = Settled
<1> DEFINE list   == update[t].list
           filled == update[t].filled
           e      == list[filled + 1]
<1>1. /\ update' = [update EXCEPT ![t] = At("fill", list, filled + 1)]
      /\ s_table' = IF e.addressed THEN Entered(s_table, e) ELSE s_table
      /\ update[t].at = "fill" /\ filled < Len(list)
      /\ UNCHANGED <<s_lock, last, copy, readings>>
  BY DEF FillTable
<1>2. TypeOK /\ FillOK /\ WrittenOK /\ AloneOK
  BY DEF IInv
<1>3. list \in Seq(Entry) /\ Len(list) \in Nat /\ filled \in Nat /\ filled + 1 \in Nat
  BY <1>2 DEF TypeOK, Updating
<1>4. e \in Entry /\ s_table \in Tables /\ s_lock = t
  BY <1>1, <1>2, <1>3 DEF TypeOK
<1>5. /\ At("fill", list, filled + 1) \in Updating /\ At("fill", list, filled + 1).at = "fill"
      /\ At("fill", list, filled + 1).list = list /\ At("fill", list, filled + 1).filled = filled + 1
  BY <1>3, AtTypes
<1>6. /\ update' \in [Threads -> Updating] /\ update'[t] = At("fill", list, filled + 1)
      /\ \A u \in Threads \ {t} : update'[u] = update[u]
  BY <1>1, <1>2, <1>5, OthersStay
<1>7. s_table' \in Tables
  BY <1>1, <1>4, EnteredTypes
<1>8. s_table' = Described(list, filled + 1)
  <2>1. s_table = Described(list, filled)
    BY <1>1, <1>2 DEF FillOK
  <2> QED
    BY <1>1, <1>3, <1>4, <2>1, EntryDescribed
<1>9. Settled' = Settled
  <2>1. t # "free"
    BY NetifAssumption
  <2>2. update'[s_lock'].list = update[s_lock].list
    BY <1>1, <1>4, <1>5, <1>6
  <2> QED
    BY <1>1, <1>4, <2>1, <2>2 DEF Settled
<1>10. Written => Written'
  BY <1>1, <1>9 DEF Written
<1> HIDE DEF list, filled, e
<1>11. \A u \in Threads : update'[u].at = update[u].at /\ update'[u].list = update[u].list
  BY <1>1, <1>5, <1>6 DEF list
<1>12. TypeOK'
  <2>1. \A u \in Threads : update'[u].filled <= Len(update'[u].list)
    BY <1>1, <1>2, <1>3, <1>5, <1>6 DEF TypeOK
  <2> QED
    BY <1>1, <1>2, <1>6, <1>7, <1>11, <2>1 DEF TypeOK
<1>13. FillOK'
  <2>1. \A u \in Threads \ {t} : update[u].at # "fill"
    BY <1>2, <1>4 DEF TypeOK
  <2>2. \A u \in Threads : update'[u].at = "fill" => s_table' = Described(update'[u].list, update'[u].filled)
    BY <1>5, <1>6, <1>8, <1>11, <2>1
  <2> QED
    BY <1>1, <1>2, <1>11, <2>2 DEF FillOK
<1>14. WrittenOK' /\ AloneOK'
  BY <1>1, <1>2, <1>9, <1>10, <1>11 DEF WrittenOK, AloneOK
<1> QED
  BY <1>9, <1>12, <1>13, <1>14 DEF IInv

LEMMA UnlockTableStep ==
  ASSUME IInv, NEW t \in Threads, UnlockTable(t)
  PROVE  IInv' /\ Settled' = Settled
<1> DEFINE list == update[t].list
           filled == update[t].filled
<1>1. /\ update' = [update EXCEPT ![t] = At("none", list, filled)]
      /\ s_lock' = "free" /\ update[t].at = "fill" /\ filled = Len(list)
      /\ UNCHANGED <<s_table, last, copy, readings>>
  BY DEF UnlockTable
<1>2. TypeOK /\ FillOK /\ WrittenOK /\ AloneOK
  BY DEF IInv
<1>3. list \in Seq(Entry) /\ Len(list) \in Nat /\ filled \in Nat /\ s_lock = t
  BY <1>1, <1>2 DEF TypeOK, Updating
<1>4. /\ At("none", list, filled) \in Updating /\ At("none", list, filled).at = "none"
      /\ At("none", list, filled).list = list /\ At("none", list, filled).filled = filled
  BY <1>3, AtTypes
<1>5. /\ update' \in [Threads -> Updating] /\ update'[t] = At("none", list, filled)
      /\ \A u \in Threads \ {t} : update'[u] = update[u]
  BY <1>1, <1>2, <1>4, OthersStay
<1>6. s_table = Described(list, Len(list)) /\ last[t] # "failed"
  BY <1>1, <1>2 DEF FillOK
<1>7. Settled = Described(list, Len(list)) /\ Settled' = Settled
  <2>1. t # "free"
    BY NetifAssumption
  <2> QED
    BY <1>1, <1>3, <1>6, <2>1 DEF Settled
<1>8. Written => Written'
  BY <1>1, <1>7 DEF Written
<1> HIDE DEF list, filled
<1>9. TypeOK'
  <2>1. \A u \in Threads : update'[u].at = "fill" <=> s_lock' = u
    BY <1>1, <1>2, <1>3, <1>4, <1>5, NetifAssumption DEF TypeOK
  <2>2. \A u \in Threads : update'[u].filled <= Len(update'[u].list)
    BY <1>1, <1>2, <1>3, <1>4, <1>5 DEF TypeOK
  <2> QED
    BY <1>1, <1>2, <1>5, <2>1, <2>2 DEF TypeOK
<1>10. FillOK'
  BY <1>1, <1>2, <1>4, <1>5 DEF FillOK
<1>11. WrittenOK'
  <2>1. Written
    BY <1>1, <1>2, <1>6 DEF WrittenOK
  <2> QED
    BY <1>8, <2>1 DEF WrittenOK
<1>12. AloneOK'
  <2>1. ASSUME NEW u \in Threads, last[u] = "alone"
        PROVE  u = t /\ \A v \in Threads \ {u} : update'[v].at = "none"
    BY <1>1, <1>2, <1>5, <2>1 DEF AloneOK
  <2> QED
    BY <1>1, <1>4, <1>5, <1>7, <2>1 DEF AloneOK
<1> QED
  BY <1>7, <1>9, <1>10, <1>11, <1>12 DEF IInv

LEMMA CopyTableStep ==
  ASSUME IInv, NEW t \in Threads, CopyTable(t)
  PROVE  IInv' /\ Register!Copy(t)
<1>1. /\ s_lock = "free" /\ copy' = [copy EXCEPT ![t] = s_table]
      /\ UNCHANGED <<s_table, s_lock, update, last, readings>>
  BY DEF CopyTable
<1>2. Settled = s_table /\ Settled' = Settled
  BY <1>1 DEF Settled
<1>3. TypeOK'
  BY <1>1 DEF IInv, TypeOK
<1>4. FillOK' /\ WrittenOK' /\ AloneOK'
  BY <1>1, <1>2 DEF IInv, FillOK, WrittenOK, Written, AloneOK
<1>5. Register!Copy(t)
  BY <1>1, <1>2 DEF Register!Copy
<1> QED
  BY <1>3, <1>4, <1>5 DEF IInv

-----------------------------------------------------------------------------
LEMMA StepRefines ==
  ASSUME IInv, [Next]_vars
  PROVE  IInv' /\ [Register!Next]_(Register!vars)
<1>1. CASE UNCHANGED vars
  <2>1. UNCHANGED <<s_table, s_lock, update, last, copy, readings>>
    BY <1>1 DEF vars
  <2>2. Settled' = Settled
    BY <2>1 DEF Settled
  <2>3. TypeOK' /\ FillOK'
    BY <2>1 DEF IInv, TypeOK, FillOK
  <2>4. WrittenOK' /\ AloneOK'
    BY <2>1, <2>2 DEF IInv, WrittenOK, Written, AloneOK
  <2> QED
    BY <2>1, <2>2, <2>3, <2>4 DEF IInv, Register!vars
<1>2. ASSUME NEW t \in Threads, ReadFails(t) \/ ReadInterfaces(t) \/ FillTable(t) \/ UnlockTable(t)
      PROVE  IInv' /\ [Register!Next]_(Register!vars)
  <2>1. IInv' /\ Settled' = Settled
    BY <1>2, ReadFailsStep, ReadInterfacesStep, FillTableStep, UnlockTableStep
  <2>2. copy' = copy
    BY <1>2 DEF ReadFails, ReadInterfaces, FillTable, UnlockTable
  <2> QED
    BY <2>1, <2>2 DEF Register!vars
<1>3. ASSUME NEW t \in Threads, LockTable(t)
      PROVE  IInv' /\ [Register!Next]_(Register!vars)
  BY <1>3, LockTableStep DEF Register!Next
<1>4. ASSUME NEW t \in Threads, CopyTable(t)
      PROVE  IInv' /\ [Register!Next]_(Register!vars)
  BY <1>4, CopyTableStep DEF Register!Next
<1> QED
  BY <1>1, <1>2, <1>3, <1>4 DEF Next, UpdateGoesOn

LEMMA Invariant == Spec => []IInv
BY InitEstablishes, StepRefines, PTL DEF Spec

(* Types, and the lock: it is held by the thread that fills the table.     *)
THEOREM TypeCorrect == Spec => []TypeOK
BY Invariant, PTL DEF IInv

(* For any threads and lists, an update that no other overlaps is found in *)
(* the table by the thread that made it.                                   *)
THEOREM UpdateHolds == Spec => []OwnUpdateIsSeen
BY Invariant, Finds, PTL

(* However many updates fail or overlap, no interface that every list has  *)
(* is missing from a table that has been updated.                          *)
THEOREM NoneIsLost == Spec => []PresentIsListed
BY Invariant, Lists, PTL

(* The table that is filled entry by entry is one that is written at once. *)
THEOREM ImplementsRegister == Spec => AtomicTable
<1>1. Init => Register!Init
  BY DEF Init, Settled, Register!Init
<1> QED
  BY <1>1, StepRefines, Invariant, PTL DEF Spec, Register!Spec, AtomicTable
=============================================================================
