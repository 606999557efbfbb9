----------------------------- MODULE HistoryProofs ----------------------------
(***************************************************************************)
(* The event history keeps its types, and lists its newest records newest   *)
(* first, for every size of the ring, every length of the listing and every *)
(* number of events and of failures of the bus, as long as the listing      *)
(* stops as many records short of a full ring as the bus may fail.  Last,   *)
(* the ring implements the log of EventLog, over power cuts and failures.   *)
(***************************************************************************)
EXTENDS HistoryRing, SequenceTheorems, WellFoundedInduction, TLAPS

(* Of the n newest records behind slot h, the m newest are in order.        *)
InOrder(h, n, m) ==
  \A i, j \in 1 .. n : i < j /\ j <= m => ring[Behind(h, i)] > ring[Behind(h, j)]

(* The header in the EEPROM is at most n records behind the one in RAM.     *)
Lags(n) == \E k \in 0 .. n : head = (header.head + k) % Size

NoneFromTheFuture == \A s \in Slots : ring[s] <= issued
Blank == pc = "off" \/ ~found => count = 0

(* One record at most is overwritten ahead of the header, and one more for  *)
(* each header that was lost.                                              *)
KeptInOrder ==
  /\ InOrder(header.head, header.count, Size - failures - 1)
  /\ pc = "boot" => InOrder(head, count, Size - failures - 1)
  /\ pc \in {"idle", "header"} => InOrder(head, count, Size - failures)
  /\ pc \in {"boot", "idle"} /\ found => Lags(failures)
  /\ pc = "header" => Lags(failures + 1)

HistoryInv ==
  /\ HistoryTypeOK /\ NoneFromTheFuture /\ Blank
  /\ ~clearFailed => KeptInOrder

-------------------------------------------------------------------------------
(* The slots of the ring *)

LEMMA Wrap ==
  ASSUME NEW x \in 0 .. 2 * Size - 1
  PROVE  x % Size = IF x < Size THEN x ELSE x - Size
BY HistoryAssumption

LEMMA BehindValue ==
  ASSUME NEW h \in Slots, NEW i \in 1 .. Size
  PROVE  /\ Behind(h, i) = IF i <= h THEN h - i ELSE h + Size - i
         /\ Behind(h, i) \in Slots
<1>1. Behind(h, i) = IF h + Size - i < Size THEN h + Size - i ELSE h + Size - i - Size
  BY Wrap, HistoryAssumption DEF Behind, Slots
<1>2. QED
  BY <1>1, HistoryAssumption DEF Slots

LEMMA AheadValue ==
  ASSUME NEW h \in Slots, NEW k \in 0 .. Size
  PROVE  /\ (h + k) % Size = IF h + k < Size THEN h + k ELSE h + k - Size
         /\ (h + k) % Size \in Slots
<1>1. (h + k) % Size = IF h + k < Size THEN h + k ELSE h + k - Size
  BY Wrap, HistoryAssumption DEF Slots
<1>2. QED
  BY <1>1, HistoryAssumption DEF Slots

(* A slot at most k ahead of h is none of the next Size - k - 1 behind it.  *)
LEMMA AheadNotBehind ==
  ASSUME NEW h \in Slots, NEW k \in 0 .. Size, NEW i \in 1 .. Size, k + i < Size
  PROVE  Behind(h, i) # (h + k) % Size
<1>1. Behind(h, i) = IF i <= h THEN h - i ELSE h + Size - i
  BY BehindValue
<1>2. (h + k) % Size = IF h + k < Size THEN h + k ELSE h + k - Size
  BY AheadValue
<1>3. Size \in Nat /\ h \in Nat /\ h < Size
  BY HistoryAssumption DEF Slots
<1>4. QED
  BY <1>1, <1>2, <1>3

LEMMA BehindNext ==
  ASSUME NEW h \in Slots
  PROVE  /\ (h + 1) % Size \in Slots
         /\ Behind((h + 1) % Size, 1) = h
         /\ \A i \in 2 .. Size : Behind((h + 1) % Size, i) = Behind(h, i - 1)
<1>1. /\ (h + 1) % Size \in Slots
      /\ (h + 1) % Size = IF h + 1 < Size THEN h + 1 ELSE h + 1 - Size
  BY AheadValue, HistoryAssumption
<1>2. Behind((h + 1) % Size, 1) = h
  BY <1>1, BehindValue, HistoryAssumption DEF Slots
<1>3. ASSUME NEW i \in 2 .. Size PROVE Behind((h + 1) % Size, i) = Behind(h, i - 1)
  <2> DEFINE next == (h + 1) % Size
  <2>1. i - 1 \in 1 .. Size /\ i \in 1 .. Size
    BY HistoryAssumption
  <2>2. Behind(h, i - 1) = IF i - 1 <= h THEN h - (i - 1) ELSE h + Size - (i - 1)
    BY <2>1, BehindValue
  <2>3. next \in Slots
    BY <1>1
  <2> HIDE DEF next
  <2>4. Behind(next, i) = IF i <= next THEN next - i ELSE next + Size - i
    BY <2>1, <2>3, BehindValue
  <2>5. next = IF h + 1 < Size THEN h + 1 ELSE h + 1 - Size
    BY <1>1 DEF next
  <2>6. Behind(next, i) = Behind(h, i - 1)
    BY <2>2, <2>4, <2>5, HistoryAssumption DEF Slots
  <2>7. QED
    BY <2>6 DEF next
<1>4. QED
  BY <1>1, <1>2, <1>3

-------------------------------------------------------------------------------
(* What writing a record does to what is in order *)

(* The records the header counts keep their order while it lags behind.     *)
LEMMA StaysInOrder ==
  ASSUME HistoryTypeOK, ring' = [ring EXCEPT ![head] = issued'], header' = header,
         NEW k \in 0 .. Size, Lags(k), NEW m \in Nat, m + k < Size,
         InOrder(header.head, header.count, m)
  PROVE  InOrder(header.head, header.count, m)'
<1>1. header.head \in Slots /\ header.count \in 0 .. Size
  BY DEF HistoryTypeOK, Header
<1>2. PICK l \in 0 .. k : head = (header.head + l) % Size
  BY DEF Lags
<1>3. l \in 0 .. Size
  BY HistoryAssumption
<1>4. ASSUME NEW i \in 1 .. header.count, i <= m
      PROVE  ring'[Behind(header.head, i)] = ring[Behind(header.head, i)]
  <2>1. i \in 1 .. Size /\ l + i < Size
    BY <1>1, <1>3, <1>4, HistoryAssumption
  <2>2. Behind(header.head, i) \in Slots /\ Behind(header.head, i) # head
    BY <1>1, <1>2, <1>3, <2>1, BehindValue, AheadNotBehind
  <2>3. QED
    BY <2>2 DEF HistoryTypeOK
<1>5. QED
  BY <1>1, <1>4 DEF InOrder, Behind

(* The new record is the newest, and pushes the others back by one.         *)
LEMMA AddedInOrder ==
  ASSUME HistoryTypeOK, NoneFromTheFuture, issued' = issued + 1,
         ring' = [ring EXCEPT ![head] = issued'], head' = (head + 1) % Size,
         count' = IF count < Size THEN count + 1 ELSE count,
         NEW m \in 0 .. Size, InOrder(head, count, m - 1)
  PROVE  InOrder(head, count, m)'
<1>1. head \in Slots /\ count \in 0 .. Size /\ issued \in Nat
  BY DEF HistoryTypeOK
<1>2. /\ Behind(head', 1) = head
      /\ \A i \in 2 .. Size : Behind(head', i) = Behind(head, i - 1)
  BY <1>1, BehindNext
<1>3. ring'[head] = issued + 1
  BY <1>1 DEF HistoryTypeOK
<1>4. ASSUME NEW i \in 1 .. Size, i < Size
      PROVE  /\ ring'[Behind(head, i)] = ring[Behind(head, i)]
             /\ ring[Behind(head, i)] <= issued
             /\ ring[Behind(head, i)] \in Nat
  <2>1. /\ Behind(head, i) = IF i <= head THEN head - i ELSE head + Size - i
        /\ Behind(head, i) \in Slots
    BY <1>1, BehindValue
  <2>2. Behind(head, i) # head
    BY <1>1, <1>4, <2>1, HistoryAssumption DEF Slots
  <2>3. QED
    BY <2>1, <2>2 DEF HistoryTypeOK, NoneFromTheFuture
<1>5. ASSUME NEW i \in 1 .. count', NEW j \in 1 .. count', i < j, j <= m
      PROVE  ring'[Behind(head', i)] > ring'[Behind(head', j)]
  <2>1. /\ i \in 1 .. Size /\ j \in 2 .. Size /\ j - 1 \in 1 .. Size /\ j - 1 < Size
        /\ j - 1 \in 1 .. count /\ j - 1 <= m - 1
    BY <1>1, <1>5, HistoryAssumption
  <2>2. ring'[Behind(head', j)] = ring[Behind(head, j - 1)]
    BY <1>2, <1>4, <2>1
  <2>3. CASE i = 1
    BY <1>1, <1>2, <1>3, <1>4, <2>1, <2>2, <2>3
  <2>4. CASE i # 1
    <3>1. /\ i \in 2 .. Size /\ i - 1 \in 1 .. Size /\ i - 1 < Size
          /\ i - 1 \in 1 .. count /\ i - 1 < j - 1
      BY <1>1, <1>5, <2>1, <2>4, HistoryAssumption
    <3>2. ring'[Behind(head', i)] = ring[Behind(head, i - 1)]
      BY <1>2, <1>4, <3>1
    <3>3. ring[Behind(head, i - 1)] > ring[Behind(head, j - 1)]
      BY <2>1, <3>1 DEF InOrder
    <3>4. QED
      BY <2>2, <3>2, <3>3
  <2>5. QED
    BY <2>3, <2>4
<1>6. QED
  BY <1>5 DEF InOrder, Behind

LEMMA FewerInOrder ==
  ASSUME NEW h, NEW n \in Nat, NEW a \in Nat, NEW b \in Nat, a <= b,
         InOrder(h, n, Size - a - 1)
  PROVE  InOrder(h, n, Size - b - 1)
BY HistoryAssumption DEF InOrder

-------------------------------------------------------------------------------
(* The steps *)

LEMMA InitInv == HistoryInit => HistoryInv
<1> SUFFICES ASSUME HistoryInit PROVE HistoryInv
  OBVIOUS
<1>1. Size \in Nat \ {0} /\ Last \in Nat /\ Failures \in Nat /\ 0 \in Slots
  BY HistoryAssumption DEF Slots
<1>2. HistoryTypeOK
  <2>1. header \in Header
    BY <1>1 DEF HistoryInit, Header
  <2>2. ring \in [Slots -> 0 .. Last]
    BY <1>1 DEF HistoryInit
  <2>3. 0 \in 0 .. Size /\ 0 \in 0 .. Last /\ 0 \in 0 .. Failures
    BY <1>1
  <2>4. found \in BOOLEAN /\ clearFailed \in BOOLEAN
    BY DEF HistoryInit
  <2>5. QED
    BY <1>1, <2>1, <2>2, <2>3, <2>4 DEF HistoryInit, HistoryTypeOK
<1>3. NoneFromTheFuture /\ Blank
  BY DEF HistoryInit, NoneFromTheFuture, Blank
<1>4. KeptInOrder
  BY DEF HistoryInit, KeptInOrder, InOrder
<1>5. QED
  BY <1>2, <1>3, <1>4 DEF HistoryInv

(* With nothing in RAM and in the header, nothing is out of order.          *)
LEMMA EmptyInv ==
  ASSUME HistoryInv, Empty, ring' = ring, issued' = issued, found' \in BOOLEAN,
         pc' \in {"boot", "idle"}
  PROVE  HistoryInv'
<1>1. Size \in Nat \ {0} /\ Failures \in Nat /\ 0 \in Slots
  BY HistoryAssumption DEF Slots
<1>2. HistoryTypeOK'
  <2>1. [valid |-> TRUE, head |-> 0, count |-> 0] \in Header
    BY <1>1 DEF Header
  <2>2. header' \in Header
    BY <2>1 DEF HistoryInv, HistoryTypeOK, Empty
  <2>3. failures' \in 0 .. Failures
    BY <1>1 DEF HistoryInv, HistoryTypeOK, Empty, BusFails
  <2>4. clearFailed' \in BOOLEAN
    BY DEF Empty
  <2>5. QED
    BY <1>1, <2>2, <2>3, <2>4 DEF HistoryInv, HistoryTypeOK, Empty
<1>3. NoneFromTheFuture' /\ Blank'
  BY DEF HistoryInv, NoneFromTheFuture, Blank, Empty
<1>4. ASSUME ~clearFailed' PROVE KeptInOrder'
  <2>1. header'.head = 0 /\ header'.count = 0 /\ head' = 0 /\ count' = 0
    BY <1>4 DEF Empty
  <2>2. (0 + 0) % Size = 0 /\ 0 \in 0 .. failures'
    BY <1>1, <1>2, Wrap DEF HistoryTypeOK
  <2>3. Lags(failures)'
    BY <2>1, <2>2 DEF Lags
  <2>4. QED
    BY <2>1, <2>3 DEF KeptInOrder, InOrder
<1>5. QED
  BY <1>2, <1>3, <1>4 DEF HistoryInv

LEMMA DetectInv == ASSUME HistoryInv, DetectEeprom PROVE HistoryInv'
<1>1. HistoryTypeOK'
  <2>1. failures' \in 0 .. Failures
    BY HistoryAssumption
    DEF DetectEeprom, NoEeprom, Load, NoHeader, BusFails, HistoryInv, HistoryTypeOK
  <2>2. head' \in Slots /\ count' \in 0 .. Size
    BY DEF DetectEeprom, NoEeprom, Load, NoHeader, HistoryInv, HistoryTypeOK, Header
  <2>3. QED
    BY <2>1, <2>2 DEF DetectEeprom, NoEeprom, Load, NoHeader, HistoryInv, HistoryTypeOK
<1>2. NoneFromTheFuture' /\ Blank'
  BY DEF DetectEeprom, NoEeprom, Load, NoHeader, HistoryInv, NoneFromTheFuture, Blank
<1>3. ASSUME ~clearFailed' PROVE KeptInOrder'
  <2>1. KeptInOrder
    BY <1>3 DEF DetectEeprom, NoEeprom, Load, NoHeader, HistoryInv
  <2>2. failures \in Nat /\ failures' \in Nat /\ failures <= failures' /\ Size \in Nat
    BY HistoryAssumption
    DEF DetectEeprom, NoEeprom, Load, NoHeader, BusFails, HistoryInv, HistoryTypeOK
  <2>3. InOrder(header.head, header.count, Size - failures - 1)'
    <3>1. header' = header /\ ring' = ring /\ header.count \in Nat
      BY HistoryAssumption DEF DetectEeprom, NoEeprom, Load, NoHeader, HistoryInv, HistoryTypeOK, Header
    <3>2. InOrder(header.head, header.count, Size - failures - 1)
      BY <2>1 DEF KeptInOrder
    <3>3. InOrder(header.head, header.count, Size - failures' - 1)
      BY <2>2, <3>1, <3>2, FewerInOrder
    <3>4. QED
      BY <3>1, <3>3 DEF InOrder, Behind
  <2>4. CASE NoEeprom
    <3>1. count' = 0
      BY <2>4 DEF DetectEeprom, NoEeprom, HistoryInv, Blank
    <3>2. QED
      BY <2>3, <2>4, <3>1 DEF NoEeprom, KeptInOrder, InOrder
  <2>5. CASE Load
    <3>1. header.head \in Slots /\ (header.head + 0) % Size = header.head
      <4>1. header.head \in Slots
        BY DEF HistoryInv, HistoryTypeOK, Header
      <4>2. header.head + 0 = header.head /\ header.head \in 0 .. 2 * Size - 1
        BY <4>1, HistoryAssumption DEF Slots
      <4>3. header.head % Size = IF header.head < Size THEN header.head ELSE header.head - Size
        BY <4>2, Wrap
      <4>4. QED
        BY <4>1, <4>2, <4>3, HistoryAssumption DEF Slots
    <3>2. Lags(failures)'
      BY <2>2, <2>5, <3>1 DEF Load, Lags
    <3>3. InOrder(head, count, Size - failures - 1)'
      BY <2>3, <2>5 DEF Load, InOrder
    <3>4. QED
      BY <2>3, <2>5, <3>2, <3>3 DEF Load, KeptInOrder
  <2>6. CASE NoHeader
    BY <2>3, <2>6 DEF NoHeader, KeptInOrder
  <2>7. QED
    BY <2>4, <2>5, <2>6 DEF DetectEeprom
<1>4. QED
  BY <1>1, <1>2, <1>3 DEF HistoryInv

LEMMA FormatInv == ASSUME HistoryInv, Format \/ ClearHistory PROVE HistoryInv'
BY EmptyInv DEF Format, ClearHistory, HistoryInv, HistoryTypeOK

(* A record that could not be written. *)
LEMMA LostRecordInv ==
  ASSUME HistoryInv, found, pc \in {"boot", "idle"}, issued < Last, issued' = issued + 1,
         BusFails, pc' = "idle", UNCHANGED <<ring, header, ram, clearFailed>>
  PROVE  HistoryInv'
<1>1. issued \in Nat /\ Last \in Nat /\ failures \in Nat /\ Failures \in Nat /\ Size \in Nat
  BY HistoryAssumption DEF HistoryInv, HistoryTypeOK
<1>2. issued' \in 0 .. Last /\ failures' = failures + 1 /\ failures' \in 0 .. Failures
  BY <1>1 DEF BusFails
<1>3. HistoryTypeOK'
  BY <1>2 DEF HistoryInv, HistoryTypeOK, ram
<1>4. NoneFromTheFuture' /\ Blank'
  <2>1. \A s \in Slots : ring[s] \in Nat
    BY <1>1 DEF HistoryInv, HistoryTypeOK
  <2>2. QED
    BY <1>1, <2>1 DEF HistoryInv, NoneFromTheFuture, Blank, ram
<1>5. ASSUME ~clearFailed' PROVE KeptInOrder'
  <2>1. KeptInOrder
    BY <1>5 DEF HistoryInv
  <2>2. /\ header' = header /\ ring' = ring /\ head' = head /\ count' = count
        /\ header.count \in Nat /\ count \in Nat
    BY <1>1 DEF ram, HistoryInv, HistoryTypeOK, Header
  <2>3. InOrder(header.head, header.count, Size - failures' - 1)
    BY <1>1, <1>2, <2>1, <2>2 DEF KeptInOrder, InOrder
  <2>4. InOrder(head, count, Size - failures')
    BY <1>1, <1>2, <2>1, <2>2 DEF KeptInOrder, InOrder
  <2>5. InOrder(header.head, header.count, Size - failures - 1)'
    BY <2>2, <2>3 DEF InOrder, Behind
  <2>6. InOrder(head, count, Size - failures)'
    BY <2>2, <2>4 DEF InOrder, Behind
  <2>7. Lags(failures)'
    BY <1>1, <1>2, <2>1, <2>2 DEF KeptInOrder, Lags
  <2>8. QED
    BY <2>5, <2>6, <2>7 DEF KeptInOrder
<1>6. QED
  BY <1>3, <1>4, <1>5 DEF HistoryInv

(* A record that was written. *)
LEMMA WrittenRecordInv ==
  ASSUME HistoryInv, found, pc \in {"boot", "idle"}, issued < Last, issued' = issued + 1,
         ring' = [ring EXCEPT ![head] = issued'], head' = (head + 1) % Size,
         count' = IF count < Size THEN count + 1 ELSE count,
         pc' = "header", UNCHANGED <<header, found, failures, clearFailed>>
  PROVE  HistoryInv'
<1>1. /\ issued \in Nat /\ Last \in Nat /\ failures \in Nat /\ Size \in Nat
      /\ failures <= Failures /\ Failures <= Size /\ Failures \in Nat
      /\ head \in Slots /\ count \in 0 .. Size
  BY HistoryAssumption DEF HistoryInv, HistoryTypeOK
<1>2. issued' \in 0 .. Last /\ count' \in 0 .. Size /\ head' \in Slots
  BY <1>1, BehindNext
<1>3. HistoryTypeOK'
  <2>1. ring' \in [Slots -> 0 .. Last]
    BY <1>2 DEF HistoryInv, HistoryTypeOK
  <2>2. QED
    BY <1>2, <2>1 DEF HistoryInv, HistoryTypeOK
<1>4. NoneFromTheFuture' /\ Blank'
  <2>1. ASSUME NEW s \in Slots PROVE ring'[s] <= issued'
    BY <1>1 DEF HistoryInv, HistoryTypeOK, NoneFromTheFuture
  <2>2. QED
    BY <2>1 DEF NoneFromTheFuture, Blank
<1>5. ASSUME ~clearFailed' PROVE KeptInOrder'
  <2>1. KeptInOrder
    BY <1>5 DEF HistoryInv
  <2>2. InOrder(header.head, header.count, Size - failures - 1)'
    <3>1. CASE failures < Size
      <4>1. Size - failures - 1 \in Nat /\ Size - failures - 1 + failures < Size
            /\ failures \in 0 .. Size
        BY <1>1, <3>1
      <4>2. InOrder(header.head, header.count, Size - failures - 1) /\ Lags(failures)
        BY <2>1 DEF KeptInOrder
      <4> DEFINE m == Size - failures - 1
      <4> HIDE DEF m
      <4>3. InOrder(header.head, header.count, m)'
        BY <4>1, <4>2, StaysInOrder DEF HistoryInv, m
      <4>4. QED
        BY <4>3 DEF m
    <3>2. CASE failures = Size
      <4>1. \A j \in 1 .. header.count : ~ (j <= Size - failures' - 1)
        BY <1>1, <3>2
      <4>2. QED
        BY <4>1 DEF InOrder
    <3>3. QED
      BY <1>1, <3>1, <3>2
  <2>3. InOrder(head, count, Size - failures)'
    <3>1. Size - failures \in 0 .. Size
      BY <1>1
    <3>2. InOrder(head, count, Size - failures - 1)
      BY <1>1, <2>1 DEF KeptInOrder, InOrder
    <3>3. InOrder(head, count, Size - failures)'
      BY <3>1, <3>2, AddedInOrder DEF HistoryInv
    <3>4. QED
      BY <3>3
  <2>4. Lags(failures + 1)'
    <3>1. PICK l \in 0 .. failures : head = (header.head + l) % Size
      BY <2>1 DEF KeptInOrder, Lags
    <3>2. l + 1 \in 0 .. failures' + 1
      BY <1>1
    <3>3. head' = (header'.head + (l + 1)) % Size
      <4>1. header.head \in Slots
        BY DEF HistoryInv, HistoryTypeOK, Header
      <4>2. l \in 0 .. Size
        BY <1>1
      <4>3. head = IF header.head + l < Size THEN header.head + l ELSE header.head + l - Size
        BY <3>1, <4>1, <4>2, AheadValue
      <4>4. head' = IF head + 1 < Size THEN head + 1 ELSE head + 1 - Size
        BY <1>1, AheadValue, HistoryAssumption
      <4>5. CASE l < Size
        <5>1. l + 1 \in 0 .. Size
          BY <4>2, <4>5, <1>1
        <5>2. (header.head + (l + 1)) % Size
                = IF header.head + (l + 1) < Size THEN header.head + (l + 1)
                  ELSE header.head + (l + 1) - Size
          BY <4>1, <5>1, AheadValue
        <5>3. QED
          BY <1>1, <4>1, <4>2, <4>3, <4>4, <5>2 DEF Slots
      <4>6. CASE l = Size
        BY <1>1, <4>1, <4>3, <4>4, <4>6 DEF Slots
      <4>7. QED
        BY <1>1, <4>2, <4>5, <4>6
    <3>4. QED
      BY <3>2, <3>3 DEF Lags
  <2>5. QED
    BY <2>2, <2>3, <2>4 DEF KeptInOrder
<1>6. QED
  BY <1>3, <1>4, <1>5 DEF HistoryInv

LEMMA AddInv == ASSUME HistoryInv, AddRecord PROVE HistoryInv'
BY LostRecordInv, WrittenRecordInv DEF AddRecord, ram

(* writeHeader: the header catches up, or lags one record more.             *)
LEMMA EndInv == ASSUME HistoryInv, EndRecord PROVE HistoryInv'
<1>1. /\ failures \in Nat /\ failures <= Failures /\ Failures \in Nat /\ Size \in Nat
      /\ head \in Slots /\ count \in 0 .. Size /\ count \in Nat
      /\ header.count \in Nat /\ header.head \in Slots
  BY HistoryAssumption DEF HistoryInv, HistoryTypeOK, Header
<1>2. ring' = ring /\ head' = head /\ count' = count /\ pc' = "idle" /\ clearFailed' = clearFailed
  BY DEF EndRecord, ram
<1>3. \/ header' = [valid |-> TRUE, head |-> head, count |-> count] /\ failures' = failures
      \/ BusFails /\ header' = header
  BY <1>2 DEF EndRecord, WriteHeader
<1>4. HistoryTypeOK'
  <2>1. header' \in Header
    <3>1. [valid |-> TRUE, head |-> head, count |-> count] \in Header
      BY <1>1 DEF Header
    <3>2. QED
      BY <1>3, <3>1 DEF HistoryInv, HistoryTypeOK
  <2>2. failures' \in 0 .. Failures
    BY <1>1, <1>3 DEF BusFails
  <2>3. QED
    BY <1>1, <2>1, <2>2 DEF EndRecord, ram, HistoryInv, HistoryTypeOK
<1>5. NoneFromTheFuture' /\ Blank'
  BY DEF EndRecord, ram, HistoryInv, NoneFromTheFuture, Blank
<1>6. ASSUME ~clearFailed' PROVE KeptInOrder'
  <2>1. /\ InOrder(header.head, header.count, Size - failures - 1)
        /\ InOrder(head, count, Size - failures)
        /\ Lags(failures + 1)
    BY <1>2, <1>6 DEF HistoryInv, KeptInOrder, EndRecord
  <2>2. InOrder(head, count, Size - failures - 1)
    BY <1>1, <2>1 DEF InOrder
  <2>3. CASE header' = [valid |-> TRUE, head |-> head, count |-> count] /\ failures' = failures
    <3>1. InOrder(header.head, header.count, Size - failures - 1)'
      BY <1>2, <2>2, <2>3 DEF InOrder, Behind
    <3>2. InOrder(head, count, Size - failures)'
      BY <1>2, <2>1, <2>3 DEF InOrder, Behind
    <3>3. head' = (header'.head + 0) % Size /\ 0 \in 0 .. failures'
      <4>1. head + 0 = head /\ head \in 0 .. 2 * Size - 1
        BY <1>1, HistoryAssumption DEF Slots
      <4>2. head % Size = IF head < Size THEN head ELSE head - Size
        BY <4>1, Wrap
      <4>3. QED
        BY <1>1, <1>2, <2>3, <4>1, <4>2 DEF Slots
    <3>4. QED
      BY <1>2, <3>1, <3>2, <3>3 DEF KeptInOrder, Lags
  <2>4. CASE BusFails /\ header' = header
    <3>1. failures' = failures + 1
      BY <2>4 DEF BusFails
    <3>2. InOrder(header.head, header.count, Size - (failures + 1) - 1)
      <4>1. failures + 1 \in Nat /\ failures <= failures + 1
        BY <1>1
      <4>2. QED
        BY <1>1, <2>1, <4>1, FewerInOrder
    <3>3. InOrder(header.head, header.count, Size - failures - 1)'
      BY <1>2, <2>4, <3>1, <3>2 DEF InOrder, Behind
    <3>4. InOrder(head, count, Size - (failures + 1))
      BY <1>1, <2>2 DEF InOrder
    <3>5. InOrder(head, count, Size - failures)'
      BY <1>2, <3>1, <3>4 DEF InOrder, Behind
    <3>6. Lags(failures)'
      BY <1>2, <2>1, <2>4, <3>1 DEF Lags
    <3>7. QED
      BY <1>2, <3>3, <3>5, <3>6 DEF KeptInOrder
  <2>5. QED
    BY <1>3, <2>3, <2>4
<1>7. QED
  BY <1>4, <1>5, <1>6 DEF HistoryInv

LEMMA CutInv == ASSUME HistoryInv, CutPower \/ UNCHANGED historyVars PROVE HistoryInv'
<1>1. CASE CutPower
  <2>1. 0 \in Slots /\ 0 \in 0 .. Size
    BY HistoryAssumption DEF Slots
  <2>2. HistoryTypeOK'
    BY <1>1, <2>1 DEF CutPower, HistoryInv, HistoryTypeOK
  <2>3. NoneFromTheFuture' /\ Blank'
    BY <1>1 DEF CutPower, HistoryInv, NoneFromTheFuture, Blank
  <2>4. ASSUME ~clearFailed' PROVE KeptInOrder'
    BY <1>1, <2>4 DEF CutPower, HistoryInv, KeptInOrder, InOrder, Behind
  <2>5. QED
    BY <2>2, <2>3, <2>4 DEF HistoryInv
<1>2. CASE UNCHANGED historyVars
  BY <1>2 DEF historyVars, ram, HistoryInv, HistoryTypeOK, NoneFromTheFuture, Blank,
              KeptInOrder, InOrder, Behind, Lags
<1>3. QED
  BY <1>1, <1>2

LEMMA Inductive == HistorySpec => []HistoryInv
<1>1. HistoryInv /\ [HistoryNext]_historyVars => HistoryInv'
  BY DetectInv, FormatInv, AddInv, EndInv, CutInv DEF HistoryNext
<1>2. QED
  BY <1>1, InitInv, PTL DEF HistorySpec

-------------------------------------------------------------------------------
(* The intact records *)

(* Every set of numbers has a least one, from which the longest part of the *)
(* ring that is in order follows without an induction.                      *)
LEMMA LeastNatural ==
  ASSUME NEW T, T \subseteq Nat, T # {}
  PROVE  \E m \in T : \A n \in T : m <= n
<1> DEFINE R == OpToRel(<, Nat)
<1>1. IsWellFoundedOn(R, Nat)
  BY NatLessThanWellFounded
<1>2. ASSUME NEW n \in Nat, NEW m \in Nat, n < m PROVE <<n, m>> \in R
  BY <1>2, Zenon DEF OpToRel
<1> HIDE DEF R
<1>3. PICK m \in T : \A n \in T : ~ (<<n, m>> \in R)
  BY <1>1, WFMin, Zenon
<1>4. ASSUME NEW n \in T PROVE m <= n
  <2>1. n \in Nat /\ m \in Nat
    OBVIOUS
  <2>2. ~ (n < m)
    BY <1>2, <1>3, <2>1, Zenon
  <2>3. QED
    BY <2>1, <2>2
<1>5. QED
  BY <1>4

(* The n records of ring r behind slot h are in order. *)
Ordered(r, h, n) == \A i, j \in 1 .. n : i < j => r[Behind(h, i)] > r[Behind(h, j)]

(* Of the c records of ring r behind slot h, the n newest are intact.       *)
AreIntact(r, h, c, n) ==
  /\ n \in 0 .. c /\ Ordered(r, h, n)
  /\ n < c => ~Ordered(r, h, n + 1)

LEMMA OrderedPart ==
  ASSUME NEW r, NEW h, NEW n \in Nat, NEW m \in Nat, m <= n, Ordered(r, h, n)
  PROVE  Ordered(r, h, m)
BY DEF Ordered

LEMMA OrderedIsDecreasing ==
  ASSUME NEW r, NEW h, NEW n \in Nat
  PROVE  Decreasing(Newest(r, h, n)) <=> Ordered(r, h, n)
BY DEF Decreasing, Newest, Ordered

LEMMA SomeIntact ==
  ASSUME NEW r, NEW h, NEW c \in Nat
  PROVE  \E n \in 0 .. c : AreIntact(r, h, c, n)
<1> DEFINE T == {k \in 0 .. c : Ordered(r, h, c - k)}
<1>1. c \in T
  <2>1. Ordered(r, h, 0)
    BY DEF Ordered
  <2>2. c - c = 0 /\ c \in 0 .. c
    OBVIOUS
  <2>3. QED
    BY <2>1, <2>2
<1>2. T \subseteq Nat
  OBVIOUS
<1>3. PICK k \in T : \A l \in T : k <= l
  <2> HIDE DEF T
  <2>1. T # {}
    BY <1>1
  <2>2. QED
    BY <1>2, <2>1, LeastNatural
<1>4. k \in 0 .. c /\ Ordered(r, h, c - k) /\ c - k \in 0 .. c
  OBVIOUS
<1>5. ASSUME c - k < c, Ordered(r, h, (c - k) + 1) PROVE FALSE
  <2>1. k - 1 \in 0 .. c /\ c - (k - 1) = (c - k) + 1
    BY <1>4, <1>5
  <2>2. k - 1 \in T
    BY <1>5, <2>1
  <2>3. k <= k - 1
    BY <1>3, <2>2
  <2>4. QED
    BY <1>4, <2>3
<1>6. QED
  BY <1>4, <1>5 DEF AreIntact

(* ... and no other number of them is. *)
LEMMA IntactOnly ==
  ASSUME NEW r, NEW h, NEW c \in Nat, NEW n \in 0 .. c, NEW m \in 0 .. c,
         AreIntact(r, h, c, n), Ordered(r, h, m)
  PROVE  m <= n
<1> SUFFICES ASSUME n + 1 <= m PROVE FALSE
  OBVIOUS
<1>1. n < c /\ n + 1 \in Nat /\ m \in Nat
  OBVIOUS
<1>2. Ordered(r, h, n + 1)
  BY <1>1, OrderedPart
<1>3. QED
  BY <1>1, <1>2 DEF AreIntact

LEMMA IntactValue ==
  ASSUME NEW r, NEW h, NEW c \in Nat
  PROVE  /\ AreIntact(r, h, c, Intact(r, h, c))
         /\ \A n \in 0 .. c : AreIntact(r, h, c, n) => Intact(r, h, c) = n
<1> DEFINE Longest(n) == /\ Decreasing(Newest(r, h, n))
                         /\ n < c => ~Decreasing(Newest(r, h, n + 1))
<1>1. ASSUME NEW n \in 0 .. c PROVE Longest(n) <=> AreIntact(r, h, c, n)
  <2>1. n \in Nat /\ n + 1 \in Nat
    OBVIOUS
  <2>2. QED
    BY <2>1, OrderedIsDecreasing DEF AreIntact
<1>2. \E n \in 0 .. c : Longest(n)
  BY <1>1, SomeIntact
<1>3. Intact(r, h, c) = CHOOSE n \in 0 .. c : Longest(n)
  BY DEF Intact
<1> HIDE DEF Longest
<1>4. Intact(r, h, c) \in 0 .. c /\ Longest(Intact(r, h, c))
  BY <1>2, <1>3
<1>5. AreIntact(r, h, c, Intact(r, h, c))
  BY <1>1, <1>4
<1>6. ASSUME NEW n \in 0 .. c, AreIntact(r, h, c, n) PROVE Intact(r, h, c) = n
  <2>1. n <= Intact(r, h, c)
    BY <1>4, <1>5, <1>6, IntactOnly DEF AreIntact
  <2>2. Intact(r, h, c) <= n
    BY <1>4, <1>5, <1>6, IntactOnly DEF AreIntact
  <2>3. QED
    BY <1>4, <2>1, <2>2
<1>7. QED
  BY <1>5, <1>6

(* The log in terms of its length. *)
LEMMA KeptValue ==
  ASSUME NEW r, NEW h, NEW c \in Nat, NEW n \in 0 .. c, AreIntact(r, h, c, n)
  PROVE  /\ Kept(r, h, c) = [i \in 1 .. n |-> r[Behind(h, n + 1 - i)]]
         /\ Len(Kept(r, h, c)) = n /\ DOMAIN Kept(r, h, c) = 1 .. n
<1>1. Intact(r, h, c) = n
  BY IntactValue
<1>2. Kept(r, h, c) = [i \in 1 .. n |-> r[Behind(h, n + 1 - i)]]
  BY <1>1 DEF Kept
<1>3. QED
  BY <1>2

-------------------------------------------------------------------------------
(* How far RAM is ahead of the header *)

(* The l newest records of ring r behind slot h are newer than all behind   *)
(* them, those that no header counts included.                             *)
Fresh(r, h, l) ==
  \A i \in 1 .. l, j \in 1 .. Size : i < j => r[Behind(h, i)] > r[Behind(h, j)]

Capped(n) == IF n < Size THEN n ELSE Size

(* RAM is l records ahead of the header. *)
AheadBy(l) ==
  /\ head = (header.head + l) % Size
  /\ count = Capped(header.count + l)
  /\ Fresh(ring, head, l)

LogInv ==
  /\ clearFailed => failures > 0
  /\ ~clearFailed /\ found /\ pc \in {"boot", "idle"} => \E l \in 0 .. failures : AheadBy(l)
  /\ ~clearFailed /\ pc = "header" => \E l \in 1 .. failures + 1 : AheadBy(l)

(* RAM and header agree. *)
LEMMA InStep ==
  ASSUME HistoryTypeOK', head' = header'.head, count' = header'.count
  PROVE  AheadBy(0)'
<1>1. /\ header'.head \in 0 .. 2 * Size - 1 /\ header'.head < Size
      /\ header'.count \in 0 .. Size
  BY HistoryAssumption DEF HistoryTypeOK, Header, Slots
<1>2. header'.head % Size = header'.head
  BY <1>1, Wrap
<1>3. head' = (header'.head + 0) % Size
  BY <1>1, <1>2
<1>4. count' = Capped(header'.count + 0)
  BY <1>1, HistoryAssumption DEF Capped
<1>5. Fresh(ring', head', 0)
  BY DEF Fresh
<1>6. QED
  BY <1>3, <1>4, <1>5 DEF AheadBy

(* The record just written is newer than all others. *)
LEMMA WrittenFresh ==
  ASSUME HistoryTypeOK, NoneFromTheFuture, issued' = issued + 1,
         ring' = [ring EXCEPT ![head] = issued'], head' = (head + 1) % Size,
         NEW l \in 0 .. Size - 1, Fresh(ring, head, l)
  PROVE  Fresh(ring', head', l + 1)
<1>1. head \in Slots /\ issued \in Nat /\ l \in Nat /\ Size \in Nat
  BY HistoryAssumption DEF HistoryTypeOK
<1>2. /\ Behind(head', 1) = head
      /\ \A i \in 2 .. Size : Behind(head', i) = Behind(head, i - 1)
  BY <1>1, BehindNext
<1>3. ring'[head] = issued + 1
  BY <1>1 DEF HistoryTypeOK
<1>4. ASSUME NEW i \in 1 .. Size, i < Size
      PROVE  /\ ring'[Behind(head, i)] = ring[Behind(head, i)]
             /\ ring[Behind(head, i)] <= issued /\ ring[Behind(head, i)] \in Nat
  <2>1. /\ Behind(head, i) = IF i <= head THEN head - i ELSE head + Size - i
        /\ Behind(head, i) \in Slots
    BY <1>1, BehindValue
  <2>2. Behind(head, i) # head
    BY <1>1, <1>4, <2>1, HistoryAssumption DEF Slots
  <2>3. QED
    BY <2>1, <2>2 DEF HistoryTypeOK, NoneFromTheFuture
<1>5. ASSUME NEW i \in 1 .. l + 1, NEW j \in 1 .. Size, i < j
      PROVE  ring'[Behind(head', i)] > ring'[Behind(head', j)]
  <2>1. j \in 2 .. Size /\ j - 1 \in 1 .. Size /\ j - 1 < Size
    BY <1>1, <1>5
  <2>2. ring'[Behind(head', j)] = ring[Behind(head, j - 1)]
    BY <1>2, <1>4, <2>1
  <2>3. CASE i = 1
    BY <1>1, <1>2, <1>3, <1>4, <2>1, <2>2, <2>3
  <2>4. CASE i # 1
    <3>1. i \in 2 .. Size /\ i - 1 \in 1 .. Size /\ i - 1 < Size /\ i - 1 \in 1 .. l /\ i - 1 < j - 1
      BY <1>1, <1>5, <2>4
    <3>2. ring'[Behind(head', i)] = ring[Behind(head, i - 1)]
      BY <1>2, <1>4, <3>1
    <3>3. ring[Behind(head, i - 1)] > ring[Behind(head, j - 1)]
      BY <2>1, <3>1 DEF Fresh
    <3>4. QED
      BY <2>2, <3>2, <3>3
  <2>5. QED
    BY <2>3, <2>4
<1>6. QED
  BY <1>5 DEF Fresh

(* A step further ahead in the ring. *)
LEMMA OneFurther ==
  ASSUME NEW h \in Slots, NEW l \in 0 .. Size - 1
  PROVE  (((h + l) % Size) + 1) % Size = (h + (l + 1)) % Size
<1>1. Size \in Nat \ {0} /\ l \in 0 .. Size /\ l + 1 \in 0 .. Size /\ 1 \in 0 .. Size
  BY HistoryAssumption
<1>2. /\ (h + l) % Size = IF h + l < Size THEN h + l ELSE h + l - Size
      /\ (h + l) % Size \in Slots
  BY <1>1, AheadValue
<1>3. (h + (l + 1)) % Size = IF h + (l + 1) < Size THEN h + (l + 1) ELSE h + (l + 1) - Size
  BY <1>1, AheadValue
<1> DEFINE g == (h + l) % Size
<1>4. (g + 1) % Size = IF g + 1 < Size THEN g + 1 ELSE g + 1 - Size
  BY <1>1, <1>2, AheadValue
<1>5. g = IF h + l < Size THEN h + l ELSE h + l - Size
  BY <1>2
<1> HIDE DEF g
<1>6. (g + 1) % Size = (h + (l + 1)) % Size
  BY <1>1, <1>3, <1>4, <1>5 DEF Slots
<1>7. QED
  BY <1>6 DEF g

LEMMA LogInvAdd ==
  ASSUME HistoryInv, LogInv, AddRecord, Failures + 1 < Size
  PROVE  LogInv'
<1>1. /\ failures \in Nat /\ Failures \in Nat /\ Size \in Nat /\ failures <= Failures
      /\ header.head \in Slots /\ header.count \in Nat /\ count \in 0 .. Size
  BY HistoryAssumption DEF HistoryInv, HistoryTypeOK, Header
<1>2. header' = header /\ clearFailed' = clearFailed /\ found /\ pc \in {"boot", "idle"}
  BY DEF AddRecord
<1>3. CASE BusFails /\ pc' = "idle" /\ UNCHANGED <<ring, head, count>>
  <2>1. failures' = failures + 1
    BY <1>3 DEF BusFails
  <2>2. ASSUME ~clearFailed PROVE \E l \in 0 .. failures' : AheadBy(l)'
    <3>1. PICK l \in 0 .. failures : AheadBy(l)
      BY <1>2, <2>2 DEF LogInv
    <3>2. l \in 0 .. failures' /\ AheadBy(l)'
      BY <1>1, <1>2, <1>3, <2>1, <3>1 DEF AheadBy
    <3>3. QED
      BY <3>2
  <2>3. QED
    BY <1>1, <1>2, <1>3, <2>1, <2>2 DEF LogInv
<1>4. CASE /\ ring' = [ring EXCEPT ![head] = issued']
           /\ head' = (head + 1) % Size
           /\ count' = IF count < Size THEN count + 1 ELSE count
           /\ pc' = "header" /\ UNCHANGED failures
  <2>1. ASSUME ~clearFailed PROVE \E l \in 1 .. failures' + 1 : AheadBy(l)'
    <3>1. PICK l \in 0 .. failures : AheadBy(l)
      BY <1>2, <2>1 DEF LogInv
    <3>2. l \in 0 .. Size - 1 /\ l + 1 \in 1 .. failures' + 1
      BY <1>1, <1>4
    <3>3. head' = (header'.head + (l + 1)) % Size
      BY <1>1, <1>2, <1>4, <3>1, <3>2, OneFurther DEF AheadBy
    <3>4. count' = Capped(header'.count + (l + 1))
      BY <1>1, <1>2, <1>4, <3>1, <3>2 DEF AheadBy, Capped
    <3>5. Fresh(ring', head', l + 1)
      BY <1>4, <3>1, <3>2, WrittenFresh DEF AheadBy, AddRecord, HistoryInv
    <3>6. AheadBy(l + 1)'
      BY <3>3, <3>4, <3>5 DEF AheadBy
    <3>7. QED
      BY <3>2, <3>6
  <2>2. QED
    BY <1>2, <1>4, <2>1 DEF LogInv
<1>5. QED
  BY <1>3, <1>4 DEF AddRecord

LEMMA LogInvEnd ==
  ASSUME HistoryInv, HistoryInv', LogInv, EndRecord
  PROVE  LogInv'
<1>1. /\ failures \in Nat /\ ring' = ring /\ head' = head /\ count' = count
      /\ pc = "header" /\ pc' = "idle" /\ clearFailed' = clearFailed
  BY HistoryAssumption DEF EndRecord, ram, HistoryInv, HistoryTypeOK
<1>2. CASE header' = [valid |-> TRUE, head |-> head', count |-> count'] /\ UNCHANGED failures
  <2>1. AheadBy(0)' /\ 0 \in 0 .. failures'
    BY <1>1, <1>2, InStep DEF HistoryInv
  <2>2. QED
    BY <1>1, <1>2, <2>1 DEF LogInv
<1>3. CASE BusFails /\ UNCHANGED header
  <2>1. failures' = failures + 1
    BY <1>3 DEF BusFails
  <2>2. ASSUME ~clearFailed PROVE \E l \in 0 .. failures' : AheadBy(l)'
    <3>1. PICK l \in 1 .. failures + 1 : AheadBy(l)
      BY <1>1, <2>2 DEF LogInv
    <3>2. l \in 0 .. failures' /\ AheadBy(l)'
      BY <1>1, <1>3, <2>1, <3>1 DEF AheadBy
    <3>3. QED
      BY <3>2
  <2>3. QED
    BY <1>1, <2>1, <2>2 DEF LogInv
<1>4. QED
  BY <1>2, <1>3 DEF EndRecord, WriteHeader

LEMMA LogInvOther ==
  ASSUME HistoryInv, HistoryInv', LogInv,
         DetectEeprom \/ Format \/ ClearHistory \/ CutPower \/ UNCHANGED historyVars
  PROVE  LogInv'
<1>1. failures \in Nat /\ 0 \in 0 .. failures'
  BY HistoryAssumption DEF HistoryInv, HistoryTypeOK
<1>2. CASE NoEeprom \/ NoHeader
  BY <1>1, <1>2 DEF NoEeprom, NoHeader, BusFails, LogInv
<1>3. CASE Load
  BY <1>1, <1>3, InStep DEF Load, HistoryInv, LogInv
<1>4. CASE Format \/ ClearHistory
  <2>1. CASE clearFailed'
    BY <1>1, <1>4, <2>1 DEF Format, ClearHistory, Empty, BusFails, LogInv
  <2>2. CASE ~clearFailed'
    <3>1. head' = header'.head /\ count' = header'.count
      BY <1>4, <2>2 DEF Format, ClearHistory, Empty
    <3>2. AheadBy(0)'
      BY <3>1, InStep DEF HistoryInv
    <3>3. pc' # "header"
      BY <1>4 DEF Format, ClearHistory
    <3>4. QED
      BY <1>1, <2>2, <3>2, <3>3 DEF LogInv
  <2>3. QED
    BY <2>1, <2>2
<1>5. CASE CutPower
  BY <1>5 DEF CutPower, LogInv
<1>6. CASE UNCHANGED historyVars
  BY <1>6 DEF historyVars, ram, LogInv, AheadBy
<1>7. QED
  BY <1>2, <1>3, <1>4, <1>5, <1>6 DEF DetectEeprom

LEMMA LogInductive == Failures + 1 < Size => (HistorySpec => [](HistoryInv /\ LogInv))
<1> SUFFICES ASSUME Failures + 1 < Size PROVE HistorySpec => [](HistoryInv /\ LogInv)
  OBVIOUS
<1>1. HistoryInit => LogInv
  BY DEF HistoryInit, LogInv
<1>2. HistoryInv /\ HistoryInv' /\ LogInv /\ [HistoryNext]_historyVars => LogInv'
  BY LogInvAdd, LogInvEnd, LogInvOther DEF HistoryNext
<1>3. HistorySpec => []HistoryInv
  BY Inductive
<1>4. QED
  BY <1>1, <1>2, <1>3, PTL DEF HistorySpec

-------------------------------------------------------------------------------
(* The steps of the log *)

LEMMA KeptSorted ==
  ASSUME NEW r \in [Slots -> Nat], NEW h \in Slots, NEW c \in 0 .. Size,
         NEW i \in DOMAIN Kept(r, h, c), NEW j \in DOMAIN Kept(r, h, c), i < j
  PROVE  Kept(r, h, c)[i] < Kept(r, h, c)[j]
<1>1. c \in Nat /\ Size \in Nat
  BY HistoryAssumption
<1>2. PICK n \in 0 .. c : AreIntact(r, h, c, n)
  BY <1>1, SomeIntact
<1>3. Kept(r, h, c) = [k \in 1 .. n |-> r[Behind(h, n + 1 - k)]] /\ DOMAIN Kept(r, h, c) = 1 .. n
  BY <1>1, <1>2, KeptValue
<1>4. /\ i \in 1 .. n /\ j \in 1 .. n
      /\ n + 1 - i \in 1 .. n /\ n + 1 - j \in 1 .. n /\ n + 1 - j < n + 1 - i
      /\ n + 1 - i \in 1 .. Size /\ n + 1 - j \in 1 .. Size
  BY <1>1, <1>2, <1>3
<1>5. r[Behind(h, n + 1 - j)] > r[Behind(h, n + 1 - i)]
  BY <1>2, <1>4 DEF AreIntact, Ordered
<1>6. r[Behind(h, n + 1 - j)] \in Nat /\ r[Behind(h, n + 1 - i)] \in Nat
  BY <1>4, BehindValue
<1>7. QED
  BY <1>3, <1>4, <1>5, <1>6

(* What every state of the ring gives the log. *)
LEMMA RingTypes ==
  ASSUME HistoryTypeOK
  PROVE  /\ ring \in [Slots -> Nat] /\ header.head \in Slots
         /\ header.count \in 0 .. Size /\ header.count \in Nat
         /\ head \in Slots /\ count \in 0 .. Size /\ count \in Nat
         /\ failures \in Nat /\ Size \in Nat \ {0}
BY HistoryAssumption DEF HistoryTypeOK, Header

(* Neither ring nor header is written: nothing happens to the log, but that *)
(* the bus may have failed.                                                *)
LEMMA UntouchedLog ==
  ASSUME HistoryTypeOK, UNCHANGED <<ring, header, clearFailed>>,
         failures' = failures \/ failures' = failures + 1
  PROVE  [Log!LogNext]_(Log!logVars)
<1> DEFINE log == Kept(ring, header.head, header.count)
<1>1. Kept(ring', header'.head, header'.count) = log
  OBVIOUS
<1>2. CASE failures' = failures
  BY <1>1, <1>2 DEF Log!logVars, Trust
<1>3. CASE clearFailed'
  BY <1>3 DEF Log!LogNext, Trust
<1>4. CASE ~clearFailed' /\ failures' = failures + 1
  <2>1. Trust # "void" /\ Trust' = "lossy"
    BY <1>4, RingTypes DEF Trust
  <2>2. \A i, j \in DOMAIN log : i < j => log[i] < log[j]
    BY KeptSorted, RingTypes
  <2>3. \A e \in Log!Recorded(log) \ Log!Recorded(log) : \A i \in DOMAIN log : log[i] < e
    OBVIOUS
  <2>4. Log!Damage
    BY <1>1, <2>1, <2>2, <2>3 DEF Log!Damage
  <2>5. QED
    BY <2>4 DEF Log!LogNext
<1>5. QED
  BY <1>2, <1>3, <1>4

(* Format and clearHistory *)
LEMMA EmptiedLog ==
  ASSUME HistoryTypeOK, LogInv, Empty, ring' = ring
  PROVE  [Log!LogNext]_(Log!logVars)
<1>1. CASE clearFailed'
  BY <1>1 DEF Log!LogNext, Trust
<1>2. CASE ~clearFailed'
  <2>1. header'.count = 0 /\ failures' = failures
    BY <1>2 DEF Empty
  <2>2. Ordered(ring', header'.head, 0)
    BY DEF Ordered
  <2>3. AreIntact(ring', header'.head, 0, 0)
    BY <2>2 DEF AreIntact
  <2>4. Kept(ring', header'.head, 0) = [k \in 1 .. 0 |-> ring'[Behind(header'.head, 0 + 1 - k)]]
    BY <2>3, KeptValue
  <2>5. Kept(ring', header'.head, header'.count) = <<>>
    BY <2>1, <2>4
  <2>6. Trust' \in {Trust, "lossy"}
    BY <1>2, <2>1 DEF Trust, LogInv
  <2>7. Log!Clear
    BY <2>5, <2>6 DEF Log!Clear
  <2>8. QED
    BY <2>7 DEF Log!LogNext
<1>3. QED
  BY <1>1, <1>2

(* The slots behind a slot are all different, up to that slot itself.       *)
LEMMA BehindInjective ==
  ASSUME NEW h \in Slots, NEW i \in 1 .. Size, NEW j \in 1 .. Size, i # j
  PROVE  Behind(h, i) # Behind(h, j)
<1>1. Size \in Nat \ {0} /\ h \in 0 .. Size - 1
  BY HistoryAssumption DEF Slots
<1>2. Behind(h, i) = IF i <= h THEN h - i ELSE h + Size - i
  BY BehindValue
<1>3. Behind(h, j) = IF j <= h THEN h - j ELSE h + Size - j
  BY BehindValue
<1>4. QED
  BY <1>1, <1>2, <1>3

(* l slots ahead is Size - l behind. *)
LEMMA AheadIsBehind ==
  ASSUME NEW h \in Slots, NEW l \in 0 .. Size - 1
  PROVE  Behind(h, Size - l) = (h + l) % Size
<1>1. Size \in Nat \ {0} /\ l \in 0 .. Size /\ Size - l \in 1 .. Size /\ h \in 0 .. Size - 1
  BY HistoryAssumption DEF Slots
<1> DEFINE p == Size - l
<1>2. p \in 1 .. Size
  BY <1>1
<1>3. p = Size - l
  OBVIOUS
<1> HIDE DEF p
<1>4. Behind(h, p) = IF p <= h THEN h - p ELSE h + Size - p
  BY <1>2, BehindValue
<1>5. (h + l) % Size = IF h + l < Size THEN h + l ELSE h + l - Size
  BY <1>1, AheadValue
<1>6. Behind(h, p) = (h + l) % Size
  BY <1>1, <1>3, <1>4, <1>5
<1>7. QED
  BY <1>6 DEF p

(* A record newer than all others is written l slots ahead of h.            *)
Overwrites(r, q, h, l) ==
  /\ r \in [Slots -> Nat] /\ h \in Slots /\ l \in 0 .. Size - 2
  /\ \E v \in Nat : (\A s \in Slots : r[s] < v) /\ q = [r EXCEPT ![(h + l) % Size] = v]

(* It cuts off what was intact there and behind. *)
LEMMA CutOff ==
  ASSUME NEW r, NEW q, NEW h, NEW l, Overwrites(r, q, h, l),
         NEW c \in 0 .. Size, NEW n \in 0 .. c, AreIntact(r, h, c, n),
         NEW m, m = IF Size - l <= n THEN Size - l - 1 ELSE n
  PROVE  /\ m \in 0 .. n /\ AreIntact(q, h, c, m)
         /\ \A i \in 1 .. Size : i < Size - l => q[Behind(h, i)] = r[Behind(h, i)]
<1> DEFINE p == Size - l
<1>0. PICK v \in Nat : (\A s \in Slots : r[s] < v) /\ q = [r EXCEPT ![(h + l) % Size] = v]
  BY DEF Overwrites
<1>1. /\ Size \in Nat \ {0} /\ l \in 0 .. Size - 1 /\ p \in 2 .. Size /\ c \in Nat /\ n \in Nat
      /\ m \in 0 .. c /\ m <= n /\ m < p /\ h \in Slots /\ r \in [Slots -> Nat]
  BY HistoryAssumption DEF Overwrites
<1>2. Behind(h, p) = (h + l) % Size /\ Behind(h, p) \in Slots
  BY <1>1, AheadIsBehind, BehindValue
<1>3. q[Behind(h, p)] = v
  BY <1>0, <1>1, <1>2
<1>4. ASSUME NEW i \in 1 .. Size, i # p
      PROVE  q[Behind(h, i)] = r[Behind(h, i)]
  <2>1. Behind(h, i) \in Slots
    BY <1>1, BehindValue
  <2>2. Behind(h, i) # Behind(h, p)
    BY <1>1, <1>4, BehindInjective
  <2>3. QED
    BY <1>0, <1>1, <1>2, <2>1, <2>2
<1>5. ASSUME NEW i \in 1 .. Size PROVE r[Behind(h, i)] < v /\ r[Behind(h, i)] \in Nat
  BY <1>0, <1>1, BehindValue
<1> HIDE DEF p
<1>6. m = IF p <= n THEN p - 1 ELSE n
  BY DEF p
<1>7. Ordered(q, h, m)
  <2>1. Ordered(r, h, m)
    BY <1>1, OrderedPart DEF AreIntact
  <2>2. ASSUME NEW i \in 1 .. m PROVE q[Behind(h, i)] = r[Behind(h, i)]
    <3>1. i \in 1 .. Size /\ i # p
      BY <1>1
    <3>2. QED
      BY <1>4, <3>1
  <2>3. QED
    BY <2>1, <2>2 DEF Ordered
<1>8. ASSUME m < c, Ordered(q, h, m + 1) PROVE FALSE
  <2>1. CASE m + 1 = p
    <3>1. 1 \in 1 .. m + 1 /\ p \in 1 .. m + 1 /\ 1 < p /\ 1 \in 1 .. Size
      BY <1>1, <2>1
    <3>2. q[Behind(h, 1)] > q[Behind(h, p)]
      BY <1>8, <3>1 DEF Ordered
    <3>3. q[Behind(h, 1)] = r[Behind(h, 1)]
      BY <1>1, <1>4, <3>1
    <3>4. QED
      BY <1>3, <1>5, <3>1, <3>2, <3>3
  <2>2. CASE m + 1 # p
    <3>1. m = n /\ n + 1 < p
      BY <1>1, <1>6, <2>2
    <3>2. ASSUME NEW i \in 1 .. n + 1 PROVE q[Behind(h, i)] = r[Behind(h, i)]
      <4>1. i \in 1 .. Size /\ i # p
        BY <1>1, <3>1
      <4>2. QED
        BY <1>4, <4>1
    <3>3. Ordered(r, h, n + 1)
      BY <1>8, <3>1, <3>2 DEF Ordered
    <3>4. QED
      BY <1>8, <3>1, <3>3 DEF AreIntact
  <2>3. QED
    BY <2>1, <2>2
<1>9. AreIntact(q, h, c, m) /\ m \in 0 .. n
  BY <1>1, <1>7, <1>8 DEF AreIntact
<1>10. \A i \in 1 .. Size : i < p => q[Behind(h, i)] = r[Behind(h, i)]
  BY <1>1, <1>4
<1>11. QED
  BY <1>9, <1>10 DEF p

(* The log forgets what is cut off: only its oldest record when the header  *)
(* is up to date.                                                          *)
LEMMA CutLog ==
  ASSUME NEW r, NEW q, NEW h, NEW l, Overwrites(r, q, h, l), NEW c \in 0 .. Size
  PROVE  \/ Kept(q, h, c) = Kept(r, h, c)
         \/ l = 0 /\ Len(Kept(r, h, c)) = Size /\ Kept(q, h, c) = Tail(Kept(r, h, c))
         \/ l > 0 /\ Log!Recorded(Kept(q, h, c)) \subseteq Log!Recorded(Kept(r, h, c))
<1>1. Size \in Nat \ {0} /\ c \in Nat /\ l \in 0 .. Size - 2
  BY HistoryAssumption DEF Overwrites
<1>2. PICK n \in 0 .. c : AreIntact(r, h, c, n)
  BY <1>1, SomeIntact
<1> DEFINE m == IF Size - l <= n THEN Size - l - 1 ELSE n
           old == Kept(r, h, c)
           new == Kept(q, h, c)
<1>3. m = IF Size - l <= n THEN Size - l - 1 ELSE n
  OBVIOUS
<1> HIDE DEF m
<1>4. /\ m \in 0 .. n /\ AreIntact(q, h, c, m)
      /\ \A i \in 1 .. Size : i < Size - l => q[Behind(h, i)] = r[Behind(h, i)]
  BY <1>2, <1>3, CutOff
<1>5. m \in 0 .. c /\ m < Size - l /\ n \in Nat /\ m \in Nat
  BY <1>1, <1>3, <1>4
<1>6. /\ old = [i \in 1 .. n |-> r[Behind(h, n + 1 - i)]]
      /\ Len(old) = n /\ DOMAIN old = 1 .. n
  BY <1>1, <1>2, KeptValue
<1>7. /\ new = [i \in 1 .. m |-> q[Behind(h, m + 1 - i)]]
      /\ Len(new) = m /\ DOMAIN new = 1 .. m
  BY <1>1, <1>4, <1>5, KeptValue
<1> HIDE DEF old, new
<1>8. new = [i \in 1 .. m |-> old[i + (n - m)]]
  <2>1. ASSUME NEW i \in 1 .. m PROVE q[Behind(h, m + 1 - i)] = old[i + (n - m)]
    <3>1. m + 1 - i \in 1 .. Size /\ m + 1 - i < Size - l
      BY <1>1, <1>5
    <3>2. i + (n - m) \in 1 .. n /\ n + 1 - (i + (n - m)) = m + 1 - i
      BY <1>4, <1>5
    <3>3. old[i + (n - m)] = r[Behind(h, m + 1 - i)]
      BY <1>6, <3>2
    <3>4. QED
      BY <1>4, <3>1, <3>3
  <2>2. QED
    BY <1>7, <2>1
<1>9. CASE m = n
  <2>1. \A i \in 1 .. n : i + (n - m) = i
    BY <1>5, <1>9
  <2>2. new = [i \in 1 .. n |-> old[i]]
    BY <1>8, <1>9, <2>1
  <2>3. old = [i \in 1 .. n |-> old[i]]
    BY <1>6
  <2>4. QED
    BY <2>2, <2>3 DEF new, old
<1>10. CASE m # n /\ l = 0
  <2>1. n = Size /\ m = n - 1 /\ n - m = 1
    BY <1>1, <1>3, <1>5, <1>10
  <2>2. new = [i \in 1 .. n - 1 |-> old[i + 1]]
    BY <1>8, <2>1
  <2>3. Tail(old) = [i \in 1 .. n - 1 |-> old[i + 1]]
    <3>1. ASSUME NEW i \in 1 .. n PROVE r[Behind(h, n + 1 - i)] \in Nat
      BY <1>1, <1>5, <2>1, BehindValue DEF Overwrites
    <3>2. old \in Seq(Nat) /\ Len(old) = n /\ n > 0
      BY <1>1, <1>5, <1>6, <2>1, <3>1
    <3>3. /\ Tail(old) \in Seq(Nat) /\ Len(Tail(old)) = n - 1
          /\ \A i \in 1 .. n - 1 : Tail(old)[i] = old[i + 1]
      BY <3>2, HeadTailProperties
    <3>4. Tail(old) \in [1 .. n - 1 -> Nat]
      BY <3>3, LenProperties
    <3>5. QED
      BY <3>3, <3>4
  <2>4. QED
    BY <1>6, <1>10, <2>1, <2>2, <2>3 DEF new, old
<1>11. CASE l > 0
  <2>1. ASSUME NEW e \in Log!Recorded(new) PROVE e \in Log!Recorded(old)
    <3>1. PICK i \in 1 .. m : e = new[i]
      BY <1>7 DEF Log!Recorded
    <3>2. i + (n - m) \in DOMAIN old /\ e = old[i + (n - m)]
      BY <1>4, <1>5, <1>6, <1>8, <3>1
    <3>3. QED
      BY <3>2 DEF Log!Recorded
  <2>2. QED
    BY <1>11, <2>1 DEF new, old
<1>12. QED
  BY <1>1, <1>9, <1>10, <1>11

(* The write of a record, the header's being still to come.                 *)
LEMMA OverwrittenLog ==
  ASSUME HistoryTypeOK, NoneFromTheFuture, LogInv, Failures + 1 < Size,
         found, pc \in {"boot", "idle"}, issued' = issued + 1,
         ring' = [ring EXCEPT ![head] = issued'],
         UNCHANGED <<header, failures, clearFailed>>
  PROVE  [Log!LogNext]_(Log!logVars)
<1> DEFINE h == header.head
           c == header.count
           old == Kept(ring, h, c)
           new == Kept(ring', h, c)
<1>1. CASE clearFailed
  BY <1>1 DEF Log!LogNext, Trust
<1>2. CASE ~clearFailed
  <2>1. PICK l \in 0 .. failures : AheadBy(l)
    BY <1>2 DEF LogInv
  <2>2. /\ ring \in [Slots -> Nat] /\ h \in Slots /\ c \in 0 .. Size
        /\ Size \in Nat \ {0} /\ failures \in Nat /\ failures <= Failures /\ Failures \in Nat
        /\ issued \in Nat
    BY RingTypes, HistoryAssumption DEF HistoryTypeOK
  <2>3. l \in 0 .. Size - 2 /\ issued' \in Nat /\ \A s \in Slots : ring[s] < issued'
    BY <2>2 DEF NoneFromTheFuture
  <2>4. Overwrites(ring, ring', h, l)
    BY <2>1, <2>2, <2>3 DEF AheadBy, Overwrites
  <2>5. \/ new = old
        \/ l = 0 /\ Len(old) = Size /\ new = Tail(old)
        \/ l > 0 /\ Log!Recorded(new) \subseteq Log!Recorded(old)
    <3> DEFINE q == ring'
    <3>1. Overwrites(ring, q, h, l)
      BY <2>4
    <3> HIDE DEF q
    <3>2. \/ Kept(q, h, c) = Kept(ring, h, c)
          \/ l = 0 /\ Len(Kept(ring, h, c)) = Size /\ Kept(q, h, c) = Tail(Kept(ring, h, c))
          \/ l > 0 /\ Log!Recorded(Kept(q, h, c)) \subseteq Log!Recorded(Kept(ring, h, c))
      BY <2>2, <3>1, CutLog
    <3>3. QED
      BY <3>2 DEF q
  <2>6. Trust' = Trust /\ Kept(ring', header'.head, header'.count) = new
    BY DEF Trust
  <2>7. CASE new = old
    BY <2>6, <2>7 DEF Log!logVars
  <2>8. CASE Len(old) = Size /\ new = Tail(old)
    BY <2>6, <2>8 DEF Log!LogNext, Log!Forget
  <2>9. CASE l > 0 /\ Log!Recorded(new) \subseteq Log!Recorded(old)
    <3>1. Trust = "lossy"
      BY <1>2, <2>2, <2>9 DEF Trust
    <3>2. \A i, j \in DOMAIN new : i < j => new[i] < new[j]
      <4>1. ring' \in [Slots -> Nat]
        BY <2>2, <2>3
      <4>2. QED
        BY <2>2, <4>1, KeptSorted
    <3>3. Log!Damage
      BY <2>6, <2>9, <3>1, <3>2 DEF Log!Damage
    <3>4. QED
      BY <3>3 DEF Log!LogNext
  <2>10. QED
    BY <2>5, <2>7, <2>8, <2>9
<1>3. QED
  BY <1>1, <1>2

(* The header at slot h is to move l slots on, to g, past new records.      *)
CatchesUp(r, h, g, l) ==
  /\ r \in [Slots -> Nat] /\ h \in Slots /\ l \in 1 .. Size - 1
  /\ g = (h + l) % Size /\ Fresh(r, g, l)

(* What lies behind g is what lies behind h, past the l new records.        *)
LEMMA Shifted ==
  ASSUME NEW r, NEW h, NEW g, NEW l, CatchesUp(r, h, g, l)
  PROVE  /\ g \in Slots
         /\ \A k \in 1 .. Size :
              Behind(h, k) = IF l + k <= Size THEN Behind(g, l + k) ELSE Behind(g, l + k - Size)
<1>1. /\ Size \in Nat \ {0} /\ h \in Slots /\ h \in 0 .. Size - 1 /\ l \in 1 .. Size - 1
      /\ l \in 0 .. Size
  BY HistoryAssumption DEF CatchesUp, Slots
<1>2. g \in Slots /\ g = IF h + l < Size THEN h + l ELSE h + l - Size
  BY <1>1, AheadValue DEF CatchesUp
<1>3. ASSUME NEW k \in 1 .. Size
      PROVE  Behind(h, k) = IF l + k <= Size THEN Behind(g, l + k) ELSE Behind(g, l + k - Size)
  <2>1. Behind(h, k) = IF k <= h THEN h - k ELSE h + Size - k
    BY <1>1, BehindValue
  <2>2. CASE l + k <= Size
    <3> DEFINE i == l + k
    <3>1. i \in 1 .. Size /\ i = l + k
      BY <1>1, <2>2
    <3> HIDE DEF i
    <3>2. Behind(g, i) = IF i <= g THEN g - i ELSE g + Size - i
      BY <1>2, <3>1, BehindValue
    <3>3. Behind(h, k) = Behind(g, i)
      BY <1>1, <1>2, <2>1, <3>1, <3>2
    <3>4. QED
      BY <2>2, <3>3 DEF i
  <2>3. CASE ~(l + k <= Size)
    <3> DEFINE i == l + k - Size
    <3>1. i \in 1 .. Size /\ i = l + k - Size
      BY <1>1, <2>3
    <3> HIDE DEF i
    <3>2. Behind(g, i) = IF i <= g THEN g - i ELSE g + Size - i
      BY <1>2, <3>1, BehindValue
    <3>3. Behind(h, k) = Behind(g, i)
      BY <1>1, <1>2, <2>1, <3>1, <3>2
    <3>4. QED
      BY <2>3, <3>3 DEF i
  <2>4. QED
    BY <2>2, <2>3
<1>4. QED
  BY <1>2, <1>3

(* Records in order behind g are in order behind h. *)
LEMMA OrderShifts ==
  ASSUME NEW r, NEW h, NEW g, NEW l, CatchesUp(r, h, g, l),
         NEW n \in Nat, l + n <= Size, Ordered(r, g, l + n)
  PROVE  Ordered(r, h, n)
<1>1. l \in 1 .. Size - 1 /\ Size \in Nat
  BY HistoryAssumption DEF CatchesUp
<1>2. ASSUME NEW i \in 1 .. n, NEW j \in 1 .. n, i < j
      PROVE  r[Behind(h, i)] > r[Behind(h, j)]
  <2>1. /\ l + i \in 1 .. l + n /\ l + j \in 1 .. l + n /\ l + i < l + j
        /\ i \in 1 .. Size /\ j \in 1 .. Size /\ l + i <= Size /\ l + j <= Size
    BY <1>1, <1>2
  <2>2. r[Behind(g, l + i)] > r[Behind(g, l + j)]
    BY <2>1 DEF Ordered
  <2>3. Behind(h, i) = Behind(g, l + i) /\ Behind(h, j) = Behind(g, l + j)
    BY <2>1, Shifted
  <2>4. QED
    BY <2>2, <2>3
<1>3. QED
  BY <1>2 DEF Ordered

(* The new records are newer than all that is intact behind h.              *)
LEMMA NewerThanIntact ==
  ASSUME NEW r, NEW h, NEW g, NEW l, CatchesUp(r, h, g, l),
         NEW n \in 0 .. Size, Ordered(r, h, n), NEW i \in 1 .. l, NEW k \in 1 .. n
  PROVE  r[Behind(h, k)] < r[Behind(g, i)]
<1>1. /\ Size \in Nat \ {0} /\ l \in 1 .. Size - 1 /\ i \in 1 .. Size /\ k \in 1 .. Size
      /\ 1 \in 1 .. Size /\ l + 1 \in 1 .. Size /\ r \in [Slots -> Nat] /\ g \in Slots
      /\ h \in Slots /\ n \in Nat
  BY HistoryAssumption, Shifted DEF CatchesUp
<1>2. r[Behind(g, i)] \in Nat /\ r[Behind(h, k)] \in Nat /\ r[Behind(h, 1)] \in Nat
  BY <1>1, BehindValue
<1>3. CASE l + k <= Size
  <2>1. Behind(h, k) = Behind(g, l + k)
    BY <1>1, <1>3, Shifted
  <2>2. l + k \in 1 .. Size /\ i < l + k
    BY <1>1, <1>3
  <2>3. r[Behind(g, i)] > r[Behind(g, l + k)]
    BY <2>2 DEF CatchesUp, Fresh
  <2>4. QED
    BY <1>2, <2>1, <2>3
<1>4. CASE ~(l + k <= Size)
  <2> DEFINE j == l + k - Size
  <2>1. j \in 1 .. l /\ j < l + 1 /\ Behind(h, k) = Behind(g, j)
    BY <1>1, <1>4, Shifted
  <2> HIDE DEF j
  <2>2. r[Behind(g, j)] > r[Behind(g, l + 1)]
    BY <1>1, <2>1 DEF CatchesUp, Fresh
  <2>3. Behind(g, l + 1) = Behind(h, 1)
    BY <1>1, Shifted
  <2>4. 1 < k /\ 1 \in 1 .. n
    BY <1>1, <1>4
  <2>5. r[Behind(h, 1)] > r[Behind(h, k)]
    BY <2>4 DEF Ordered
  <2>6. QED
    BY <1>2, <2>1, <2>2, <2>3, <2>5
<1>5. QED
  BY <1>3, <1>4

(* The header moves on: what is new to the log is newer than all it held.   *)
LEMMA CaughtUpLog ==
  ASSUME NEW r, NEW h, NEW g, NEW l, CatchesUp(r, h, g, l), NEW c \in 0 .. Size,
         NEW e \in Log!Recorded(Kept(r, g, Capped(c + l))) \ Log!Recorded(Kept(r, h, c)),
         NEW k \in DOMAIN Kept(r, h, c)
  PROVE  Kept(r, h, c)[k] < e
<1> DEFINE old == Kept(r, h, c)
           d == Capped(c + l)
           new == Kept(r, g, d)
<1>1. /\ Size \in Nat \ {0} /\ c \in Nat /\ l \in 1 .. Size - 1 /\ l \in Nat
      /\ d \in 0 .. Size /\ d \in Nat /\ d <= c + l
  BY HistoryAssumption DEF CatchesUp, Capped
<1>2. PICK n \in 0 .. c : AreIntact(r, h, c, n)
  BY <1>1, SomeIntact
<1> HIDE DEF d
<1>3. PICK m \in 0 .. d : AreIntact(r, g, d, m)
  BY <1>1, SomeIntact
<1>4. old = [i \in 1 .. n |-> r[Behind(h, n + 1 - i)]] /\ DOMAIN old = 1 .. n
  BY <1>1, <1>2, KeptValue
<1>5. new = [i \in 1 .. m |-> r[Behind(g, m + 1 - i)]] /\ DOMAIN new = 1 .. m
  BY <1>1, <1>3, KeptValue
<1> HIDE DEF old, new
<1>6. e \in Log!Recorded(new) /\ e \notin Log!Recorded(old) /\ k \in DOMAIN old
  BY DEF old, new, d
<1>7. PICK i \in 1 .. m : e = new[i]
  BY <1>5, <1>6 DEF Log!Recorded
<1> DEFINE j == m + 1 - i
<1>8. j \in 1 .. m /\ j = m + 1 - i /\ e = r[Behind(g, j)]
  BY <1>1, <1>3, <1>5, <1>7
<1> HIDE DEF j
<1>9. n + 1 - k \in 1 .. n /\ old[k] = r[Behind(h, n + 1 - k)] /\ n \in 0 .. Size
  BY <1>1, <1>4, <1>6
<1>10. CASE j <= l
  <2>1. j \in 1 .. l
    BY <1>1, <1>8, <1>10
  <2>2. r[Behind(h, n + 1 - k)] < r[Behind(g, j)]
    BY <1>2, <1>9, <2>1, NewerThanIntact DEF AreIntact
  <2>3. QED
    BY <1>8, <1>9, <2>2 DEF old
<1>11. CASE ~(j <= l)
  <2> DEFINE a == j - l
  <2>1. /\ a \in 1 .. c /\ a \in Nat /\ a \in 1 .. Size /\ l + a = j /\ l + a <= Size
        /\ j \in Nat /\ m \in Nat /\ j <= m
    BY <1>1, <1>3, <1>8, <1>11
  <2> HIDE DEF a
  <2>2. Ordered(r, g, l + a)
    BY <1>3, <2>1, OrderedPart DEF AreIntact
  <2>3. Ordered(r, h, a)
    BY <2>1, <2>2, OrderShifts
  <2>4. a <= n /\ a \in 1 .. n
    BY <1>1, <1>2, <2>1, <2>3, IntactOnly
  <2>5. Behind(h, a) = Behind(g, j)
    BY <2>1, Shifted
  <2>6. n + 1 - a \in 1 .. n /\ n + 1 - (n + 1 - a) = a
    BY <2>4
  <2>7. old[n + 1 - a] = e
    BY <1>4, <1>8, <2>5, <2>6
  <2>8. QED
    BY <1>4, <1>6, <2>6, <2>7 DEF Log!Recorded
<1>12. QED
  BY <1>10, <1>11

(* One new record, which the log had not: it is appended.                   *)
LEMMA AppendedLog ==
  ASSUME NEW r, NEW h, NEW g, CatchesUp(r, h, g, 1), NEW c \in 0 .. Size
  PROVE  LET old == Kept(r, h, c) IN
         /\ Len(old) < Size
         /\ \A k \in DOMAIN old : old[k] < r[h]
         /\ Kept(r, g, Capped(c + 1)) = Append(old, r[h])
<1> DEFINE old == Kept(r, h, c)
           d == Capped(c + 1)
           new == Kept(r, g, d)
<1>1. /\ Size \in Nat \ {0, 1} /\ c \in Nat /\ h \in Slots /\ g \in Slots
      /\ d \in 0 .. Size /\ d \in Nat /\ d = IF c < Size THEN c + 1 ELSE Size
      /\ r \in [Slots -> Nat]
  BY HistoryAssumption, Shifted DEF CatchesUp, Capped
<1>2. PICK n \in 0 .. c : AreIntact(r, h, c, n)
  BY <1>1, SomeIntact
<1>3. n \in Nat /\ n <= c /\ n \in 0 .. Size /\ Ordered(r, h, n)
  BY <1>1, <1>2 DEF AreIntact
<1>4. old = [i \in 1 .. n |-> r[Behind(h, n + 1 - i)]] /\ Len(old) = n /\ DOMAIN old = 1 .. n
  BY <1>1, <1>2, KeptValue
<1> HIDE DEF d, old
<1>5. Behind(g, 1) = h
  <2>1. 1 \in 0 .. Size - 1 /\ 0 \in 0 .. Size - 1 /\ Size \in 1 .. Size /\ ~(1 + Size <= Size)
        /\ 1 + Size - Size = 1 /\ Size - 0 = Size
    BY <1>1
  <2>2. Behind(h, Size) = Behind(g, 1)
    BY <2>1, Shifted
  <2>3. Behind(h, Size - 0) = (h + 0) % Size
    BY <1>1, <2>1, AheadIsBehind
  <2>4. h + 0 = h /\ h \in 0 .. 2 * Size - 1 /\ h < Size
    BY <1>1 DEF Slots
  <2>5. h % Size = h
    BY <2>4, Wrap
  <2>6. QED
    BY <2>1, <2>2, <2>3, <2>4, <2>5
<1>6. ASSUME NEW k \in 1 .. n PROVE r[Behind(h, k)] < r[h]
  <2>1. 1 \in 1 .. 1
    OBVIOUS
  <2>2. r[Behind(h, k)] < r[Behind(g, 1)]
    BY <1>3, <2>1, NewerThanIntact
  <2>3. QED
    BY <1>5, <2>2
<1>7. n < Size
  <2> SUFFICES ASSUME n = Size PROVE FALSE
    BY <1>1, <1>3
  <2>1. Size \in 1 .. n /\ ~(1 + Size <= Size) /\ 1 + Size - Size = 1 /\ Size \in 1 .. Size
    BY <1>1
  <2>2. Behind(h, Size) = h
    BY <1>5, <2>1, Shifted
  <2>3. r[h] < r[h] /\ r[h] \in Nat
    BY <1>1, <1>6, <2>1, <2>2
  <2>4. QED
    BY <2>3
<1>8. ASSUME NEW k \in 1 .. n PROVE Behind(h, k) = Behind(g, k + 1)
  <2>1. k \in 1 .. Size /\ 1 + k <= Size /\ 1 + k = k + 1
    BY <1>1, <1>3, <1>7
  <2>2. QED
    BY <2>1, Shifted
<1>9. Ordered(r, g, n + 1)
  <2>1. ASSUME NEW i \in 1 .. n + 1, NEW j \in 1 .. n + 1, i < j
        PROVE  r[Behind(g, i)] > r[Behind(g, j)]
    <3>1. j - 1 \in 1 .. n /\ (j - 1) + 1 = j /\ n \in Nat
      BY <1>3, <2>1
    <3>2. Behind(g, j) = Behind(h, j - 1)
      BY <1>8, <3>1
    <3>3. CASE i = 1
      <4>1. r[Behind(h, j - 1)] < r[h]
        BY <1>6, <3>1
      <4>2. QED
        BY <1>5, <3>2, <3>3, <4>1
    <3>4. CASE i # 1
      <4>1. i - 1 \in 1 .. n /\ (i - 1) + 1 = i /\ i - 1 < j - 1
        BY <1>3, <2>1, <3>4
      <4>2. Behind(g, i) = Behind(h, i - 1)
        BY <1>8, <4>1
      <4>3. r[Behind(h, i - 1)] > r[Behind(h, j - 1)]
        BY <1>3, <3>1, <4>1 DEF Ordered
      <4>4. QED
        BY <3>2, <4>2, <4>3
    <3>5. QED
      BY <3>3, <3>4
  <2>2. QED
    BY <2>1 DEF Ordered
<1>10. ASSUME n + 1 < d, Ordered(r, g, (n + 1) + 1) PROVE FALSE
  <2>1. n < c /\ n + 1 \in Nat /\ 1 + (n + 1) <= Size /\ 1 + (n + 1) = (n + 1) + 1
    BY <1>1, <1>3, <1>10
  <2>2. Ordered(r, h, n + 1)
    BY <1>10, <2>1, OrderShifts
  <2>3. QED
    BY <1>2, <2>1, <2>2 DEF AreIntact
<1> DEFINE m == n + 1
<1>11. m \in 0 .. d /\ m = n + 1
  BY <1>1, <1>3, <1>7
<1>12. AreIntact(r, g, d, m)
  BY <1>9, <1>10, <1>11 DEF AreIntact
<1> HIDE DEF m
<1>13. new = [i \in 1 .. m |-> r[Behind(g, m + 1 - i)]]
  <2>1. d \in Nat /\ m \in 0 .. d
    BY <1>1, <1>11
  <2>2. QED
    BY <1>12, <2>1, KeptValue
<1>14. ASSUME NEW i \in 1 .. m
       PROVE  r[Behind(g, m + 1 - i)] = IF i = n + 1 THEN r[h] ELSE old[i]
  <2>1. CASE i = n + 1
    <3>1. m + 1 - i = 1
      BY <1>3, <1>11, <2>1
    <3>2. QED
      BY <1>5, <2>1, <3>1
  <2>2. CASE i # n + 1
    <3>1. i \in 1 .. n /\ n + 1 - i \in 1 .. n /\ (n + 1 - i) + 1 = m + 1 - i
      BY <1>3, <1>11, <2>2
    <3>2. Behind(h, n + 1 - i) = Behind(g, m + 1 - i)
      BY <1>8, <3>1
    <3>3. QED
      BY <1>4, <2>2, <3>1, <3>2
  <2>3. QED
    BY <2>1, <2>2
<1>15. Append(old, r[h]) = [i \in 1 .. m |-> IF i = n + 1 THEN r[h] ELSE old[i]]
  <2>1. ASSUME NEW i \in 1 .. n PROVE r[Behind(h, n + 1 - i)] \in Nat
    <3>1. n + 1 - i \in 1 .. Size
      BY <1>1, <1>3
    <3>2. QED
      BY <1>1, <3>1, BehindValue
  <2>2. old \in Seq(Nat) /\ Len(old) = n /\ r[h] \in Nat
    BY <1>1, <1>3, <1>4, <2>1
  <2>3. /\ Append(old, r[h]) \in Seq(Nat) /\ Len(Append(old, r[h])) = n + 1
        /\ \A i \in 1 .. n : Append(old, r[h])[i] = old[i]
        /\ Append(old, r[h])[n + 1] = r[h]
    BY <2>2, AppendProperties
  <2>4. Append(old, r[h]) \in [1 .. n + 1 -> Nat]
    BY <2>3, LenProperties
  <2>5. \A i \in 1 .. n + 1 : i \in 1 .. n \/ i = n + 1
    BY <1>3
  <2>6. QED
    BY <1>11, <2>3, <2>4, <2>5
<1>16. new = Append(old, r[h])
  BY <1>13, <1>14, <1>15
<1>17. \A k \in DOMAIN old : old[k] < r[h]
  <2>1. ASSUME NEW k \in 1 .. n PROVE old[k] < r[h]
    <3>1. n + 1 - k \in 1 .. n /\ old[k] = r[Behind(h, n + 1 - k)]
      BY <1>3, <1>4
    <3>2. QED
      BY <1>6, <3>1
  <2>2. QED
    BY <1>4, <2>1
<1>18. QED
  BY <1>4, <1>7, <1>16, <1>17 DEF old, d

(* The header is written: the log catches up with RAM. *)
LEMMA CommittedLog ==
  ASSUME HistoryTypeOK, HistoryTypeOK', LogInv, Failures + 1 < Size, pc = "header",
         header' = [valid |-> TRUE, head |-> head, count |-> count],
         UNCHANGED <<ring, failures, clearFailed>>
  PROVE  [Log!LogNext]_(Log!logVars)
<1> DEFINE h == header.head
           c == header.count
           old == Kept(ring, h, c)
<1>1. CASE clearFailed
  BY <1>1 DEF Log!LogNext, Trust
<1>2. CASE ~clearFailed
  <2>1. PICK l \in 1 .. failures + 1 : AheadBy(l)
    BY <1>2 DEF LogInv
  <2>2. /\ ring \in [Slots -> 0 .. Last] /\ ring \in [Slots -> Nat] /\ h \in Slots
        /\ c \in 0 .. Size /\ Size \in Nat \ {0} /\ failures \in Nat
        /\ failures <= Failures /\ Failures \in Nat /\ Last \in Nat
        /\ head \in Slots /\ count \in 0 .. Size
    BY RingTypes, HistoryAssumption DEF HistoryTypeOK
  <2>3. CatchesUp(ring, h, head, l) /\ count = Capped(c + l)
    BY <2>1, <2>2 DEF AheadBy, CatchesUp
  <2>4. Kept(ring', header'.head, header'.count) = Kept(ring, head, Capped(c + l))
    BY <2>3
  <2>5. Trust' = Trust
    BY DEF Trust
  <2>6. CASE failures = 0
    <3>1. l = 1 /\ Trust = "sound"
      BY <1>2, <2>2, <2>6 DEF Trust
    <3>2. /\ Len(old) < Size /\ \A k \in DOMAIN old : old[k] < ring[h]
          /\ Kept(ring, head, Capped(c + 1)) = Append(old, ring[h])
      BY <2>2, <2>3, <3>1, AppendedLog
    <3>3. ring[h] \in 1 .. Last
      <4>1. 1 \in 1 .. 1 /\ 1 \in 1 .. Size /\ 2 \in 1 .. Size /\ 1 < 2 /\ Size \in 1 .. Size
            /\ ~(1 + Size <= Size) /\ 1 + Size - Size = 1
        BY <2>2, HistoryAssumption
      <4>2. ring[Behind(head, 1)] > ring[Behind(head, 2)]
        BY <2>3, <3>1, <4>1 DEF CatchesUp, Fresh
      <4>3. Behind(head, 1) \in Slots /\ Behind(head, 2) \in Slots
        BY <2>2, <4>1, BehindValue
      <4>4. ring[Behind(head, 1)] \in 1 .. Last
        BY <2>2, <4>2, <4>3
      <4>5. Behind(head, 1) = h
        <5>1. Behind(h, Size) = Behind(head, 1)
          BY <2>3, <3>1, <4>1, Shifted
        <5>2. 0 \in 0 .. Size - 1 /\ Size - 0 = Size /\ h + 0 = h
              /\ h \in 0 .. 2 * Size - 1 /\ h < Size
          BY <2>2 DEF Slots
        <5> HIDE DEF h
        <5>3. Behind(h, Size - 0) = (h + 0) % Size
          BY <2>2, <5>2, AheadIsBehind
        <5>4. h % Size = h
          BY <5>2, Wrap
        <5>5. QED
          BY <5>1, <5>2, <5>3, <5>4
      <4>6. QED
        BY <4>4, <4>5
    <3>4. Log!Add(ring[h])
      BY <2>4, <2>5, <3>1, <3>2 DEF Log!Add
    <3>5. QED
      BY <3>3, <3>4 DEF Log!LogNext
  <2>7. CASE failures > 0
    <3> DEFINE new == Kept(ring, head, Capped(c + l))
    <3>1. Trust = "lossy"
      BY <1>2, <2>7 DEF Trust
    <3>2. \A i, j \in DOMAIN new : i < j => new[i] < new[j]
      BY <2>2, <2>3, KeptSorted
    <3>3. \A e \in Log!Recorded(new) \ Log!Recorded(old) : \A k \in DOMAIN old : old[k] < e
      BY <2>2, <2>3, CaughtUpLog
    <3>4. Log!Damage
      BY <2>4, <2>5, <3>1, <3>2, <3>3 DEF Log!Damage
    <3>5. QED
      BY <3>4 DEF Log!LogNext
  <2>8. QED
    BY <2>2, <2>6, <2>7
<1>3. QED
  BY <1>1, <1>2

LEMMA LogStep ==
  ASSUME HistoryInv, HistoryInv', LogInv, Failures + 1 < Size, [HistoryNext]_historyVars
  PROVE  [Log!LogNext]_(Log!logVars)
<1>1. CASE DetectEeprom
  BY <1>1, UntouchedLog DEF DetectEeprom, NoEeprom, Load, NoHeader, BusFails, HistoryInv
<1>2. CASE Format \/ ClearHistory
  BY <1>2, EmptiedLog DEF Format, ClearHistory, HistoryInv
<1>3. CASE AddRecord
  BY <1>3, UntouchedLog, OverwrittenLog DEF AddRecord, BusFails, HistoryInv
<1>4. CASE EndRecord
  <2>1. CASE header' = [valid |-> TRUE, head |-> head', count |-> count'] /\ UNCHANGED failures
    BY <1>4, <2>1, CommittedLog DEF EndRecord, ram, HistoryInv
  <2>2. CASE BusFails /\ UNCHANGED header
    BY <1>4, <2>2, UntouchedLog DEF EndRecord, ram, BusFails, HistoryInv
  <2>3. QED
    BY <1>4, <2>1, <2>2 DEF EndRecord, WriteHeader
<1>5. CASE CutPower \/ UNCHANGED historyVars
  BY <1>5, UntouchedLog DEF CutPower, historyVars, HistoryInv
<1>6. QED
  BY <1>1, <1>2, <1>3, <1>4, <1>5 DEF HistoryNext

-------------------------------------------------------------------------------
(* The theorems *)

(* Head and count stay within the ring, in RAM and in the EEPROM, and no     *)
(* more failures are counted than there may be (addHistoryRecord,            *)
(* clearHistory, initHistory).                                              *)
THEOREM HistoryTypeCorrect == HistorySpec => []HistoryTypeOK
BY Inductive, PTL DEF HistoryInv

(* "returns newest-first JSON" (getHistoryJson): over cuts between the two  *)
(* writes of a record and lost headers, unless a clearing was lost.         *)
THEOREM ListsNewestFirst == HistorySpec => []NewestFirst
<1>1. HistoryInv => NewestFirst
  <2> SUFFICES ASSUME HistoryInv, pc = "idle", ~clearFailed PROVE Decreasing(Listing)
    BY DEF NewestFirst
  <2>1. /\ InOrder(head, count, Size - failures) /\ count \in Nat /\ Listed \in Nat
        /\ failures \in Nat /\ Size \in Nat /\ Listed <= Size - failures
    BY HistoryAssumption DEF HistoryInv, HistoryTypeOK, KeptInOrder
  <2> DEFINE n == IF count < Listed THEN count ELSE Listed
  <2>2. n \in Nat /\ n <= count /\ n <= Size - failures
    BY <2>1
  <2> HIDE DEF n
  <2>3. ASSUME NEW i \in 1 .. n, NEW j \in 1 .. n, i < j
        PROVE  ring[Behind(head, i)] > ring[Behind(head, j)]
    BY <2>1, <2>2, <2>3 DEF InOrder
  <2>4. Decreasing(Newest(ring, head, n))
    BY <2>3 DEF Decreasing, Newest, Behind
  <2>5. QED
    BY <2>4 DEF Listing, n
<1>2. QED
  BY <1>1, Inductive, PTL

(* The ring implements the log (addHistoryRecord, clearHistory,             *)
(* initHistory): whatever the moment of a power cut, it loses its oldest    *)
(* record at most, and only when it is full; with a bus that fails it may   *)
(* lose records, and still never reorders, repeats or revives one.  As many *)
(* headers may be lost as leave room for one record in the ring.            *)
THEOREM RingImplementsLog == Failures + 1 < Size => (HistorySpec => LogSpec)
<1> SUFFICES ASSUME Failures + 1 < Size PROVE HistorySpec => LogSpec
  OBVIOUS
<1>1. HistoryInit => Log!LogInit
  <2> SUFFICES ASSUME HistoryInit PROVE Log!LogInit
    OBVIOUS
  <2>1. header.count = 0
    BY DEF HistoryInit
  <2>2. AreIntact(ring, header.head, 0, 0)
    BY DEF AreIntact, Ordered
  <2>3. Kept(ring, header.head, 0) = [k \in 1 .. 0 |-> ring[Behind(header.head, 0 + 1 - k)]]
    BY <2>2, KeptValue
  <2>4. Kept(ring, header.head, header.count) = <<>>
    BY <2>1, <2>3
  <2>5. Trust = "sound"
    BY DEF HistoryInit, Trust
  <2>6. QED
    BY <2>4, <2>5 DEF Log!LogInit
<1>2. HistoryInv /\ HistoryInv' /\ LogInv /\ [HistoryNext]_historyVars
        => [Log!LogNext]_(Log!logVars)
  BY LogStep
<1>3. HistorySpec => [](HistoryInv /\ LogInv)
  BY LogInductive
<1>4. QED
  BY <1>1, <1>2, <1>3, PTL DEF HistorySpec, LogSpec, Log!LogSpec
===============================================================================
