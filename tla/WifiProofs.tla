------------------------------- MODULE WifiProofs -----------------------------
(***************************************************************************)
(* The WiFi task keeps its types, implements Uplink, strands the device by  *)
(* nothing but a factory reset, and tries the saved networks in the order   *)
(* of their priority, for every set of networks and commands, every limit   *)
(* and wherever the device may be.                                          *)
(***************************************************************************)
EXTENDS WifiManager, SequenceTheorems, TLAPS

(* NVS holds the list, unless a factory reset has just cleared it.          *)
Stored == nvs = networks \/ (resetting /\ nvs = <<>>)

(* No association outlives a reset. *)
Alone == pc = "boot" => station = NotAssociated

(* A round begins with the scan. *)
ScansFirst == scanning => tryIdx = 1 /\ attempts = 0

(* Unless the list was edited, the attempts of this round so far are all    *)
(* that the networks before tryIdx may have, those counted in attempts for  *)
(* the one in turn, and none for any other.                                *)
InTurn ==
  ~edited /\ ~cooldown =>
    /\ \A j \in DOMAIN networks :
         tries[networks[j]] = IF j < tryIdx THEN MaxAttempts
                              ELSE IF j = tryIdx THEN attempts ELSE 0
    /\ \A n \in SSIDs \ Saved(networks) : tries[n] = 0
    /\ IF networks = <<>> THEN tryIdx = 1 /\ attempts = 0 ELSE tryIdx <= Len(networks)

WifiInv == WifiTypeOK /\ Stored /\ Alone /\ ScansFirst /\ InTurn

-------------------------------------------------------------------------------
(* The list of networks *)

LEMMA PositionIn ==
  ASSUME NEW list, NEW n \in Saved(list)
  PROVE  Position(list, n) \in DOMAIN list /\ list[Position(list, n)] = n
<1>1. \E i \in DOMAIN list : list[i] = n
  BY DEF Saved
<1>2. QED
  BY <1>1 DEF Position

LEMMA WithoutValue ==
  ASSUME NEW list \in Seq(SSIDs), NEW i \in 1 .. Len(list)
  PROVE  /\ Without(list, i) \in Seq(SSIDs) /\ Len(Without(list, i)) = Len(list) - 1
         /\ \A j \in 1 .. Len(list) - 1 :
              Without(list, i)[j] = IF j < i THEN list[j] ELSE list[j + 1]
<1> DEFINE left == SubSeq(list, 1, i - 1)
           right == SubSeq(list, i + 1, Len(list))
<1>1. /\ left \in Seq(SSIDs) /\ Len(left) = i - 1
      /\ \A j \in 1 .. i - 1 : left[j] = list[j]
  <2>1. \A j \in 1 .. i - 1 : list[j] \in SSIDs
    BY ElementOfSeq
  <2>2. QED
    BY <2>1, SubSeqProperties
<1>2. /\ right \in Seq(SSIDs) /\ Len(right) = Len(list) - i
      /\ \A j \in 1 .. Len(list) - i : right[j] = list[i + j]
  <2>1. \A j \in i + 1 .. Len(list) : list[j] \in SSIDs
    BY ElementOfSeq
  <2>2. QED
    BY <2>1, SubSeqProperties
<1> HIDE DEF left, right
<1>3. /\ left \o right \in Seq(SSIDs) /\ Len(left \o right) = Len(left) + Len(right)
      /\ \A j \in 1 .. Len(left) + Len(right) :
           (left \o right)[j] = IF j <= Len(left) THEN left[j] ELSE right[j - Len(left)]
  BY <1>1, <1>2, ConcatProperties
<1>4. Len(left) + Len(right) = Len(list) - 1
  BY <1>1, <1>2
<1>5. ASSUME NEW j \in 1 .. Len(list) - 1
      PROVE  (left \o right)[j] = IF j < i THEN list[j] ELSE list[j + 1]
  <2>1. CASE j < i
    BY <1>1, <1>3, <1>4, <2>1
  <2>2. CASE ~(j < i)
    <3>1. j - (i - 1) \in 1 .. Len(list) - i /\ i + (j - (i - 1)) = j + 1
      BY <2>2
    <3>2. right[j - (i - 1)] = list[j + 1]
      BY <1>2, <3>1
    <3>3. QED
      BY <1>1, <1>3, <1>4, <2>2, <3>2
  <2>3. QED
    BY <2>1, <2>2
<1>6. Without(list, i) = left \o right
  BY DEF Without, left, right
<1>7. QED
  BY <1>3, <1>4, <1>5, <1>6

(* Without a network, the list has all others, each once. *)
LEMMA WithoutKeeps ==
  ASSUME NEW list \in Seq(SSIDs), Distinct(list), NEW n \in Saved(list)
  PROVE  LET rest == Without(list, Position(list, n)) IN
         /\ rest \in Seq(SSIDs) /\ Len(rest) = Len(list) - 1
         /\ Distinct(rest) /\ n \notin Saved(rest)
         /\ \A m \in Saved(list) \ {n} : m \in Saved(rest)
<1> DEFINE i == Position(list, n)
           rest == Without(list, i)
<1>1. i \in 1 .. Len(list) /\ list[i] = n /\ Len(list) \in Nat /\ DOMAIN list = 1 .. Len(list)
  BY PositionIn, LenProperties
<1> HIDE DEF i
<1>2. /\ rest \in Seq(SSIDs) /\ Len(rest) = Len(list) - 1
      /\ \A j \in 1 .. Len(list) - 1 : rest[j] = IF j < i THEN list[j] ELSE list[j + 1]
  BY <1>1, WithoutValue
<1> HIDE DEF rest
<1>3. DOMAIN rest = 1 .. Len(list) - 1
  BY <1>2, LenProperties
<1>4. ASSUME NEW j \in DOMAIN rest, NEW k \in DOMAIN rest, rest[j] = rest[k] PROVE j = k
  <2>1. /\ j \in 1 .. Len(list) /\ j + 1 \in 1 .. Len(list)
        /\ k \in 1 .. Len(list) /\ k + 1 \in 1 .. Len(list)
    BY <1>1, <1>3
  <2>2. /\ rest[j] = IF j < i THEN list[j] ELSE list[j + 1]
        /\ rest[k] = IF k < i THEN list[k] ELSE list[k + 1]
    BY <1>2, <1>3
  <2>3. \A u, v \in 1 .. Len(list) : list[u] = list[v] => u = v
    BY <1>1 DEF Distinct
  <2>4. CASE j < i /\ k < i
    BY <1>4, <2>1, <2>2, <2>3, <2>4
  <2>5. CASE j < i /\ ~(k < i)
    <3>1. j = k + 1
      BY <1>4, <2>1, <2>2, <2>3, <2>5
    <3>2. QED
      BY <1>1, <2>1, <2>5, <3>1
  <2>6. CASE ~(j < i) /\ k < i
    <3>1. j + 1 = k
      BY <1>4, <2>1, <2>2, <2>3, <2>6
    <3>2. QED
      BY <1>1, <2>1, <2>6, <3>1
  <2>7. CASE ~(j < i) /\ ~(k < i)
    <3>1. j + 1 = k + 1
      BY <1>4, <2>1, <2>2, <2>3, <2>7
    <3>2. QED
      BY <2>1, <3>1
  <2>8. QED
    BY <2>4, <2>5, <2>6, <2>7
<1>5. n \notin Saved(rest)
  <2>1. SUFFICES ASSUME NEW j \in DOMAIN rest, rest[j] = n PROVE FALSE
    BY DEF Saved
  <2>2. j \in 1 .. Len(list) /\ j + 1 \in 1 .. Len(list)
    BY <1>1, <1>3
  <2>3. rest[j] = IF j < i THEN list[j] ELSE list[j + 1]
    BY <1>2, <1>3
  <2>4. \A u, v \in 1 .. Len(list) : list[u] = list[v] => u = v
    BY <1>1 DEF Distinct
  <2>5. QED
    BY <1>1, <2>1, <2>2, <2>3, <2>4
<1>6. ASSUME NEW m \in Saved(list), m # n PROVE m \in Saved(rest)
  <2>1. PICK j \in 1 .. Len(list) : list[j] = m
    BY <1>1 DEF Saved
  <2>2. j # i
    BY <1>1, <1>6, <2>1
  <2>3. CASE j < i
    <3>1. j \in DOMAIN rest /\ rest[j] = m
      BY <1>1, <1>2, <1>3, <2>1, <2>3
    <3>2. QED
      BY <3>1 DEF Saved
  <2>4. CASE j > i
    <3>1. j - 1 \in 1 .. Len(list) - 1 /\ ~(j - 1 < i) /\ (j - 1) + 1 = j
      BY <1>1, <2>4
    <3>2. j - 1 \in DOMAIN rest /\ rest[j - 1] = m
      BY <1>2, <1>3, <2>1, <3>1
    <3>3. QED
      BY <3>2 DEF Saved
  <2>5. QED
    BY <1>1, <2>2, <2>3, <2>4
<1>7. Distinct(rest)
  BY <1>4 DEF Distinct
<1>8. QED
  BY <1>2, <1>5, <1>6, <1>7 DEF rest, i

LEMMA InsertValue ==
  ASSUME NEW rest \in Seq(SSIDs), NEW n \in SSIDs, NEW to \in 1 .. Len(rest) + 1
  PROVE  LET list == SubSeq(rest, 1, to - 1) \o <<n>> \o SubSeq(rest, to, Len(rest)) IN
         /\ list \in Seq(SSIDs) /\ Len(list) = Len(rest) + 1
         /\ \A j \in 1 .. Len(rest) + 1 :
              list[j] = IF j < to THEN rest[j] ELSE IF j = to THEN n ELSE rest[j - 1]
<1> DEFINE left == SubSeq(rest, 1, to - 1)
           right == SubSeq(rest, to, Len(rest))
           front == left \o <<n>>
           list == front \o right
<1>1. Len(rest) \in Nat /\ \A j \in 1 .. Len(rest) : rest[j] \in SSIDs
  BY LenProperties, ElementOfSeq
<1>2. /\ left \in Seq(SSIDs) /\ Len(left) = to - 1
      /\ \A j \in 1 .. to - 1 : left[j] = rest[j]
  <2>1. \A j \in 1 .. to - 1 : rest[j] \in SSIDs
    BY <1>1
  <2>2. QED
    BY <1>1, <2>1, SubSeqProperties
<1>3. /\ right \in Seq(SSIDs) /\ Len(right) = Len(rest) - to + 1
      /\ \A j \in 1 .. Len(rest) - to + 1 : right[j] = rest[to + j - 1]
  <2>1. \A j \in to .. Len(rest) : rest[j] \in SSIDs
    BY <1>1
  <2>2. QED
    BY <1>1, <2>1, SubSeqProperties
<1>4. <<n>> \in Seq(SSIDs) /\ Len(<<n>>) = 1 /\ <<n>>[1] = n
  OBVIOUS
<1> HIDE DEF left, right
<1>5. /\ front \in Seq(SSIDs) /\ Len(front) = Len(left) + Len(<<n>>)
      /\ \A j \in 1 .. Len(left) + Len(<<n>>) :
           front[j] = IF j <= Len(left) THEN left[j] ELSE <<n>>[j - Len(left)]
  BY <1>2, <1>4, ConcatProperties
<1>6. /\ Len(front) = to
      /\ \A j \in 1 .. to : front[j] = IF j < to THEN rest[j] ELSE n
  BY <1>1, <1>2, <1>4, <1>5
<1> HIDE DEF front
<1>7. /\ front \o right \in Seq(SSIDs) /\ Len(front \o right) = Len(front) + Len(right)
      /\ \A j \in 1 .. Len(front) + Len(right) :
           (front \o right)[j] = IF j <= Len(front) THEN front[j] ELSE right[j - Len(front)]
  <2>1. front \in Seq(SSIDs) /\ right \in Seq(SSIDs)
    BY <1>3, <1>5
  <2>2. QED
    BY <2>1, ConcatProperties
<1>8. Len(front) + Len(right) = Len(rest) + 1
  BY <1>1, <1>3, <1>6
<1>9. ASSUME NEW j \in 1 .. Len(rest) + 1
      PROVE  (front \o right)[j] = IF j < to THEN rest[j] ELSE IF j = to THEN n ELSE rest[j - 1]
  <2>1. CASE j <= to
    BY <1>1, <1>6, <1>7, <1>8, <2>1
  <2>2. CASE ~(j <= to)
    <3>1. j - to \in 1 .. Len(rest) - to + 1 /\ to + (j - to) - 1 = j - 1
      BY <1>1, <2>2
    <3>2. right[j - to] = rest[j - 1]
      BY <1>3, <3>1
    <3>3. QED
      BY <1>1, <1>6, <1>7, <1>8, <2>2, <3>2
  <2>3. QED
    BY <2>1, <2>2
<1>10. QED
  BY <1>7, <1>8, <1>9 DEF front, left, right

(* A network that changes its place takes nothing out of the list.          *)
LEMMA MovedKeeps ==
  ASSUME NEW list \in Seq(SSIDs), Distinct(list), NEW n \in Saved(list),
         NEW to \in 1 .. Len(list)
  PROVE  /\ Moved(list, n, to) \in Seq(SSIDs) /\ Len(Moved(list, n, to)) = Len(list)
         /\ Distinct(Moved(list, n, to))
         /\ \A m \in Saved(list) : m \in Saved(Moved(list, n, to))
<1> DEFINE rest == Without(list, Position(list, n))
           moved == SubSeq(rest, 1, to - 1) \o <<n>> \o SubSeq(rest, to, Len(rest))
<1>1. Moved(list, n, to) = moved
  BY DEF Moved
<1>2. /\ rest \in Seq(SSIDs) /\ Len(rest) = Len(list) - 1
      /\ Distinct(rest) /\ n \notin Saved(rest)
      /\ \A m \in Saved(list) \ {n} : m \in Saved(rest)
  BY WithoutKeeps
<1>3. n \in SSIDs /\ Len(list) \in Nat /\ Len(rest) \in Nat /\ Len(list) = Len(rest) + 1
  <2>1. n \in SSIDs
    BY ElementOfSeq, LenProperties DEF Saved
  <2>2. Len(list) \in Nat
    BY LenProperties
  <2>3. Len(rest) \in Nat
    BY <1>2, LenProperties
  <2>4. QED
    BY <1>2, <2>1, <2>2, <2>3
<1> HIDE DEF rest
<1>4. /\ moved \in Seq(SSIDs) /\ Len(moved) = Len(rest) + 1
      /\ \A j \in 1 .. Len(rest) + 1 :
           moved[j] = IF j < to THEN rest[j] ELSE IF j = to THEN n ELSE rest[j - 1]
  <2>1. to \in 1 .. Len(rest) + 1
    BY <1>3
  <2>2. QED
    BY <1>2, <1>3, <2>1, InsertValue
<1> HIDE DEF moved
<1>5. DOMAIN moved = 1 .. Len(list) /\ DOMAIN rest = 1 .. Len(rest)
  BY <1>2, <1>3, <1>4, LenProperties
<1>6. \A j \in 1 .. Len(rest) : rest[j] # n
  BY <1>2, <1>5 DEF Saved
<1>7. \A u, v \in 1 .. Len(rest) : rest[u] = rest[v] => u = v
  BY <1>2, <1>5 DEF Distinct
<1>8. ASSUME NEW j \in 1 .. Len(list), NEW k \in 1 .. Len(list), j < k
      PROVE  moved[j] # moved[k]
  <2>1. /\ moved[j] = IF j < to THEN rest[j] ELSE IF j = to THEN n ELSE rest[j - 1]
        /\ moved[k] = IF k < to THEN rest[k] ELSE IF k = to THEN n ELSE rest[k - 1]
    BY <1>3, <1>4
  <2>2. k - 1 \in 1 .. Len(rest) /\ j \in 1 .. Len(rest)
    BY <1>3, <1>8
  <2>3. CASE k < to
    BY <1>3, <1>7, <1>8, <2>1, <2>2, <2>3
  <2>4. CASE k = to
    BY <1>6, <1>8, <2>1, <2>2, <2>4
  <2>5. CASE k > to /\ j < to
    BY <1>7, <1>8, <2>1, <2>2, <2>5
  <2>6. CASE k > to /\ j = to
    BY <1>6, <1>8, <2>1, <2>2, <2>6
  <2>7. CASE k > to /\ j > to
    <3>1. j - 1 \in 1 .. Len(rest)
      BY <1>3, <1>8, <2>7
    <3>2. j - 1 # k - 1
      BY <1>8
    <3>3. moved[j] = rest[j - 1] /\ moved[k] = rest[k - 1]
      BY <2>1, <2>7
    <3>4. QED
      BY <1>7, <2>2, <3>1, <3>2, <3>3
  <2>8. QED
    BY <1>3, <2>3, <2>4, <2>5, <2>6, <2>7
<1>9. Distinct(moved)
  BY <1>3, <1>5, <1>8 DEF Distinct
<1>10. n \in Saved(moved)
  <2>1. moved[to] = n
    BY <1>3, <1>4
  <2>2. QED
    BY <1>5, <2>1 DEF Saved
<1>11. ASSUME NEW m \in Saved(list), m # n PROVE m \in Saved(moved)
  <2>1. PICK j \in 1 .. Len(rest) : rest[j] = m
    BY <1>2, <1>5, <1>11 DEF Saved
  <2>2. CASE j < to
    <3>1. moved[j] = m /\ j \in 1 .. Len(list)
      BY <1>3, <1>4, <2>1, <2>2
    <3>2. QED
      BY <1>5, <3>1 DEF Saved
  <2>3. CASE j >= to
    <3>1. /\ j + 1 \in 1 .. Len(list) /\ j + 1 \in 1 .. Len(rest) + 1
          /\ ~(j + 1 < to) /\ j + 1 # to /\ (j + 1) - 1 = j
      BY <1>3, <2>3
    <3>2. moved[j + 1] = m
      BY <1>4, <2>1, <3>1
    <3>3. QED
      BY <1>5, <3>1, <3>2 DEF Saved
  <2>4. QED
    BY <2>2, <2>3
<1>12. QED
  BY <1>1, <1>3, <1>4, <1>9, <1>10, <1>11

LEMMA AppendKeeps ==
  ASSUME NEW list \in Seq(SSIDs), Distinct(list), NEW n \in SSIDs, n \notin Saved(list)
  PROVE  /\ Append(list, n) \in Seq(SSIDs) /\ Len(Append(list, n)) = Len(list) + 1
         /\ Distinct(Append(list, n))
         /\ \A j \in 1 .. Len(list) : Append(list, n)[j] = list[j]
         /\ Append(list, n)[Len(list) + 1] = n
         /\ DOMAIN Append(list, n) = 1 .. Len(list) + 1
         /\ Saved(Append(list, n)) = Saved(list) \cup {n}
<1>1. /\ Append(list, n) \in Seq(SSIDs) /\ Len(Append(list, n)) = Len(list) + 1
      /\ \A j \in 1 .. Len(list) : Append(list, n)[j] = list[j]
      /\ Append(list, n)[Len(list) + 1] = n
  BY AppendProperties
<1>2. Len(list) \in Nat /\ DOMAIN list = 1 .. Len(list)
  BY LenProperties
<1>3. DOMAIN Append(list, n) = 1 .. Len(list) + 1
  BY <1>1, LenProperties
<1>4. \A j \in 1 .. Len(list) : list[j] # n
  BY <1>2 DEF Saved
<1>5. 1 .. Len(list) + 1 = (1 .. Len(list)) \cup {Len(list) + 1}
  BY <1>2
<1>6. Distinct(Append(list, n))
  BY <1>1, <1>2, <1>3, <1>4, <1>5 DEF Distinct
<1>7. Saved(Append(list, n)) = Saved(list) \cup {n}
  BY <1>1, <1>2, <1>3, <1>5 DEF Saved
<1>8. QED
  BY <1>1, <1>3, <1>6, <1>7

-------------------------------------------------------------------------------
(* The commands *)

ListOK ==
  /\ networks \in Seq(SSIDs) /\ Len(networks) <= MaxNetworks /\ Distinct(networks)
  /\ Stored /\ resetting \in BOOLEAN

MachineOK ==
  /\ tryIdx \in 1 .. MaxNetworks + 1 /\ attempts \in 0 .. MaxAttempts
  /\ cooldown \in BOOLEAN /\ scanning \in BOOLEAN /\ elapsed \in BOOLEAN
  /\ tries \in [SSIDs -> 0 .. MaxAttempts] /\ edited \in BOOLEAN
  /\ ScansFirst /\ InTurn

RestOK ==
  /\ queue \in Seq(UserCommands) /\ Len(queue) <= QueueDepth
  /\ pc \in {"boot", "commands", "observe", "online", "reconnect"}
  /\ prevConnected \in BOOLEAN /\ apMode \in BOOLEAN
  /\ station \in [state: {"idle", "joining", "connected"}, ssid: SSIDs \cup {None}]
  /\ air \in Surroundings
  /\ Alone

LEMMA Parts == WifiInv <=> ListOK /\ MachineOK /\ RestOK
<1>1. WifiInv => ListOK /\ MachineOK /\ RestOK
  BY DEF WifiInv, WifiTypeOK, ListOK, MachineOK, RestOK
<1>2. ListOK => nvs \in Seq(SSIDs)
  BY EmptySeq DEF ListOK, Stored
<1>3. ListOK /\ MachineOK /\ RestOK => WifiTypeOK
  BY <1>2 DEF WifiTypeOK, ListOK, MachineOK, RestOK
<1>4. ListOK /\ MachineOK /\ RestOK => WifiInv
  BY <1>3 DEF WifiInv, ListOK, MachineOK, RestOK
<1>5. QED
  BY <1>1, <1>4

(* What the list keeps, but for the restart of a factory reset. *)
Retains ==
  \/ /\ networks # <<>> => networks' # <<>>
     /\ Connected /\ station.ssid \in Saved(networks) => station.ssid \in Saved(networks')
  \/ resetting /\ Restart

LEMMA Domain ==
  ASSUME ListOK
  PROVE  /\ DOMAIN networks = 1 .. Len(networks) /\ Len(networks) \in Nat
         /\ \A j \in 1 .. Len(networks) : networks[j] \in SSIDs
         /\ networks # <<>> => Len(networks) > 0
BY LenProperties, ElementOfSeq, EmptySeq DEF ListOK

LEMMA EmptyList ==
  /\ <<>> \in Seq(SSIDs) /\ Distinct(<<>>)
  /\ Len(<<>>) <= MaxNetworks
<1>1. <<>> \in Seq(SSIDs) /\ Len(<<>>) = 0 /\ DOMAIN <<>> = {}
  BY EmptySeq
<1>2. Distinct(<<>>)
  BY <1>1, Zenon DEF Distinct
<1>3. QED
  BY <1>1, <1>2, WifiAssumption

LEMMA RoundStarts ==
  ASSUME StartRound, ListOK', scanning' \in BOOLEAN, elapsed' \in BOOLEAN
  PROVE  MachineOK'
<1>1. MaxNetworks \in Nat \ {0} /\ MaxAttempts \in Nat \ {0}
  BY WifiAssumption
<1>2. /\ tryIdx' \in 1 .. MaxNetworks + 1 /\ attempts' \in 0 .. MaxAttempts
      /\ tries' \in [SSIDs -> 0 .. MaxAttempts]
  BY <1>1 DEF StartRound, NoTries
<1>3. /\ DOMAIN networks' = 1 .. Len(networks') /\ Len(networks') \in Nat
      /\ \A j \in 1 .. Len(networks') : networks'[j] \in SSIDs
      /\ networks' # <<>> => Len(networks') > 0
  BY LenProperties, ElementOfSeq, EmptySeq DEF ListOK
<1>4. \A n \in SSIDs : tries'[n] = 0
  BY DEF StartRound, NoTries
<1>5. ASSUME NEW j \in DOMAIN networks'
      PROVE  tries'[networks'[j]] = IF j < tryIdx' THEN MaxAttempts
                                    ELSE IF j = tryIdx' THEN attempts' ELSE 0
  BY <1>3, <1>4 DEF StartRound
<1>6. InTurn'
  BY <1>3, <1>4, <1>5 DEF InTurn, StartRound
<1>7. ScansFirst'
  BY DEF ScansFirst, StartRound
<1>8. QED
  BY <1>2, <1>6, <1>7 DEF MachineOK, StartRound

LEMMA NoEdit ==
  ASSUME ListOK, MachineOK, UNCHANGED <<listVars, machineVars, roundVars>>
  PROVE  ListOK' /\ MachineOK' /\ Retains
BY DEF ListOK, MachineOK, Stored, Distinct, ScansFirst, InTurn, Saved, Retains,
       listVars, machineVars, roundVars

(* An edit of the list lets the round go on, but its order no longer counts. *)
LEMMA Edited ==
  ASSUME MachineOK, edited' = TRUE, UNCHANGED <<machineVars, tries>>
  PROVE  MachineOK'
BY DEF MachineOK, machineVars, ScansFirst, InTurn

LEMMA AddOK ==
  ASSUME ListOK, MachineOK, NEW n \in SSIDs, AddNetwork(n)
  PROVE  ListOK' /\ MachineOK' /\ Retains
<1>0. CASE Save(networks) /\ UNCHANGED <<machineVars, roundVars>>
  BY <1>0 DEF Save, ListOK, MachineOK, Stored, Distinct, ScansFirst, InTurn, Saved, Retains,
              machineVars, roundVars
<1>1. CASE UNCHANGED <<listVars, machineVars, roundVars>>
  BY <1>1, NoEdit
<1>2. CASE /\ n \notin Saved(networks) /\ Len(networks) < MaxNetworks
           /\ Save(Append(networks, n))
           /\ IF Connected THEN UNCHANGED <<machineVars, roundVars>>
              ELSE StartRound /\ elapsed' = FALSE /\ UNCHANGED scanning
  <2>1. /\ networks' \in Seq(SSIDs) /\ Len(networks') = Len(networks) + 1
        /\ Distinct(networks')
        /\ \A j \in 1 .. Len(networks) : networks'[j] = networks[j]
        /\ networks'[Len(networks) + 1] = n
        /\ DOMAIN networks' = 1 .. Len(networks) + 1
        /\ Saved(networks') = Saved(networks) \cup {n}
    BY <1>2, AppendKeeps DEF ListOK, Save
  <2>2. /\ DOMAIN networks = 1 .. Len(networks) /\ Len(networks) \in Nat
        /\ \A j \in 1 .. Len(networks) : networks[j] \in SSIDs
        /\ networks # <<>> => Len(networks) > 0
    BY Domain
  <2>3. ListOK'
    <3>1. Len(networks') <= MaxNetworks
      BY <1>2, <2>1, <2>2, WifiAssumption
    <3>2. nvs' = networks' /\ resetting' \in BOOLEAN
      BY <1>2 DEF Save, ListOK
    <3>3. QED
      BY <2>1, <3>1, <3>2 DEF ListOK, Stored, Distinct
  <2>4. networks' # <<>>
    BY <1>2, AppendProperties DEF Save, ListOK
  <2>5. Retains
    BY <2>1, <2>4 DEF Retains
  <2>6. CASE ~Connected
    <3>1. scanning' \in BOOLEAN /\ elapsed' \in BOOLEAN
      BY <1>2, <2>6 DEF MachineOK
    <3>2. StartRound
      BY <1>2, <2>6
    <3>3. QED
      BY <2>3, <2>5, <3>1, <3>2, RoundStarts
  <2>7. CASE Connected
    <3>1. UNCHANGED <<machineVars, roundVars>>
      BY <1>2, <2>7
    <3>2. ASSUME ~edited, ~cooldown PROVE InTurn'
      <4>1. /\ \A j \in 1 .. Len(networks) :
                 tries[networks[j]] = IF j < tryIdx THEN MaxAttempts
                                      ELSE IF j = tryIdx THEN attempts ELSE 0
            /\ tries[n] = 0
            /\ IF networks = <<>> THEN tryIdx = 1 /\ attempts = 0 ELSE tryIdx <= Len(networks)
        BY <1>2, <2>2, <3>2 DEF MachineOK, InTurn
      <4>2. tryIdx \in Nat /\ tryIdx >= 1
        BY WifiAssumption DEF MachineOK
      <4>3. networks = <<>> => Len(networks) = 0
        BY EmptySeq
      <4>4. ASSUME NEW j \in 1 .. Len(networks) + 1
            PROVE  tries[networks'[j]] = IF j < tryIdx THEN MaxAttempts
                                         ELSE IF j = tryIdx THEN attempts ELSE 0
        <5>1. CASE j \in 1 .. Len(networks)
          BY <2>1, <4>1, <5>1
        <5>2. CASE j = Len(networks) + 1
          BY <2>1, <2>2, <4>1, <4>2, <4>3, <5>2
        <5>3. QED
          BY <2>2, <5>1, <5>2
      <4>5. \A m \in SSIDs \ Saved(networks') : tries[m] = 0
        BY <2>1, <3>2 DEF MachineOK, InTurn
      <4>6. tryIdx <= Len(networks')
        BY <2>1, <2>2, <4>1, <4>2, <4>3
      <4>7. QED
        BY <2>1, <2>4, <3>1, <4>4, <4>5, <4>6 DEF InTurn, machineVars, roundVars
    <3>3. InTurn'
      BY <3>1, <3>2 DEF InTurn, machineVars, roundVars
    <3>4. MachineOK'
      BY <3>1, <3>3 DEF MachineOK, ScansFirst, machineVars, roundVars
    <3>5. QED
      BY <2>3, <2>5, <3>4
  <2>8. QED
    BY <2>3, <2>5, <2>6, <2>7
<1>3. QED
  BY <1>0, <1>1, <1>2 DEF AddNetwork

(* Neither the network in use nor the last one is removed. *)
LEMMA RemoveOK ==
  ASSUME ListOK, MachineOK, NEW n \in SSIDs, RemoveNetwork(n)
  PROVE  ListOK' /\ MachineOK' /\ Retains
<1>1. CASE UNCHANGED <<listVars, machineVars, roundVars>>
  BY <1>1, NoEdit
<1>2. CASE /\ n \in Saved(networks) /\ Len(networks) > 1
           /\ ~(Connected /\ station.ssid = n)
           /\ Save(Without(networks, Position(networks, n)))
           /\ edited' = TRUE
           /\ UNCHANGED <<machineVars, tries>>
  <2>1. /\ networks' \in Seq(SSIDs) /\ Len(networks') = Len(networks) - 1
        /\ Distinct(networks')
        /\ \A m \in Saved(networks) \ {n} : m \in Saved(networks')
    BY <1>2, WithoutKeeps DEF ListOK, Save
  <2>2. Len(networks) \in Nat /\ Len(networks) <= MaxNetworks
    BY Domain DEF ListOK
  <2>3. Len(networks') <= MaxNetworks /\ Len(networks') > 0
    BY <1>2, <2>1, <2>2, WifiAssumption
  <2>4. ListOK'
    BY <1>2, <2>1, <2>3 DEF ListOK, Stored, Save, Distinct
  <2>5. networks' # <<>>
    BY <2>3, EmptySeq
  <2>6. Retains
    BY <1>2, <2>1, <2>5 DEF Retains
  <2>7. MachineOK'
    BY <1>2, Edited
  <2>8. QED
    BY <2>4, <2>6, <2>7
<1>3. QED
  BY <1>1, <1>2 DEF RemoveNetwork

LEMMA PriorityOK ==
  ASSUME ListOK, MachineOK, NEW n \in SSIDs, NEW priority \in Nat, SetPriority(n, priority)
  PROVE  ListOK' /\ MachineOK' /\ Retains
<1> DEFINE to == Target(networks, priority)
<1>1. CASE UNCHANGED <<listVars, machineVars, roundVars>>
  BY <1>1, NoEdit
<1>2. CASE /\ n \in Saved(networks) /\ Save(Moved(networks, n, to))
           /\ edited' = TRUE /\ UNCHANGED <<machineVars, tries>>
  <2>1. /\ DOMAIN networks = 1 .. Len(networks) /\ Len(networks) \in Nat
        /\ Len(networks) <= MaxNetworks
    BY Domain DEF ListOK
  <2>2. Len(networks) > 0
    BY <1>2, <2>1 DEF Saved
  <2>3. to \in 1 .. Len(networks)
    BY <2>1, <2>2 DEF Target
  <2> HIDE DEF to
  <2>4. /\ networks' \in Seq(SSIDs) /\ Len(networks') = Len(networks)
        /\ Distinct(networks')
        /\ \A m \in Saved(networks) : m \in Saved(networks')
    BY <1>2, <2>3, MovedKeeps DEF ListOK, Save
  <2>5. ListOK'
    BY <1>2, <2>1, <2>4 DEF ListOK, Stored, Save, Distinct
  <2>6. networks' # <<>>
    BY <2>2, <2>4, EmptySeq
  <2>7. Retains
    BY <2>4, <2>6 DEF Retains
  <2>8. MachineOK'
    BY <1>2, Edited
  <2>9. QED
    BY <2>5, <2>7, <2>8
<1>3. QED
  BY <1>1, <1>2 DEF SetPriority

LEMMA ExecuteOK ==
  ASSUME ListOK, MachineOK, NEW c \in UserCommands, Execute(c)
  PROVE  ListOK' /\ MachineOK' /\ Retains
<1>1. c \in Command
  BY WifiAssumption
<1>2. c.ssid \in SSIDs /\ c.cmd \in {"add", "remove", "sync", "priority"}
  BY <1>1 DEF Command
<1>3. c.cmd = "priority" => c.priority \in Nat
  BY <1>1 DEF Command
<1>4. CASE c.cmd = "add"
  BY <1>2, <1>4, AddOK DEF Execute
<1>5. CASE c.cmd = "remove"
  BY <1>2, <1>5, RemoveOK DEF Execute
<1>6. CASE c.cmd = "priority"
  BY <1>2, <1>3, <1>6, PriorityOK DEF Execute
<1>7. CASE c.cmd = "sync"
  BY <1>7, NoEdit DEF Execute
<1>8. QED
  BY <1>2, <1>4, <1>5, <1>6, <1>7

-------------------------------------------------------------------------------
(* The steps of the machine *)

(* The machine of a step that leaves the list and the machine alone.        *)
LEMMA MachineStays ==
  ASSUME ListOK, MachineOK, UNCHANGED <<listVars, tryIdx, attempts, cooldown, scanning, roundVars>>,
         elapsed' \in BOOLEAN
  PROVE  ListOK' /\ MachineOK' /\ Retains
BY DEF ListOK, MachineOK, Stored, Distinct, ScansFirst, InTurn, Saved, Retains,
       listVars, roundVars

(* WiFi.begin() for the network in turn counts towards its attempts. *)
LEMMA BeginOK ==
  ASSUME ListOK, MachineOK, networks # <<>>, ~cooldown, Begin(NextIdx, NextAttempts),
         NextIdx <= Len(networks), cooldown' = cooldown, scanning' = FALSE,
         edited' = edited, UNCHANGED listVars
  PROVE  /\ ListOK' /\ MachineOK' /\ Retains
         /\ edited \/ \A j \in 1 .. tryIdx' - 1 : tries[networks[j]] = MaxAttempts
<1>1. /\ DOMAIN networks = 1 .. Len(networks) /\ Len(networks) \in Nat
      /\ \A j \in 1 .. Len(networks) : networks[j] \in SSIDs
      /\ \A i, j \in 1 .. Len(networks) : networks[i] = networks[j] => i = j
      /\ Len(networks) <= MaxNetworks
  BY Domain DEF ListOK, Distinct
<1>2. /\ MaxNetworks \in Nat \ {0} /\ MaxAttempts \in Nat \ {0}
      /\ tryIdx \in 1 .. MaxNetworks + 1 /\ attempts \in 0 .. MaxAttempts
      /\ tries \in [SSIDs -> 0 .. MaxAttempts]
  BY WifiAssumption DEF MachineOK
<1> DEFINE i == NextIdx
           k == NextAttempts
           n == networks[i]
<1>3. /\ i \in 1 .. Len(networks) /\ k \in 0 .. MaxAttempts - 1
      /\ i = IF attempts = MaxAttempts THEN tryIdx + 1 ELSE tryIdx
      /\ k = IF attempts = MaxAttempts THEN 0 ELSE attempts
  BY <1>1, <1>2 DEF NextIdx, NextAttempts, AtLimit
<1>4. tryIdx' = i /\ attempts' = k + 1
  BY DEF Begin
<1>5. tries' = [tries EXCEPT ![n] = IF @ < MaxAttempts THEN @ + 1 ELSE @]
  BY DEF Begin
<1> HIDE DEF i, k
<1>6. n \in SSIDs
  BY <1>1, <1>3
<1>7. /\ tryIdx' \in 1 .. MaxNetworks + 1 /\ attempts' \in 0 .. MaxAttempts
      /\ tries' \in [SSIDs -> 0 .. MaxAttempts]
  <2>1. (IF tries[n] < MaxAttempts THEN tries[n] + 1 ELSE tries[n]) \in 0 .. MaxAttempts
    BY <1>2, <1>6
  <2>2. tries' \in [SSIDs -> 0 .. MaxAttempts]
    BY <1>2, <1>5, <1>6, <2>1
  <2>3. QED
    BY <1>1, <1>2, <1>3, <1>4, <2>2
<1>8. ASSUME ~edited
      PROVE  /\ \A j \in 1 .. Len(networks) :
                  tries[networks[j]] = IF j < i THEN MaxAttempts ELSE IF j = i THEN k ELSE 0
             /\ \A m \in SSIDs \ Saved(networks) : tries[m] = 0
  <2>1. /\ \A j \in 1 .. Len(networks) :
             tries[networks[j]] = IF j < tryIdx THEN MaxAttempts
                                  ELSE IF j = tryIdx THEN attempts ELSE 0
        /\ \A m \in SSIDs \ Saved(networks) : tries[m] = 0
    BY <1>1, <1>8 DEF MachineOK, InTurn
  <2>2. ASSUME NEW j \in 1 .. Len(networks)
        PROVE  tries[networks[j]] = IF j < i THEN MaxAttempts ELSE IF j = i THEN k ELSE 0
    <3>1. CASE attempts = MaxAttempts
      BY <1>2, <1>3, <2>1, <3>1
    <3>2. CASE attempts # MaxAttempts
      BY <1>2, <1>3, <2>1, <3>2
    <3>3. QED
      BY <3>1, <3>2
  <2>3. QED
    BY <2>1, <2>2
<1>9. ASSUME ~edited PROVE InTurn'
  <2>1. networks' = networks /\ Saved(networks)' = Saved(networks)
    BY DEF listVars, Saved
  <2>2. ASSUME NEW j \in 1 .. Len(networks)
        PROVE  tries'[networks[j]] = IF j < i THEN MaxAttempts ELSE IF j = i THEN k + 1 ELSE 0
    <3>1. networks[j] \in SSIDs
      BY <1>1
    <3>2. CASE j = i
      <4>1. tries[n] = k /\ k < MaxAttempts
        BY <1>2, <1>3, <1>8, <1>9, <3>2
      <4>2. tries'[n] = k + 1
        BY <1>2, <1>5, <1>6, <4>1
      <4>3. QED
        BY <1>3, <3>2, <4>2
    <3>3. CASE j # i
      <4>1. networks[j] # n
        BY <1>1, <1>3, <3>3
      <4>2. tries'[networks[j]] = tries[networks[j]]
        BY <1>2, <1>5, <3>1, <4>1
      <4>3. QED
        BY <1>8, <1>9, <3>3, <4>2
    <3>4. QED
      BY <3>2, <3>3
  <2>3. ASSUME NEW m \in SSIDs \ Saved(networks) PROVE tries'[m] = 0
    <3>1. m # n
      BY <1>1, <1>3 DEF Saved
    <3>2. QED
      BY <1>2, <1>5, <1>8, <1>9, <3>1
  <2>4. QED
    BY <1>1, <1>3, <1>4, <2>1, <2>2, <2>3 DEF InTurn
<1>10. InTurn'
  BY <1>9 DEF InTurn
<1>11. ListOK' /\ Retains
  BY DEF ListOK, Stored, Distinct, Retains, Saved, listVars
<1>12. MachineOK'
  BY <1>7, <1>10 DEF MachineOK, ScansFirst, Begin
<1>13. edited \/ \A j \in 1 .. tryIdx' - 1 : tries[networks[j]] = MaxAttempts
  <2>1. SUFFICES ASSUME ~edited, NEW j \in 1 .. tryIdx' - 1 PROVE tries[networks[j]] = MaxAttempts
    OBVIOUS
  <2>2. j \in 1 .. Len(networks) /\ j < i
    BY <1>1, <1>3, <1>4
  <2>3. QED
    BY <1>8, <2>1, <2>2
<1>14. QED
  BY <1>11, <1>12, <1>13

(* The action of TriesInOrder. *)
OrderKept ==
  /\ station'.state = "joining" /\ tries' # tries =>
       edited \/ \A j \in 1 .. tryIdx' - 1 : tries[networks[j]] = MaxAttempts
  /\ ~cooldown /\ cooldown' =>
       edited \/ \A n \in Saved(networks) : tries[n] = MaxAttempts

LEMMA NothingTried ==
  ASSUME tries' = tries \/ tryIdx' = 1, cooldown' => cooldown
  PROVE  OrderKept
<1>1. CASE tries' = tries
  BY <1>1 DEF OrderKept
<1>2. CASE tryIdx' = 1
  <2>1. \A j \in 1 .. tryIdx' - 1 : FALSE
    BY <1>2
  <2>2. QED
    BY <2>1 DEF OrderKept
<1>3. QED
  BY <1>1, <1>2

LEMMA CommandsOK ==
  ASSUME ListOK, MachineOK, RestOK, RunCommand \/ CommandsDone \/ Idle
  PROVE  ListOK' /\ MachineOK' /\ RestOK' /\ Retains /\ OrderKept
<1>1. CASE RunCommand
  <2>1. Head(queue) \in UserCommands /\ queue' \in Seq(UserCommands) /\ Len(queue') <= QueueDepth
    <3>1. Head(queue) \in UserCommands /\ queue' \in Seq(UserCommands)
          /\ Len(queue') = Len(queue) - 1 /\ Len(queue) \in Nat
      BY <1>1, HeadTailProperties, LenProperties DEF RunCommand, RestOK
    <3>2. QED
      BY <3>1, WifiAssumption DEF RestOK
  <2>2. ListOK' /\ MachineOK' /\ Retains
    BY <1>1, <2>1, ExecuteOK DEF RunCommand
  <2>3. RestOK'
    BY <1>1, <2>1 DEF RunCommand, RestOK, Alone
  <2>4. /\ tries' = tries \/ tryIdx' = 1
        /\ cooldown' => cooldown
    <3>1. Head(queue).cmd \in {"add", "remove", "sync", "priority"}
      BY <2>1, WifiAssumption DEF Command
    <3>2. QED
      BY <1>1, <3>1 DEF RunCommand, Execute, AddNetwork, RemoveNetwork, SetPriority, StartRound,
                        machineVars, roundVars
  <2>5. QED
    BY <2>2, <2>3, <2>4, NothingTried
<1>2. CASE CommandsDone \/ Idle
  <2>1. UNCHANGED <<listVars, machineVars, roundVars>>
    BY <1>2 DEF CommandsDone, Idle
  <2>2. ListOK' /\ MachineOK' /\ Retains
    BY <2>1, NoEdit
  <2>3. RestOK'
    BY <1>2 DEF CommandsDone, Idle, RestOK, Alone
  <2>4. tries' = tries /\ cooldown' = cooldown
    BY <2>1 DEF machineVars, roundVars
  <2>5. QED
    BY <2>2, <2>3, <2>4, NothingTried
<1>3. QED
  BY <1>1, <1>2

LEMMA ListStays ==
  ASSUME ListOK, UNCHANGED listVars
  PROVE  ListOK' /\ Retains
BY DEF ListOK, Stored, Distinct, Retains, Saved, listVars

LEMMA EdgesOK ==
  ASSUME ListOK, MachineOK, RestOK, SetUpAP \/ Observe \/ EndCooldown
  PROVE  ListOK' /\ MachineOK' /\ RestOK' /\ Retains /\ OrderKept
<1>1. ListOK' /\ Retains
  BY ListStays DEF SetUpAP, Observe, EndCooldown, NothingElse, listVars
<1>2. scanning' \in BOOLEAN /\ elapsed' \in BOOLEAN
  <2>1. scanning' = scanning /\ scanning \in BOOLEAN /\ elapsed \in BOOLEAN
    BY DEF SetUpAP, Observe, EndCooldown, MachineOK
  <2>2. CASE SetUpAP \/ EndCooldown
    BY <2>1, <2>2 DEF SetUpAP, EndCooldown
  <2>3. CASE Observe
    <3>1. elapsed' \in {elapsed, TRUE, FALSE, elapsed \/ cooldown}
      BY <2>3 DEF Observe
    <3>2. (elapsed \/ cooldown) \in BOOLEAN
      OBVIOUS
    <3>3. QED
      BY <2>1, <3>1, <3>2
  <2>4. QED
    BY <2>2, <2>3
<1>3. CASE StartRound
  <2>1. MachineOK'
    BY <1>1, <1>2, <1>3, RoundStarts
  <2>2. OrderKept
    BY <1>3, NothingTried DEF StartRound
  <2>3. RestOK'
    <3>1. prevConnected' \in BOOLEAN /\ apMode' \in BOOLEAN
      BY DEF SetUpAP, Observe, EndCooldown, NothingElse, RestOK, Connected
    <3>2. QED
      BY <3>1 DEF SetUpAP, Observe, EndCooldown, Reconnecting, NothingElse, RestOK, Alone
  <2>4. QED
    BY <1>1, <2>1, <2>2, <2>3
<1>4. CASE Observe /\ UNCHANGED <<apMode, tryIdx, attempts, cooldown, elapsed, roundVars>>
  <2>1. MachineOK'
    BY <1>2, <1>4, MachineStays DEF Observe
  <2>2. OrderKept
    BY <1>4, NothingTried DEF Observe, roundVars
  <2>3. RestOK'
    BY <1>4 DEF Observe, RestOK, Alone, Connected
  <2>4. QED
    BY <1>1, <2>1, <2>2, <2>3
<1>5. QED
  BY <1>3, <1>4 DEF SetUpAP, Observe, EndCooldown

(* Once the station has been told to join, its state is of its type. *)
LEMMA Joins ==
  ASSUME RestOK, NEW n \in SSIDs, station' = [state |-> "joining", ssid |-> n],
         Reconnecting, NothingElse
  PROVE  RestOK'
BY DEF RestOK, Reconnecting, NothingElse, Alone

LEMMA AttemptsOK ==
  ASSUME ListOK, MachineOK, RestOK, ScanComplete \/ Attempt
  PROVE  ListOK' /\ MachineOK' /\ RestOK' /\ Retains /\ OrderKept
<1>1. /\ networks # <<>> /\ ~cooldown /\ cooldown' = cooldown /\ scanning' = FALSE
      /\ edited' = edited /\ UNCHANGED listVars
      /\ Reconnecting /\ NothingElse
  BY DEF ScanComplete, Attempt, Due, Reconnecting, NothingElse, MachineOK
<1>2. /\ DOMAIN networks = 1 .. Len(networks) /\ Len(networks) \in Nat /\ Len(networks) > 0
      /\ \A j \in 1 .. Len(networks) : networks[j] \in SSIDs
  BY <1>1, Domain
<1>3. Begin(NextIdx, NextAttempts) /\ NextIdx <= Len(networks)
  <2>1. CASE ScanComplete
    <3>1. tryIdx = 1 /\ attempts = 0
      BY <2>1 DEF ScanComplete, MachineOK, ScansFirst
    <3>2. NextIdx = tryIdx /\ NextAttempts = attempts
      BY <3>1, WifiAssumption DEF NextIdx, NextAttempts, AtLimit
    <3>3. QED
      BY <1>2, <2>1, <3>1, <3>2 DEF ScanComplete
  <2>2. CASE Attempt
    BY <2>2 DEF Attempt
  <2>3. QED
    BY <2>1, <2>2
<1>4. /\ ListOK' /\ MachineOK' /\ Retains
      /\ edited \/ \A j \in 1 .. tryIdx' - 1 : tries[networks[j]] = MaxAttempts
  BY <1>1, <1>3, BeginOK
<1>5. NextIdx \in 1 .. Len(networks)
  BY <1>2, <1>3, WifiAssumption DEF NextIdx, MachineOK
<1>6. networks[NextIdx] \in SSIDs
  BY <1>2, <1>5
<1>7. RestOK'
  BY <1>1, <1>3, <1>6, Joins DEF Begin
<1>8. OrderKept
  BY <1>1, <1>4 DEF OrderKept
<1>9. QED
  BY <1>4, <1>7, <1>8

LEMMA WaitsOK ==
  ASSUME ListOK, MachineOK, RestOK, StartCooldown \/ StartScan
  PROVE  ListOK' /\ MachineOK' /\ RestOK' /\ Retains /\ OrderKept
<1>1. /\ networks # <<>> /\ ~cooldown /\ UNCHANGED listVars /\ UNCHANGED station
      /\ UNCHANGED roundVars
      /\ Reconnecting /\ NothingElse
  BY DEF StartCooldown, StartScan, Due, Reconnecting, NothingElse
<1>2. ListOK' /\ Retains
  BY <1>1, ListStays
<1>3. RestOK'
  BY <1>1 DEF RestOK, Reconnecting, NothingElse, Alone
<1>4. /\ MaxNetworks \in Nat \ {0} /\ MaxAttempts \in Nat \ {0}
      /\ tryIdx \in 1 .. MaxNetworks + 1 /\ attempts \in 0 .. MaxAttempts
  BY WifiAssumption DEF MachineOK
<1>5. /\ NextIdx = IF attempts = MaxAttempts THEN tryIdx + 1 ELSE tryIdx
      /\ NextAttempts = IF attempts = MaxAttempts THEN 0 ELSE attempts
  BY <1>4 DEF NextIdx, NextAttempts, AtLimit
<1>6. CASE StartScan
  <2>1. tryIdx = 1 /\ attempts = 0
    BY <1>4, <1>5, <1>6 DEF StartScan
  <2>2. /\ scanning' = TRUE
        /\ UNCHANGED <<tryIdx, attempts, cooldown, elapsed, roundVars, listVars>>
    BY <1>1, <1>6 DEF StartScan
  <2>3. InTurn'
    BY <2>2 DEF MachineOK, InTurn, Saved, roundVars, listVars
  <2>4. MachineOK'
    BY <2>1, <2>2, <2>3 DEF MachineOK, ScansFirst, roundVars
  <2>5. OrderKept
    BY <2>2, NothingTried DEF roundVars
  <2>6. QED
    BY <1>2, <1>3, <2>4, <2>5
<1>7. CASE StartCooldown
  <2>1. /\ cooldown' = TRUE /\ elapsed' = FALSE /\ tryIdx' = 1 /\ attempts' = NextAttempts
        /\ scanning' = scanning /\ ~scanning /\ NextIdx > Len(networks)
        /\ tries' = tries /\ edited' = edited
    BY <1>1, <1>7 DEF StartCooldown, Due, roundVars
  <2>2. tryIdx' \in 1 .. MaxNetworks + 1 /\ attempts' \in 0 .. MaxAttempts
    BY <1>4, <1>5, <2>1
  <2>3. MachineOK'
    BY <2>1, <2>2 DEF MachineOK, ScansFirst, InTurn
  <2>4. ASSUME ~edited, NEW n \in Saved(networks) PROVE tries[n] = MaxAttempts
    <3>1. PICK j \in 1 .. Len(networks) : networks[j] = n
      BY Domain DEF Saved
    <3>2. /\ tries[networks[j]] = IF j < tryIdx THEN MaxAttempts
                                  ELSE IF j = tryIdx THEN attempts ELSE 0
          /\ tryIdx <= Len(networks)
      BY <1>1, <2>4, Domain DEF MachineOK, InTurn
    <3>3. Len(networks) \in Nat
      BY Domain
    <3>4. attempts = MaxAttempts /\ j <= tryIdx
      BY <1>4, <1>5, <2>1, <3>2, <3>3
    <3>5. QED
      BY <1>4, <3>1, <3>2, <3>4
  <2>5. OrderKept
    BY <2>1, <2>4 DEF OrderKept
  <2>6. QED
    BY <1>2, <1>3, <2>3, <2>5
<1>8. QED
  BY <1>6, <1>7

LEMMA WorldOK ==
  ASSUME ListOK, MachineOK, RestOK,
         \/ Elapse \/ Join \/ Disconnect \/ FactoryReset \/ Restart \/ UNCHANGED vars
         \/ \E c \in UserCommands : Enqueue(c)
         \/ \E a \in Surroundings : Roam(a)
  PROVE  ListOK' /\ MachineOK' /\ RestOK' /\ Retains /\ OrderKept
<1>1. CASE Elapse
  <2>1. UNCHANGED <<listVars, tryIdx, attempts, cooldown, scanning, roundVars>>
        /\ elapsed' \in BOOLEAN
    BY <1>1 DEF Elapse
  <2>2. RestOK'
    BY <1>1 DEF Elapse, RestOK, Alone
  <2>3. QED
    BY <2>1, <2>2, MachineStays, NothingTried DEF roundVars
<1>2. CASE Restart
  <2>1. ListOK' /\ Retains
    <3>1. CASE nvs = networks
      BY <1>2, <3>1 DEF Restart, ListOK, Stored, Distinct, Retains, Saved
    <3>2. CASE resetting /\ nvs = <<>>
      <4>1. networks' = <<>> /\ nvs' = <<>> /\ resetting' = FALSE
        BY <1>2, <3>2 DEF Restart
      <4>2. Distinct(networks)'
        BY <4>1, EmptyList DEF Distinct
      <4>3. ListOK'
        BY <4>1, <4>2, EmptyList DEF ListOK, Stored
      <4>4. QED
        BY <1>2, <3>2, <4>3 DEF Retains
    <3>3. QED
      BY <3>1, <3>2 DEF ListOK, Stored
  <2>2. MachineOK'
    BY <1>2, <2>1, RoundStarts DEF Restart
  <2>3. RestOK'
    <3>1. queue' \in Seq(UserCommands) /\ Len(queue') <= QueueDepth
      BY <1>2, WifiAssumption DEF Restart
    <3>2. station' \in [state: {"idle", "joining", "connected"}, ssid: SSIDs \cup {None}]
      BY <1>2 DEF Restart, NotAssociated
    <3>3. QED
      BY <1>2, <3>1, <3>2 DEF Restart, RestOK, Alone
  <2>4. OrderKept
    BY <1>2, NothingTried DEF Restart, StartRound
  <2>5. QED
    BY <2>1, <2>2, <2>3, <2>4
<1>3. CASE \/ Join \/ Disconnect \/ UNCHANGED vars
           \/ \E c \in UserCommands : Enqueue(c)
           \/ \E a \in Surroundings : Roam(a)
  <2>1. UNCHANGED <<listVars, machineVars, roundVars>> /\ pc' = pc
        /\ prevConnected' = prevConnected /\ apMode' = apMode
    BY <1>3 DEF Join, Disconnect, Enqueue, Roam, vars, taskVars
  <2>2. ListOK' /\ MachineOK' /\ Retains
    BY <2>1, NoEdit
  <2>3. OrderKept
    BY <2>1, NothingTried DEF machineVars, roundVars
  <2>4. queue' \in Seq(UserCommands) /\ Len(queue') <= QueueDepth
    <3>1. CASE \E c \in UserCommands : Enqueue(c)
      <4>1. PICK c \in UserCommands : Len(queue) < QueueDepth /\ queue' = Append(queue, c)
        BY <3>1 DEF Enqueue
      <4>2. queue' \in Seq(UserCommands) /\ Len(queue') = Len(queue) + 1 /\ Len(queue) \in Nat
        BY <4>1, AppendProperties, LenProperties DEF RestOK
      <4>3. QED
        BY <4>1, <4>2, WifiAssumption
    <3>2. CASE queue' = queue
      BY <3>2 DEF RestOK
    <3>3. QED
      BY <1>3, <3>1, <3>2 DEF Join, Disconnect, Roam, vars, taskVars
  <2>5. air' \in Surroundings
    BY <1>3 DEF Join, Disconnect, Enqueue, Roam, vars, RestOK
  <2>6. /\ station' \in [state: {"idle", "joining", "connected"}, ssid: SSIDs \cup {None}]
        /\ Alone'
    <3>1. NotAssociated \in [state: {"idle", "joining", "connected"}, ssid: SSIDs \cup {None}]
      BY DEF NotAssociated
    <3>2. CASE Join
      BY <2>1, <3>2 DEF Join, RestOK, Alone, NotAssociated
    <3>3. CASE station' \in {station, NotAssociated}
      BY <2>1, <3>1, <3>3 DEF RestOK, Alone
    <3>4. QED
      BY <1>3, <3>2, <3>3 DEF Disconnect, Enqueue, Roam, vars
  <2>7. RestOK'
    BY <2>1, <2>4, <2>5, <2>6 DEF RestOK
  <2>8. QED
    BY <2>2, <2>3, <2>7
<1>4. CASE FactoryReset
  <2>1. ListOK' /\ Retains
    BY <1>4 DEF FactoryReset, ListOK, Stored, Distinct, Retains, Saved
  <2>2. MachineOK'
    BY <1>4 DEF FactoryReset, MachineOK, ScansFirst, InTurn, Saved, machineVars, roundVars
  <2>3. RestOK'
    BY <1>4 DEF FactoryReset, RestOK, Alone
  <2>4. OrderKept
    BY <1>4, NothingTried DEF FactoryReset, machineVars, roundVars
  <2>5. QED
    BY <2>1, <2>2, <2>3, <2>4
<1>5. QED
  BY <1>1, <1>2, <1>3, <1>4

LEMMA StepOK ==
  ASSUME WifiInv, [Next]_vars
  PROVE  WifiInv' /\ Retains /\ OrderKept
<1>1. ListOK /\ MachineOK /\ RestOK
  BY Parts
<1>2. ListOK' /\ MachineOK' /\ RestOK' /\ Retains /\ OrderKept
  BY <1>1, CommandsOK, EdgesOK, AttemptsOK, WaitsOK, WorldOK DEF Next, Task
<1>3. WifiInv'
  BY <1>2, Parts, PTL
<1>4. QED
  BY <1>2, <1>3

LEMMA InitOK == Init => WifiInv
<1> SUFFICES ASSUME Init PROVE WifiInv
  OBVIOUS
<1>1. MaxNetworks \in Nat \ {0} /\ MaxAttempts \in Nat \ {0} /\ QueueDepth \in Nat
  BY WifiAssumption
<1>2. ListOK
  BY EmptyList DEF Init, ListOK, Stored
<1>3. NoTries \in [SSIDs -> 0 .. MaxAttempts]
  BY <1>1 DEF NoTries
<1>4. ScansFirst /\ InTurn
  BY <1>1, EmptySeq DEF Init, ScansFirst, InTurn, NoTries, Saved
<1>5. MachineOK
  <2>1. tryIdx \in 1 .. MaxNetworks + 1 /\ attempts \in 0 .. MaxAttempts
    BY <1>1 DEF Init
  <2>2. QED
    BY <1>3, <1>4, <2>1 DEF Init, MachineOK
<1>6. RestOK
  <2>1. queue \in Seq(UserCommands) /\ Len(queue) <= QueueDepth
    BY <1>1 DEF Init
  <2>2. station \in [state: {"idle", "joining", "connected"}, ssid: SSIDs \cup {None}]
    BY DEF Init, NotAssociated
  <2>3. QED
    BY <2>1, <2>2 DEF Init, RestOK, Alone
<1>7. QED
  BY <1>2, <1>5, <1>6, Parts

LEMMA Inductive == Spec => []WifiInv
BY InitOK, StepOK, PTL DEF Spec

-------------------------------------------------------------------------------
(* The theorems *)

(* The list keeps its limit and holds no network twice, and the counters of *)
(* the reconnection machine stay within theirs: what smTryIdx points at     *)
(* when WiFi.begin() is called is a saved network.                          *)
THEOREM WifiTypeCorrect == Spec => []WifiTypeOK
BY Inductive, PTL DEF WifiInv

(* Neither edits nor resets strand the device, but for the restart of a     *)
(* factory reset (handleRemoveNetwork's refusals, and the list in NVS,      *)
(* which at any other restart is the list the task had).                    *)
THEOREM KeepsNetworks == Spec => NeverStranded
<1>1. WifiInv /\ [Next]_vars =>
        [\/ /\ networks # <<>> => networks' # <<>>
            /\ Connected /\ station.ssid \in Saved(networks) => station.ssid \in Saved(networks')
         \/ resetting /\ Restart]_vars
  BY StepOK DEF Retains
<1>2. QED
  BY <1>1, Inductive, PTL DEF Spec, NeverStranded

(* Saved networks are attempted in the order of their priority, each as     *)
(* often as it may be, before the device cools down (smReconnect).          *)
THEOREM KeepsOrder == Spec => TriesInOrder
<1>1. WifiInv /\ [Next]_vars =>
        [/\ station'.state = "joining" /\ tries' # tries =>
              edited \/ \A j \in 1 .. tryIdx' - 1 : tries[networks[j]] = MaxAttempts
         /\ ~cooldown /\ cooldown' =>
              edited \/ \A n \in Saved(networks) : tries[n] = MaxAttempts]_vars
  BY StepOK DEF OrderKept
<1>2. QED
  BY <1>1, Inductive, PTL DEF Spec, TriesInOrder

(* isAPMode and the connection are those of the abstract uplink.            *)
THEOREM ImplementsUplink == Spec => UplinkSpec
<1>1. Init => UL!UplinkInit
  BY DEF Init, UL!UplinkInit, Connected, NotAssociated
<1>2. ASSUME WifiInv, [Next]_vars PROVE [UL!UplinkNext]_UL!uplinkVars
  <2>1. apMode \in BOOLEAN /\ (pc = "boot" => ~Connected /\ station.state # "joining")
    BY <1>2 DEF WifiInv, WifiTypeOK, Alone, Connected, NotAssociated
  <2>2. CASE SetUpAP
    BY <2>1, <2>2 DEF SetUpAP, Connected, UL!UplinkNext, UL!StartSetup
  <2>3. CASE Observe
    BY <2>1, <2>3 DEF Observe, Connected, UL!UplinkNext, UL!LeaveSetup, UL!uplinkVars
  <2>4. CASE ScanComplete \/ Attempt
    BY <2>1, <2>4 DEF ScanComplete, Attempt, Due, Reconnecting, NothingElse, Begin, Connected,
                      UL!UplinkNext, UL!Drop, UL!uplinkVars
  <2>5. CASE RunCommand \/ CommandsDone \/ Idle \/ EndCooldown \/ StartCooldown \/ StartScan
    BY <2>1, <2>5 DEF RunCommand, CommandsDone, Idle, EndCooldown, StartCooldown, StartScan, Due,
                      Reconnecting, NothingElse, Connected, UL!uplinkVars
  <2>6. CASE Join
    BY <2>1, <2>6 DEF Join, taskVars, Connected, UL!UplinkNext, UL!Associate
  <2>7. CASE Disconnect \/ \E a \in Surroundings : Roam(a)
    BY <2>1, <2>7 DEF Disconnect, Roam, taskVars, Connected, NotAssociated,
                      UL!UplinkNext, UL!Drop, UL!uplinkVars
  <2>8. CASE Restart
    BY <2>8 DEF Restart, Connected, NotAssociated, UL!UplinkNext, UL!UplinkReset
  <2>9. CASE Elapse \/ FactoryReset \/ UNCHANGED vars \/ \E c \in UserCommands : Enqueue(c)
    BY <2>9 DEF Elapse, FactoryReset, Enqueue, vars, taskVars, Connected, UL!uplinkVars
  <2>10. QED
    BY <1>2, <2>2, <2>3, <2>4, <2>5, <2>6, <2>7, <2>8, <2>9 DEF Next, Task
<1>3. QED
  BY <1>1, <1>2, Inductive, PTL DEF Spec, UplinkSpec, UL!UplinkSpec
===============================================================================
