-------------------------- MODULE AlgorithmsProofs --------------------------
(***************************************************************************)
(* Proofs about modules Addresses and Relay: for bytes of any size, what   *)
(* incIP computes and the search of allocVirtualIP finds; for any number   *)
(* of sessions in any order, which one the loop of relayHandler chooses.   *)
(***************************************************************************)
EXTENDS Algorithms, NatRecursion, TLAPS

(* The ++ of a byte is a byte.                                             *)
LEMMA IncByteType == \A b \in Byte : IncByte(b) \in Byte
  BY AddressesAssumption DEF Byte, IncByte

(* The carry: what incIP (store.go:321-328) does to each byte.             *)
LEMMA IncIPBytes ==
  ASSUME NEW ip \in Address
  PROVE  /\ IncIP(ip)[4] = IncByte(ip[4])
         /\ IncIP(ip)[3] = IF ip[4] = Base - 1 THEN IncByte(ip[3]) ELSE ip[3]
         /\ IncIP(ip)[2] = IF ip[4] = Base - 1 /\ ip[3] = Base - 1 THEN IncByte(ip[2]) ELSE ip[2]
         /\ IncIP(ip)[1] = IF ip[4] = Base - 1 /\ ip[3] = Base - 1 /\ ip[2] = Base - 1
                           THEN IncByte(ip[1]) ELSE ip[1]
<1>1. /\ 5..4 = {} /\ 4..4 = {4} /\ 3..4 = {3, 4} /\ 2..4 = {2, 3, 4}
  OBVIOUS
<1>2. \A j \in 1..4 : IncIP(ip)[j] = IF \A i \in (j + 1)..4 : ip[i] = Base - 1
                                     THEN IncByte(ip[j]) ELSE ip[j]
  BY DEF IncIP
<1>3. IncIP(ip)[4] = IncByte(ip[4])
  BY <1>1, <1>2
<1>4. IncIP(ip)[3] = IF ip[4] = Base - 1 THEN IncByte(ip[3]) ELSE ip[3]
  BY <1>1, <1>2
<1>5. IncIP(ip)[2] = IF ip[4] = Base - 1 /\ ip[3] = Base - 1 THEN IncByte(ip[2]) ELSE ip[2]
  BY <1>1, <1>2
<1>6. IncIP(ip)[1] = IF ip[4] = Base - 1 /\ ip[3] = Base - 1 /\ ip[2] = Base - 1
                     THEN IncByte(ip[1]) ELSE ip[1]
  BY <1>1, <1>2
<1> QED BY <1>3, <1>4, <1>5, <1>6

(* Appending a byte y to a number x below N: the result is below N * Base, *)
(* and is the last of these numbers if x and y are the last.               *)
LEMMA AppendByte ==
  ASSUME NEW N \in Nat \ {0}, NEW x \in 0..(N - 1), NEW y \in Byte
  PROVE  /\ N * Base \in Nat \ {0}
         /\ x * Base + y \in 0..(N * Base - 1)
         /\ x * Base + y = N * Base - 1 <=> x = N - 1 /\ y = Base - 1
<1> DEFINE k == N - 1 - x
<1>1. Base \in Nat /\ Base > 0 /\ y \in Int /\ 0 <= y /\ y <= Base - 1
  BY AddressesAssumption DEF Byte
<1>2. k \in Nat /\ x \in Nat /\ N = k + x + 1
  OBVIOUS
<1>3. /\ \A m, n \in Nat : m * n \in Nat
      /\ \A m, n \in Nat : m > 0 /\ n > 0 => m * n > 0 /\ m * n >= n
  BY Z3
<1> HIDE DEF k
<1>4. N * Base = k * Base + x * Base + Base
  BY <1>1, <1>2
<1>5. k * Base \in Nat /\ x * Base \in Nat /\ N * Base \in Nat
  BY <1>1, <1>2, <1>3
<1>6. k # 0 => k * Base >= Base
  BY <1>1, <1>2, <1>3
<1>7. k = 0 => k * Base = 0
  BY <1>1
<1>8. k = 0 <=> x = N - 1
  BY <1>2
<1> DEFINE kB == k * Base  xB == x * Base  nB == N * Base
<1>9. /\ nB = kB + xB + Base /\ kB \in Nat /\ xB \in Nat /\ nB \in Nat
      /\ k # 0 => kB >= Base
      /\ k = 0 => kB = 0
  BY <1>4, <1>5, <1>6, <1>7
<1> HIDE DEF kB, xB, nB
<1>10. nB \in Nat \ {0} /\ xB + y \in 0..(nB - 1) /\ (xB + y = nB - 1 <=> k = 0 /\ y = Base - 1)
  BY <1>1, <1>2, <1>9
<1> QED BY <1>8, <1>10 DEF kB, xB, nB

(* incIP counts an address up by one, and the last address wraps to the    *)
(* first (store.go:321-328).                                               *)
THEOREM IncIPCounts ==
  ASSUME NEW ip \in Address
  PROVE  /\ IncIP(ip) \in Address
         /\ Num(IncIP(ip)) = IF Num(ip) = AllAddresses - 1 THEN 0 ELSE Num(ip) + 1
<1> DEFINE a == ip[1]  b == ip[2]  c == ip[3]  d == ip[4]  r == IncIP(ip)
           ab == a * Base + b
           abc == ab * Base + c
<1>1. a \in Byte /\ b \in Byte /\ c \in Byte /\ d \in Byte
  BY DEF Address
<1>2. Base \in Nat /\ Base > 0 /\ \A x \in Byte : x \in Int /\ 0 <= x /\ x <= Base - 1
  BY AddressesAssumption DEF Byte
<1>3. IncIP(ip) \in Address
  <2>1. \A j \in 1..4 : ip[j] \in Byte
    BY DEF Address
  <2> QED BY <2>1, IncByteType DEF IncIP, Address
<1>4. Num(ip) = abc * Base + d
  BY DEF Num
<1>5. Num(r) = ((r[1] * Base + r[2]) * Base + r[3]) * Base + r[4]
  BY DEF Num
<1>6. /\ r[4] = IncByte(d)
      /\ r[3] = IF d = Base - 1 THEN IncByte(c) ELSE c
      /\ r[2] = IF d = Base - 1 /\ c = Base - 1 THEN IncByte(b) ELSE b
      /\ r[1] = IF d = Base - 1 /\ c = Base - 1 /\ b = Base - 1 THEN IncByte(a) ELSE a
  BY IncIPBytes
<1> HIDE DEF a, b, c, d, r
<1>7. /\ Base * Base \in Nat \ {0} /\ ab \in 0..(Base * Base - 1)
      /\ ab = Base * Base - 1 <=> a = Base - 1 /\ b = Base - 1
  BY <1>1, <1>2, AppendByte DEF Byte
<1> HIDE DEF ab
<1>8. /\ Base * Base * Base \in Nat \ {0} /\ abc \in 0..(Base * Base * Base - 1)
      /\ abc = Base * Base * Base - 1 <=> ab = Base * Base - 1 /\ c = Base - 1
  BY <1>1, <1>7, AppendByte
<1> HIDE DEF abc
<1>9. /\ abc * Base + d \in 0..(AllAddresses - 1)
      /\ abc * Base + d = AllAddresses - 1 <=> abc = Base * Base * Base - 1 /\ d = Base - 1
  <2> DEFINE N == Base * Base * Base
  <2>1. N \in Nat \ {0} /\ abc \in 0..(N - 1) /\ AllAddresses = N * Base
    BY <1>8 DEF AllAddresses
  <2> HIDE DEF N
  <2>2. /\ abc * Base + d \in 0..(N * Base - 1)
        /\ abc * Base + d = N * Base - 1 <=> abc = N - 1 /\ d = Base - 1
    BY <1>1, <2>1, AppendByte
  <2> QED
    BY <2>1, <2>2 DEF N
<1> DEFINE AtEnd == a = Base - 1 /\ b = Base - 1 /\ c = Base - 1 /\ d = Base - 1
<1>10. Num(ip) = AllAddresses - 1 <=> AtEnd
  BY <1>4, <1>7, <1>8, <1>9
<1>11. ab \in Int /\ abc \in Int /\ ab = a * Base + b /\ abc = ab * Base + c
  BY <1>7, <1>8 DEF ab, abc
<1>12. CASE d # Base - 1
  <2>1. Num(r) = ((a * Base + b) * Base + c) * Base + (d + 1)
    BY <1>5, <1>6, <1>12 DEF IncByte
  <2>2. Num(r) = (abc * Base + d) + 1
    BY <1>1, <1>2, <1>11, <2>1
  <2> QED BY <1>3, <1>4, <1>10, <1>12, <2>2 DEF r
<1>13. CASE d = Base - 1 /\ c # Base - 1
  <2>1. Num(r) = ((a * Base + b) * Base + (c + 1)) * Base + 0
    BY <1>5, <1>6, <1>13 DEF IncByte
  <2>2. Num(r) = (abc * Base + d) + 1
    BY <1>1, <1>2, <1>11, <1>13, <2>1
  <2> QED BY <1>3, <1>4, <1>10, <1>13, <2>2 DEF r
<1>14. CASE d = Base - 1 /\ c = Base - 1 /\ b # Base - 1
  <2>1. Num(r) = ((a * Base + (b + 1)) * Base + 0) * Base + 0
    BY <1>5, <1>6, <1>14 DEF IncByte
  <2>2. Num(r) = (abc * Base + d) + 1
    BY <1>1, <1>2, <1>11, <1>14, <2>1
  <2> QED BY <1>3, <1>4, <1>10, <1>14, <2>2 DEF r
<1>15. CASE d = Base - 1 /\ c = Base - 1 /\ b = Base - 1 /\ a # Base - 1
  <2>1. Num(r) = (((a + 1) * Base + 0) * Base + 0) * Base + 0
    BY <1>5, <1>6, <1>15 DEF IncByte
  <2>2. Num(r) = (abc * Base + d) + 1
    BY <1>1, <1>2, <1>11, <1>15, <2>1
  <2> QED BY <1>3, <1>4, <1>10, <1>15, <2>2 DEF r
<1>16. CASE AtEnd
  <2>1. Num(r) = ((0 * Base + 0) * Base + 0) * Base + 0
    BY <1>5, <1>6, <1>16 DEF IncByte
  <2>2. Num(r) = 0
    BY <1>2, <2>1
  <2> QED BY <1>3, <1>10, <1>16, <2>2 DEF r
<1> QED BY <1>12, <1>13, <1>14, <1>15, <1>16
----------------------------------------------------------------------------
(* Products of numbers.                                                    *)
LEMMA Products ==
  /\ \A m, n \in Nat : m * n \in Nat
  /\ \A m, n \in Nat : m > 0 => m * n >= n
  BY Z3

(* Division with a remainder ...                                           *)
LEMMA Division ==
  ASSUME NEW x \in Nat, NEW m \in Nat \ {0}
  PROVE  /\ x \div m \in Nat /\ x % m \in 0..(m - 1)
         /\ x = (x \div m) * m + (x % m)
<1>1. x \div m \in Nat /\ x % m \in 0..(m - 1)
  OBVIOUS
<1>2. x = m * (x \div m) + (x % m)
  OBVIOUS
<1> QED
  BY <1>1, <1>2

(* ... has one result ...                                                  *)
LEMMA OneQuotient ==
  ASSUME NEW m \in Nat \ {0}, NEW q \in Nat, NEW r \in 0..(m - 1),
         NEW p \in Nat, NEW s \in 0..(m - 1), q * m + r = p * m + s
  PROVE  p = q /\ r = s
<1>1. ASSUME NEW a \in Nat, NEW b \in Nat, NEW t \in 0..(m - 1), NEW u \in 0..(m - 1),
             a * m + t = b * m + u, a < b
      PROVE  FALSE
  <2>1. PICK d \in Nat : d > 0 /\ b = a + d
    <3>1. b - a \in Nat /\ b - a > 0 /\ b = a + (b - a)
      BY <1>1
    <3> QED
      BY <3>1
  <2>2. b * m = a * m + d * m
    BY <2>1
  <2>3. d * m >= m /\ a * m \in Nat /\ d * m \in Nat
    BY <2>1, Products
  <2> QED
    BY <1>1, <2>2, <2>3
<1>2. ~(p < q) /\ ~(q < p)
  BY <1>1
<1>3. p = q
  BY <1>2
<1> QED
  BY <1>3, Products

(* ... namely what the number was made of.                                 *)
LEMMA DivMod ==
  ASSUME NEW m \in Nat \ {0}, NEW q \in Nat, NEW r \in 0..(m - 1)
  PROVE  (q * m + r) \div m = q /\ (q * m + r) % m = r
<1> DEFINE x == q * m + r
<1>1. x \in Nat
  BY Products
<1>2. /\ x \div m \in Nat /\ x % m \in 0..(m - 1)
      /\ x = (x \div m) * m + (x % m)
  BY <1>1, Division
<1> QED
  BY <1>2, OneQuotient

(* Division by a product is division by its factors.                       *)
LEMMA DivDiv ==
  ASSUME NEW x \in Nat, NEW m \in Nat \ {0}, NEW n \in Nat \ {0}
  PROVE  x \div (m * n) = (x \div m) \div n
<1> DEFINE y == x \div m  r == x % m  z == y \div n  s == y % n
<1>1. y \in Nat /\ r \in 0..(m - 1) /\ x = y * m + r
  BY Division
<1> HIDE DEF y, r
<1>2. z \in Nat /\ s \in 0..(n - 1) /\ y = z * n + s
  BY <1>1, Division
<1> HIDE DEF z, s
<1>3. x = z * (m * n) + (s * m + r)
  BY <1>1, <1>2
<1>4. s * m + r \in 0..(m * n - 1) /\ m * n \in Nat \ {0}
  <2> DEFINE k == n - 1 - s
  <2>1. k \in Nat /\ n = k + s + 1
    BY <1>2
  <2> HIDE DEF k
  <2>2. m * n = k * m + s * m + m
    BY <1>2, <2>1
  <2>3. k * m \in Nat /\ s * m \in Nat
    BY <1>2, <2>1, Products
  <2> QED
    BY <1>1, <2>2, <2>3
<1>5. x \div (m * n) = z
  <2> DEFINE t == s * m + r  w == m * n
  <2> HIDE DEF t, w
  <2>1. x = z * w + t /\ t \in 0..(w - 1) /\ w \in Nat \ {0}
    BY <1>3, <1>4 DEF t, w
  <2>2. x \div w = z
    BY <1>2, <2>1, DivMod
  <2> QED
    BY <2>2 DEF w
<1> QED
  BY <1>5 DEF z, y

(* Num and OfNum are each other's inverses: an address is the number its   *)
(* bytes write ...                                                         *)
LEMMA OfNumOfAddress ==
  ASSUME NEW ip \in Address
  PROVE  Num(ip) \in 0..(AllAddresses - 1) /\ OfNum(Num(ip)) = ip
<1> DEFINE a == ip[1]  b == ip[2]  c == ip[3]  d == ip[4]
           ab == a * Base + b
           abc == ab * Base + c
           n == abc * Base + d
<1>1. a \in Byte /\ b \in Byte /\ c \in Byte /\ d \in Byte
  BY DEF Address
<1>2. Base \in Nat \ {0} /\ Byte = 0..(Base - 1)
  BY AddressesAssumption DEF Byte
<1>3. Num(ip) = n
  BY DEF Num
<1>4. ip = [j \in 1..4 |-> ip[j]]
  BY DEF Address
<1> HIDE DEF a, b, c, d
<1>5. ab \in 0..(Base * Base - 1) /\ Base * Base \in Nat \ {0}
  BY <1>1, <1>2, AppendByte
<1>6. ab \div Base = a /\ ab % Base = b
  BY <1>1, <1>2, DivMod
<1> HIDE DEF ab
<1>7. abc \in 0..(Base * Base * Base - 1) /\ Base * Base * Base \in Nat \ {0}
  BY <1>1, <1>5, AppendByte
<1>8. abc \div Base = ab /\ abc % Base = c
  BY <1>1, <1>2, <1>5, DivMod
<1> HIDE DEF abc
<1>9. n \in 0..(AllAddresses - 1)
  BY <1>1, <1>7, AppendByte DEF AllAddresses
<1>10. n \div Base = abc /\ n % Base = d
  BY <1>1, <1>2, <1>7, DivMod
<1> HIDE DEF n
<1>11. n \in Nat /\ abc \in Nat /\ ab \in Nat
  BY <1>5, <1>7, <1>9
<1>12. n \div (Base * Base) = ab
  BY <1>2, <1>8, <1>10, <1>11, DivDiv
<1>13. n \div (Base * Base * Base) = a
  BY <1>2, <1>5, <1>6, <1>11, <1>12, DivDiv
<1>14. \A j \in 1..4 : OfNum(n)[j] = ip[j]
  BY <1>6, <1>8, <1>10, <1>12, <1>13 DEF OfNum, a, b, c, d
<1>15. OfNum(n) = [j \in 1..4 |-> ip[j]]
  BY <1>14 DEF OfNum
<1> QED
  BY <1>3, <1>4, <1>9, <1>15

(* ... and a number is what its address writes.                            *)
LEMMA NumOfNumber ==
  ASSUME NEW n \in 0..(AllAddresses - 1)
  PROVE  OfNum(n) \in Address /\ Num(OfNum(n)) = n
<1> DEFINE d == n % Base  abc == n \div Base
           c == abc % Base  ab == n \div (Base * Base)
           b == ab % Base  a == n \div (Base * Base * Base)
<1>1. Base \in Nat \ {0} /\ Byte = 0..(Base - 1) /\ n \in Nat
  BY AddressesAssumption DEF Byte
<1>2. Base * Base \in Nat \ {0} /\ Base * Base * Base \in Nat \ {0}
  <2>1. 0 \in 0..(Base - 1) /\ 0 \in Byte
    BY <1>1
  <2>2. Base * Base \in Nat \ {0}
    BY <1>1, <2>1, AppendByte
  <2> DEFINE BB == Base * Base
  <2> HIDE DEF BB
  <2>3. 0 \in 0..(BB - 1) /\ BB \in Nat \ {0}
    BY <2>2 DEF BB
  <2>4. BB * Base \in Nat \ {0}
    BY <2>1, <2>3, AppendByte
  <2> QED
    BY <2>2, <2>4 DEF BB
<1>3. abc \in Nat /\ d \in Byte /\ n = abc * Base + d
  BY <1>1, Division
<1>4. ab = abc \div Base
  BY <1>1, DivDiv
<1>5. a = ab \div Base
  BY <1>1, <1>2, DivDiv
<1>6. ab \in Nat /\ c \in Byte /\ abc = ab * Base + c
  BY <1>1, <1>3, <1>4, Division
<1>7. a \in Nat /\ b \in Byte /\ ab = a * Base + b
  BY <1>1, <1>5, <1>6, Division
<1>8. OfNum(n) = [j \in 1..4 |-> CASE j = 4 -> d [] j = 3 -> c [] j = 2 -> b [] j = 1 -> a]
  BY DEF OfNum
<1> HIDE DEF a, b, c, d, ab, abc
<1>9. a \in Byte
  <2> SUFFICES ASSUME a >= Base
               PROVE  FALSE
    BY <1>1, <1>7
  <2> DEFINE e == a - Base
  <2>1. e \in Nat /\ a = e + Base
    BY <1>1, <1>7
  <2> HIDE DEF e
  <2>2. n = e * (Base * Base * Base) + AllAddresses + b * (Base * Base) + c * Base + d
    BY <1>1, <1>3, <1>6, <1>7, <2>1 DEF AllAddresses
  <2>3. /\ e * (Base * Base * Base) \in Nat /\ b * (Base * Base) \in Nat /\ c * Base \in Nat
        /\ d \in Nat
    BY <1>1, <1>2, <1>3, <1>6, <1>7, <2>1, Products
  <2>4. AllAddresses \in Nat
    BY <1>1, <1>2, Products DEF AllAddresses
  <2> DEFINE x == e * (Base * Base * Base)  y == b * (Base * Base)  w == c * Base
  <2> HIDE DEF x, y, w
  <2>5. n = x + AllAddresses + y + w + d /\ x \in Nat /\ y \in Nat /\ w \in Nat
    BY <2>2, <2>3 DEF x, y, w
  <2> QED
    BY <2>3, <2>4, <2>5
<1>10. OfNum(n) \in Address
  BY <1>3, <1>6, <1>7, <1>8, <1>9 DEF Address
<1>11. OfNum(n)[1] = a /\ OfNum(n)[2] = b /\ OfNum(n)[3] = c /\ OfNum(n)[4] = d
  BY <1>8
<1> QED
  BY <1>3, <1>6, <1>7, <1>10, <1>11 DEF Num
(* The number of addresses.                                                *)
LEMMA AllAddressesType == AllAddresses \in Nat \ {0}
<1>1. Base \in Nat \ {0} /\ \A m, n \in Nat \ {0} : m * n \in Nat \ {0}
  <2>1. \A m, n \in Nat : m > 0 /\ n > 0 => m * n > 0
    BY Z3
  <2>2. \A m, n \in Nat : m * n \in Nat
    BY Products
  <2> QED
    BY <2>1, <2>2, AddressesAssumption
<1>2. Base * Base \in Nat \ {0}
  BY <1>1
<1>3. Base * Base * Base \in Nat \ {0}
  BY <1>1, <1>2
<1> QED
  BY <1>1, <1>3 DEF AllAddresses

----------------------------------------------------------------------------
(* The block of a subnet: from the network address on, as many addresses   *)
(* as its size says.                                                       *)
LEMMA Block ==
  ASSUME NEW g \in Address, NEW z \in 1..AllAddresses, AllAddresses % z = 0
  PROVE  \E first \in 0..(AllAddresses - z) :
           /\ Network(g, z) \in Address /\ Num(Network(g, z)) = first
           /\ \A ip \in Address :
                InSubnet(g, z, ip) <=> first <= Num(ip) /\ Num(ip) < first + z
<1> DEFINE n == Num(g)  q == n \div z  k == AllAddresses \div z
<1>1. n \in 0..(AllAddresses - 1) /\ z \in Nat \ {0} /\ AllAddresses \in Nat
  BY OfNumOfAddress, AllAddressesType
<1> HIDE DEF n
<1>2. q \in Nat /\ n % z \in 0..(z - 1) /\ n = q * z + (n % z)
  <2>1. n \in Nat
    BY <1>1
  <2> QED
    BY <1>1, <2>1, Division
<1>3. k \in Nat /\ AllAddresses = k * z
  BY <1>1, Division
<1>4. \A a, b \in Nat : a < b => a * z + z <= b * z
  <2> TAKE a, b \in Nat
  <2> HAVE a < b
  <2>1. PICK d \in Nat : b = a + 1 + d
    <3>1. b - a - 1 \in Nat /\ b = a + 1 + (b - a - 1)
      OBVIOUS
    <3> QED
      BY <3>1
  <2>2. b * z = a * z + z + d * z
    BY <1>1, <2>1
  <2>3. d * z \in Nat /\ a * z \in Nat
    BY <1>1, Products
  <2> QED
    BY <1>1, <2>2, <2>3
<1> HIDE DEF n, q, k
<1>5. \A a \in Nat : a * z \in Nat
  BY <1>1, Products
<1>6. q < k
  <2> SUFFICES ASSUME ~(q < k)
               PROVE  FALSE
    OBVIOUS
  <2>1. k * z <= q * z
    BY <1>1, <1>2, <1>3, <1>4, <1>5
  <2> DEFINE x == q * z  y == k * z  r == n % z
  <2> HIDE DEF x, y, r
  <2>2. x \in Nat /\ y \in Nat /\ y <= x /\ r \in Nat /\ n = x + r /\ AllAddresses = y
    BY <1>2, <1>3, <1>5, <2>1 DEF x, y, r
  <2> QED
    BY <1>1, <2>2
<1>7. q * z + z <= AllAddresses /\ q * z \in Nat
  BY <1>2, <1>3, <1>4, <1>5, <1>6
<1>8. Network(g, z) = OfNum(q * z)
  <2> DEFINE x == q * z  r == n % z
  <2> HIDE DEF x, r
  <2>1. x \in Nat /\ r \in Nat /\ n = x + r
    BY <1>2, <1>7 DEF x, r
  <2>2. n - r = x
    BY <2>1
  <2> QED
    BY <2>2 DEF Network, n, x, r
<1>9. q * z \in 0..(AllAddresses - z) /\ q * z \in 0..(AllAddresses - 1)
  BY <1>1, <1>7
<1>10. Network(g, z) \in Address /\ Num(Network(g, z)) = q * z
  BY <1>8, <1>9, NumOfNumber
<1>11. ASSUME NEW ip \in Address
       PROVE  InSubnet(g, z, ip) <=> q * z <= Num(ip) /\ Num(ip) < q * z + z
  <2> DEFINE m == Num(ip)  p == m \div z  s == m % z
  <2>1. m \in Nat
    BY OfNumOfAddress
  <2>2. p \in Nat /\ s \in 0..(z - 1) /\ m = p * z + s
    BY <1>1, <2>1, Division
  <2>3. InSubnet(g, z, ip) <=> p = q
    BY DEF InSubnet, n, q
  <2> HIDE DEF m, p, s
  <2> DEFINE x == q * z  y == p * z
  <2>4. /\ x \in Nat /\ y \in Nat /\ m = y + s
        /\ p = q => x = y
        /\ p < q => y + z <= x
        /\ q < p => x + z <= y
    BY <1>2, <1>4, <1>5, <2>2
  <2> HIDE DEF x, y
  <2>5. p = q <=> x <= m /\ m < x + z
    BY <1>1, <1>2, <2>2, <2>4
  <2> QED
    BY <2>3, <2>5 DEF m, x
<1> QED
  BY <1>9, <1>10, <1>11

(* The loop of allocVirtualIP (store.go:307-319) is well defined.          *)
LEMMA Search ==
  ASSUME NEW g, NEW z, NEW members
  PROVE  \E try :
    /\ AllocVirtualIP(g, z, members) = try[MaxTries][Network(g, z)]
    /\ \A i \in 0..MaxTries, ip \in Address :
         try[i][ip] = IF i = 0 \/ ~InSubnet(g, z, IncIP(ip)) THEN NoAddress
                      ELSE IF IncIP(ip) \in {g} \cup members THEN try[i - 1][IncIP(ip)]
                      ELSE IncIP(ip)
<1> DEFINE turn(t, i) == [ip \in Address |->
                            IF i = 0 \/ ~InSubnet(g, z, IncIP(ip)) THEN NoAddress
                            ELSE IF IncIP(ip) \in {g} \cup members THEN t[i - 1][IncIP(ip)]
                            ELSE IncIP(ip)]
           Def(t) == t = [i \in 0..MaxTries |-> turn(t, i)]
           X == [Address -> Address \cup {NoAddress}]
           none == [ip \in Address |-> NoAddress]
           more(h) == [ip \in Address |->
                         IF ~InSubnet(g, z, IncIP(ip)) THEN NoAddress
                         ELSE IF IncIP(ip) \in {g} \cup members THEN h[IncIP(ip)]
                         ELSE IncIP(ip)]
           step == [n \in Nat |-> [h \in X |-> more(h)]]
<1>1. none \in X /\ step \in [Nat -> [X -> X]]
  <2>1. ASSUME NEW h \in X
        PROVE  more(h) \in X
    BY IncIPCounts
  <2> HIDE DEF more, X
  <2>2. step \in [Nat -> [X -> X]]
    BY <2>1
  <2> QED
    BY <2>2 DEF X
<1> HIDE DEF X, none, step
<1>2. PICK f : Follows(f, X, none, step)
  BY <1>1, Recursion
<1> USE DEF Follows, X, none, step
<1>3. \A n \in Nat : f[n + 1] = more(f[n])
  <2> HIDE DEF X, more
  <2> QED
    BY <1>2
<1> DEFINE t == [i \in 0..MaxTries |-> f[i]]
<1>4. MaxTries \in Nat
  BY AddressesAssumption
<1>5. ASSUME NEW i \in 0..MaxTries
      PROVE  t[i] = turn(t, i)
  <2>1. CASE i = 0
    <3>1. t[i] = none
      BY <1>2, <1>4, <2>1
    <3>2. turn(t, i) = none
      BY <2>1
    <3> QED
      BY <3>1, <3>2
  <2>2. CASE i # 0
    <3>1. i - 1 \in Nat /\ i - 1 \in 0..MaxTries /\ (i - 1) + 1 = i
      BY <1>4, <2>2
    <3>2. t[i] = more(t[i - 1])
      <4> HIDE DEF more
      <4> QED
        BY <1>3, <3>1
    <3> HIDE DEF t
    <3>3. turn(t, i) = more(t[i - 1])
      BY <2>2
    <3> QED
      BY <3>2, <3>3
  <2> QED
    BY <2>1, <2>2
<1>6. Def(t)
  <2> HIDE DEF turn
  <2> QED
    BY <1>5
<1>7. AllocVirtualIP(g, z, members) = (CHOOSE try : Def(try))[MaxTries][Network(g, z)]
  BY DEF AllocVirtualIP
<1>8. Def(CHOOSE try : Def(try))
  <2> HIDE DEF Def
  <2> QED
    BY <1>6
<1> QED
  <2> DEFINE try == CHOOSE u : Def(u)
  <2>1. Def(try) /\ AllocVirtualIP(g, z, members) = try[MaxTries][Network(g, z)]
    BY <1>7, <1>8
  <2> HIDE DEF try
  <2>2. ASSUME NEW i \in 0..MaxTries
        PROVE  try[i] = turn(try, i)
    <3> HIDE DEF turn
    <3> QED
      BY <2>1
  <2>3. ASSUME NEW i \in 0..MaxTries, NEW ip \in Address
        PROVE  try[i][ip] = IF i = 0 \/ ~InSubnet(g, z, IncIP(ip)) THEN NoAddress
                            ELSE IF IncIP(ip) \in {g} \cup members THEN try[i - 1][IncIP(ip)]
                            ELSE IncIP(ip)
    BY <2>2
  <2> QED
    BY <2>1, <2>3
(* allocVirtualIP finds the first free address of the subnet, if one of    *)
(* the MaxTries addresses after the network address is free; the last      *)
(* address of the subnet counts like any other (store.go:291-319).         *)
THEOREM AllocFindsFirstFree ==
  ASSUME NEW g \in Address, NEW z \in 1..AllAddresses, AllAddresses % z = 0, NEW members
  PROVE  IF FreeAt(g, z, members) = {} THEN AllocVirtualIP(g, z, members) = NoAddress
         ELSE AllocVirtualIP(g, z, members)
                = OfNum(Num(Network(g, z)) + Min(FreeAt(g, z, members)))
<1>1. PICK first \in 0..(AllAddresses - z) :
           /\ Network(g, z) \in Address /\ Num(Network(g, z)) = first
           /\ \A ip \in Address :
                InSubnet(g, z, ip) <=> first <= Num(ip) /\ Num(ip) < first + z
  BY Block
<1>2. PICK try :
        /\ AllocVirtualIP(g, z, members) = try[MaxTries][Network(g, z)]
        /\ \A i \in 0..MaxTries, ip \in Address :
             try[i][ip] = IF i = 0 \/ ~InSubnet(g, z, IncIP(ip)) THEN NoAddress
                          ELSE IF IncIP(ip) \in {g} \cup members THEN try[i - 1][IncIP(ip)]
                          ELSE IncIP(ip)
  BY Search
<1> DEFINE addr(k) == OfNum(first + k)
           used == {g} \cup members
           free(k, i) == {j \in (k + 1)..(k + i) : j < z /\ addr(j) \notin used}
           Found(k, i, r) ==
             \/ free(k, i) = {} /\ r = NoAddress
             \/ \E m \in free(k, i) : (\A j \in free(k, i) : m <= j) /\ r = addr(m)
           T == {i \in Nat : \A k \in 0..(z - 1) :
                               k + i <= MaxTries => Found(k, i, try[i][addr(k)])}
<1>3. AllAddresses \in Nat \ {0} /\ MaxTries \in 0..(AllAddresses - 1) /\ first \in Nat /\ z \in Nat
  BY <1>1, AllAddressesType, AddressesAssumption
<1>4. \A k \in 0..(z - 1) : addr(k) \in Address /\ Num(addr(k)) = first + k
  BY <1>1, <1>3, NumOfNumber
<1>5. addr(0) = Network(g, z)
  <2>1. first + 0 = first
    BY <1>3
  <2> QED
    BY <1>1, <2>1, OfNumOfAddress
<1>6. ASSUME NEW k \in 0..(z - 1), k < MaxTries
      PROVE  /\ IncIP(addr(k)) \in Address
             /\ InSubnet(g, z, IncIP(addr(k))) <=> k + 1 < z
             /\ k + 1 < z => IncIP(addr(k)) = addr(k + 1)
  <2> DEFINE next == IncIP(addr(k))
  <2>1. /\ next \in Address /\ Num(next) \in 0..(AllAddresses - 1) /\ OfNum(Num(next)) = next
        /\ Num(next) = IF first + k = AllAddresses - 1 THEN 0 ELSE first + k + 1
    BY <1>4, IncIPCounts, OfNumOfAddress
  <2>2. InSubnet(g, z, next) <=> first <= Num(next) /\ Num(next) < first + z
    BY <1>1, <2>1
  <2> HIDE DEF next, addr
  <2>3. first + z <= AllAddresses /\ k \in Nat /\ k < z
    BY <1>1, <1>3
  <2>4. CASE first + k = AllAddresses - 1
    <3>1. k + 1 = z /\ Num(next) = 0
      BY <1>3, <2>1, <2>3, <2>4
    <3>2. first > 0
      BY <1>3, <1>6, <2>3, <2>4
    <3> QED
      BY <1>3, <2>1, <2>2, <3>1, <3>2 DEF next
  <2>5. CASE first + k # AllAddresses - 1
    <3>1. Num(next) = first + k + 1
      BY <2>1, <2>5
    <3>2. Num(next) < first + z <=> k + 1 < z
      BY <1>3, <2>3, <3>1
    <3>3. first <= Num(next)
      BY <1>3, <2>3, <3>1
    <3>4. first + k + 1 = first + (k + 1)
      BY <1>3, <2>3
    <3>5. next = addr(k + 1)
      BY <2>1, <3>1, <3>4 DEF addr
    <3> QED
      BY <2>1, <2>2, <3>2, <3>3, <3>5 DEF next
  <2> QED
    BY <2>4, <2>5
<1> HIDE DEF addr
<1>7. 0 \in T
  <2> SUFFICES ASSUME NEW k \in 0..(z - 1)
               PROVE  free(k, 0) = {} /\ try[0][addr(k)] = NoAddress
    OBVIOUS
  <2>1. free(k, 0) = {}
    BY <1>3
  <2>2. try[0][addr(k)] = NoAddress
    BY <1>2, <1>3, <1>4
  <2> QED
    BY <2>1, <2>2
<1>8. ASSUME NEW i \in Nat, i \in T
      PROVE  i + 1 \in T
  <2> SUFFICES ASSUME NEW k \in 0..(z - 1), k + (i + 1) <= MaxTries
               PROVE  Found(k, i + 1, try[i + 1][addr(k)])
    OBVIOUS
  <2> DEFINE next == IncIP(addr(k))
             r == try[i + 1][addr(k)]
  <2>1. i + 1 \in 0..MaxTries /\ i + 1 # 0 /\ (i + 1) - 1 = i /\ k < MaxTries /\ k \in Nat
    BY <1>3
  <2>2. r = IF ~InSubnet(g, z, next) THEN NoAddress
            ELSE IF next \in used THEN try[i][next] ELSE next
    BY <1>2, <1>4, <2>1
  <2>3. /\ InSubnet(g, z, next) <=> k + 1 < z
        /\ k + 1 < z => next = addr(k + 1)
    BY <1>6, <2>1
  <2> HIDE DEF next, r, used
  <2>4. CASE ~(k + 1 < z)
    <3>1. free(k, i + 1) = {} /\ r = NoAddress
      BY <1>3, <2>1, <2>2, <2>3, <2>4
    <3> QED
      BY <3>1 DEF r
  <2>5. CASE k + 1 < z /\ addr(k + 1) \in used
    <3>1. r = try[i][addr(k + 1)] /\ k + 1 \in 0..(z - 1) /\ (k + 1) + i <= MaxTries
      BY <1>3, <2>1, <2>2, <2>3, <2>5
    <3>2. Found(k + 1, i, r)
      BY <1>8, <3>1
    <3>3. free(k, i + 1) = free(k + 1, i)
      <4>1. \A j : j \in free(k, i + 1) <=> j \in free(k + 1, i)
        BY <1>3, <2>1, <2>5
      <4> QED
        BY <4>1
    <3> HIDE DEF free
    <3> QED
      BY <3>2, <3>3 DEF r
  <2>6. CASE k + 1 < z /\ addr(k + 1) \notin used
    <3>1. r = addr(k + 1)
      BY <2>2, <2>3, <2>6
    <3>2. k + 1 \in free(k, i + 1) /\ \A j \in free(k, i + 1) : k + 1 <= j
      BY <1>3, <2>1, <2>6
    <3> HIDE DEF free
    <3> QED
      BY <3>1, <3>2 DEF r
  <2> QED
    BY <2>4, <2>5, <2>6
<1>9. MaxTries \in T
  <2> HIDE DEF T
  <2>1. Nat \subseteq T
    BY <1>7, <1>8, Induction
  <2> QED
    BY <1>3, <2>1
<1>10. Found(0, MaxTries, AllocVirtualIP(g, z, members))
  <2>1. 0 \in 0..(z - 1) /\ 0 + MaxTries <= MaxTries
    BY <1>3
  <2> HIDE DEF Found
  <2> QED
    BY <1>2, <1>5, <1>9, <2>1
<1>11. FreeAt(g, z, members) = free(0, MaxTries)
  <2>1. (0 + 1)..(0 + MaxTries) = 1..MaxTries
    BY <1>3
  <2>2. \A k : OfNum(Num(Network(g, z)) + k) = addr(k)
    BY <1>1 DEF addr
  <2>3. \A j : j \in FreeAt(g, z, members) <=> j \in free(0, MaxTries)
    BY <2>1, <2>2 DEF FreeAt
  <2> HIDE DEF free
  <2> QED
    BY <2>3 DEF FreeAt, free
<1>12. ASSUME NEW m \in free(0, MaxTries), \A j \in free(0, MaxTries) : m <= j
       PROVE  Min(free(0, MaxTries)) = m
  <2>1. free(0, MaxTries) \subseteq Nat
    BY <1>3
  <2> HIDE DEF free
  <2> QED
    BY <1>12, <2>1 DEF Min
<1> HIDE DEF free
<1>13. \A k : OfNum(Num(Network(g, z)) + k) = addr(k)
  BY <1>1 DEF addr
<1> QED
  BY <1>10, <1>11, <1>12, <1>13
----------------------------------------------------------------------------
(* The state of relayHandler's loop.                                       *)
LoopState == [best : Session \cup {NoRelay}, reads : Int, over : BOOLEAN]

(* What is set by another worker: which session's time, from which reading *)
(* on, and what a torn reading finds.                                      *)
Setting == [node : Int, from : Int, torn : Int]

(* A time that is read is a time.                                          *)
LEMMA TimeReadType ==
  ASSUME NEW s \in Session, NEW set \in Setting, NEW k \in Int
  PROVE  /\ TimeRead(s, set, k) \in Int
         /\ s.node # set.node => TimeRead(s, set, k) = s.relayTime
<1>1. set.from \in Int /\ set.torn \in Int /\ s.relayTime \in Int /\ Now \in Int
  BY RelayAssumption DEF Session, Setting
<1>2. CASE s.node # set.node \/ k < set.from
  <2>1. TimeRead(s, set, k) = s.relayTime
    BY <1>1, <1>2 DEF TimeRead
  <2> QED
    BY <1>1, <2>1
<1>3. CASE s.node = set.node /\ k = set.from
  <2>1. TimeRead(s, set, k) = set.torn
    BY <1>1, <1>3 DEF TimeRead
  <2> QED
    BY <1>1, <1>3, <2>1
<1>4. CASE s.node = set.node /\ k > set.from
  <2>1. TimeRead(s, set, k) = Now
    BY <1>1, <1>4 DEF TimeRead
  <2> QED
    BY <1>1, <1>4, <2>1
<1> QED
  BY <1>1, <1>2, <1>3, <1>4

(* One iteration.                                                          *)
LEMMA VisitType ==
  ASSUME NEW req, NEW peer, NEW set \in Setting, NEW loop \in LoopState, NEW s \in Session
  PROVE  Visit(req, peer, set, loop, s) \in LoopState
<1>1. CASE loop.over \/ ~Usable(req, peer, s)
  BY <1>1 DEF Visit
<1>2. CASE ~(loop.over \/ ~Usable(req, peer, s))
  <2> DEFINE k == IF loop.best = NoRelay THEN 1 ELSE 3
             b == IF Better(loop.best, s, set, loop.reads) THEN s ELSE loop.best
             o == TimeRead(s, set, loop.reads + k) < Now - IdleTime
  <2>1. loop.reads \in Int /\ loop.reads + k \in Int /\ loop.best \in Session \cup {NoRelay}
    BY DEF LoopState
  <2>2. o \in BOOLEAN
    BY <2>1, TimeReadType, RelayAssumption
  <2>3. b \in Session \cup {NoRelay}
    BY <2>1
  <2>4. Visit(req, peer, set, loop, s) = [best |-> b, reads |-> loop.reads + k, over |-> o]
    BY <1>2 DEF Visit
  <2> HIDE DEF b, o, k
  <2> QED
    BY <2>1, <2>2, <2>3, <2>4 DEF LoopState
<1> QED
  BY <1>1, <1>2

(* The states of a loop over order that ends with the relay.               *)
IsLoop(loop, req, peer, order, set) ==
  /\ RelayNode(req, peer, order, set) = loop[Len(order)].best
  /\ loop[0] = [best |-> NoRelay, reads |-> 0, over |-> FALSE]
  /\ \A i \in 0..Len(order) : loop[i] \in LoopState
  /\ \A i \in 0..(Len(order) - 1) :
       loop[i + 1] = Visit(req, peer, set, loop[i], order[i + 1])

(* The loop of relayHandler (relayhandler.go:67-98) is well defined.       *)
LEMMA RelayLoop ==
  ASSUME NEW req, NEW peer, NEW set \in Setting, NEW order \in Seq(Session)
  PROVE  \E loop : IsLoop(loop, req, peer, order, set)
<1> DEFINE first == [best |-> NoRelay, reads |-> 0, over |-> FALSE]
           turn(l, i) == IF i = 0 THEN first ELSE Visit(req, peer, set, l[i - 1], order[i])
           Def(l) == l = [i \in 0..Len(order) |-> turn(l, i)]
           more(n, x) == IF n < Len(order) THEN Visit(req, peer, set, x, order[n + 1]) ELSE x
           step == [n \in Nat |-> [x \in LoopState |-> more(n, x)]]
<1>1. Len(order) \in Nat /\ \A i \in 1..Len(order) : order[i] \in Session
  OBVIOUS
<1>2. first \in LoopState /\ step \in [Nat -> [LoopState -> LoopState]]
  <2>1. first \in LoopState
    BY DEF LoopState
  <2>2. ASSUME NEW n \in Nat, NEW x \in LoopState
        PROVE  more(n, x) \in LoopState
    BY <1>1, VisitType
  <2> HIDE DEF more, first
  <2> QED
    BY <2>1, <2>2
<1> HIDE DEF first, step
<1>3. PICK f : Follows(f, LoopState, first, step)
  BY <1>2, Recursion
<1>4. f \in [Nat -> LoopState] /\ f[0] = first /\ \A n \in Nat : f[n + 1] = more(n, f[n])
  <2> HIDE DEF more
  <2> QED
    BY <1>3 DEF Follows, step
<1> DEFINE t == [i \in 0..Len(order) |-> f[i]]
<1>5. ASSUME NEW i \in 0..Len(order)
      PROVE  t[i] = turn(t, i)
  <2>1. CASE i = 0
    BY <1>4, <2>1
  <2>2. CASE i # 0
    <3>1. i - 1 \in Nat /\ i - 1 \in 0..Len(order) /\ (i - 1) + 1 = i /\ i - 1 < Len(order)
      BY <1>1, <2>2
    <3>2. f[i] = Visit(req, peer, set, f[i - 1], order[i])
      BY <1>4, <3>1
    <3> QED
      BY <2>2, <3>1, <3>2
  <2> QED
    BY <2>1, <2>2
<1>6. Def(t)
  <2> HIDE DEF turn
  <2> QED
    BY <1>5
<1>7. RelayNode(req, peer, order, set) = (CHOOSE l : Def(l))[Len(order)].best
  BY DEF RelayNode, first
<1>8. Def(CHOOSE l : Def(l))
  <2> HIDE DEF Def
  <2> QED
    BY <1>6
<1> DEFINE loop == CHOOSE l : Def(l)
<1>9. Def(loop) /\ RelayNode(req, peer, order, set) = loop[Len(order)].best
  BY <1>7, <1>8
<1> HIDE DEF loop
<1>10. ASSUME NEW i \in 0..Len(order)
       PROVE  loop[i] = turn(loop, i)
  <2> HIDE DEF turn
  <2> QED
    BY <1>9
<1>11. loop[0] = first
  BY <1>1, <1>10
<1>12. \A i \in 0..(Len(order) - 1) : loop[i + 1] = Visit(req, peer, set, loop[i], order[i + 1])
  BY <1>1, <1>10
<1>13. \A i \in 0..Len(order) : loop[i] \in LoopState
  <2> DEFINE T == {i \in Nat : i <= Len(order) => loop[i] \in LoopState}
  <2>1. 0 \in T
    BY <1>2, <1>11
  <2>2. ASSUME NEW i \in Nat, i \in T
        PROVE  i + 1 \in T
    <3> SUFFICES ASSUME i + 1 <= Len(order)
                 PROVE  loop[i + 1] \in LoopState
      OBVIOUS
    <3>1. i \in 0..(Len(order) - 1) /\ loop[i] \in LoopState /\ order[i + 1] \in Session
      BY <1>1, <2>2
    <3> QED
      BY <1>12, <3>1, VisitType
  <2>3. Nat \subseteq T
    <3> HIDE DEF T
    <3> QED
      BY <2>1, <2>2, Induction
  <2> QED
    BY <1>1, <2>3
<1> QED
  BY <1>9, <1>11, <1>12, <1>13 DEF first, IsLoop
(* What the loop has found when it has gone over the first sessions: one   *)
(* of the usable ones, if there was one, and the idlest of them or one     *)
(* that has been idle for long enough, if no time was changed meanwhile.   *)
LEMMA RelayFound ==
  ASSUME NEW req, NEW peer, NEW set \in Setting, NEW order \in Seq(Session)
  PROVE  LET usable == {i \in 1..Len(order) : Usable(req, peer, order[i])}
             best == RelayNode(req, peer, order, set)
         IN /\ usable = {} => best = NoRelay
            /\ usable # {} => \E i \in usable : best = order[i]
            /\ usable # {} /\ (\A i \in usable : order[i].node # set.node)
                 => \/ best.relayTime < Now - IdleTime
                    \/ \A i \in usable : best.relayTime <= order[i].relayTime
<1>0. PICK loop : IsLoop(loop, req, peer, order, set)
  BY RelayLoop
<1>1. /\ RelayNode(req, peer, order, set) = loop[Len(order)].best
      /\ loop[0] = [best |-> NoRelay, reads |-> 0, over |-> FALSE]
      /\ \A i \in 0..Len(order) : loop[i] \in LoopState
      /\ \A i \in 0..(Len(order) - 1) :
           loop[i + 1] = Visit(req, peer, set, loop[i], order[i + 1])
  BY <1>0 DEF IsLoop
<1> DEFINE usable(n) == {i \in 1..n : Usable(req, peer, order[i])}
           still == \A i \in usable(Len(order)) : order[i].node # set.node
           Some(n, l) == /\ usable(n) = {} => l.best = NoRelay /\ ~l.over
                         /\ usable(n) # {} => \E i \in usable(n) : l.best = order[i]
           Idlest(n, l) == usable(n) # {} /\ still =>
                             \/ l.best.relayTime < Now - IdleTime
                             \/ ~l.over /\ \A i \in usable(n) : l.best.relayTime <= order[i].relayTime
           T == {n \in Nat : n <= Len(order) => Some(n, loop[n]) /\ Idlest(n, loop[n])}
<1>2. Len(order) \in Nat /\ \A i \in 1..Len(order) : order[i] \in Session
  OBVIOUS
<1>3. 0 \in T
  BY <1>1
<1>4. ASSUME NEW n \in Nat, n \in T
      PROVE  n + 1 \in T
  <2> SUFFICES ASSUME n + 1 <= Len(order)
               PROVE  Some(n + 1, loop[n + 1]) /\ Idlest(n + 1, loop[n + 1])
    OBVIOUS
  <2> DEFINE l == loop[n]  m == loop[n + 1]  s == order[n + 1]
             k == IF l.best = NoRelay THEN 1 ELSE 3
  <2>1. /\ n \in 0..(Len(order) - 1) /\ n \in 0..Len(order) /\ n + 1 \in 1..Len(order)
        /\ l \in LoopState /\ s \in Session /\ m = Visit(req, peer, set, l, s)
        /\ Some(n, l) /\ Idlest(n, l)
    BY <1>1, <1>2, <1>4
  <2>2. usable(n + 1) = usable(n) \cup (IF Usable(req, peer, s) THEN {n + 1} ELSE {})
    BY <2>1
  <2>3. \A i \in usable(n + 1) : i \in usable(Len(order)) /\ order[i] \in Session
    BY <1>2, <2>1
  <2>4. /\ l.best \in Session \cup {NoRelay} /\ l.reads \in Int /\ l.over \in BOOLEAN
        /\ \A x \in Session : x # NoRelay /\ x.relayTime \in Int
        /\ Now - IdleTime \in Int /\ k \in {1, 3}
    <3>1. \A x \in Session : x # NoRelay /\ x.relayTime \in Int
      BY RelayAssumption DEF Session
    <3>2. l.best \in Session \cup {NoRelay} /\ l.reads \in Int /\ l.over \in BOOLEAN
      BY <2>1 DEF LoopState
    <3>3. Now - IdleTime \in Int
      BY RelayAssumption
    <3> QED
      BY <3>1, <3>2, <3>3
  <2> HIDE DEF usable, l, m, s
  <2>5. CASE ~Usable(req, peer, s)
    <3>1. m = l /\ usable(n + 1) = usable(n)
      BY <2>1, <2>2, <2>5 DEF Visit
    <3> QED
      BY <2>1, <3>1 DEF m
  <2>6. CASE Usable(req, peer, s) /\ l.over
    <3>1. m = l /\ usable(n) # {} /\ usable(n) \subseteq usable(n + 1)
      BY <2>1, <2>2, <2>6 DEF Visit
    <3>2. Some(n + 1, m)
      BY <2>1, <3>1
    <3>3. Idlest(n + 1, m)
      BY <2>1, <2>6, <3>1
    <3> QED
      BY <3>2, <3>3 DEF m
  <2>7. CASE Usable(req, peer, s) /\ ~l.over
    <3>1. /\ m.best = IF Better(l.best, s, set, l.reads) THEN s ELSE l.best
          /\ m.over = (TimeRead(s, set, l.reads + k) < Now - IdleTime)
      BY <2>1, <2>7 DEF Visit
    <3>2. n + 1 \in usable(n + 1) /\ usable(n) \subseteq usable(n + 1) /\ s = order[n + 1]
      BY <2>2, <2>7 DEF s
    <3>3. l.best = NoRelay => usable(n) = {} /\ m.best = s
      BY <2>1, <2>3, <2>4, <3>1, <3>2 DEF Better
    <3>4. Some(n + 1, m)
      BY <2>1, <3>1, <3>2, <3>3
    <3>5. ASSUME still
          PROVE  Idlest(n + 1, m)
      <4>1. s.node # set.node /\ (l.best # NoRelay => l.best.node # set.node)
        BY <2>1, <2>3, <3>2, <3>5
      <4>2. m.over <=> s.relayTime < Now - IdleTime
        <5>1. l.reads + k \in Int
          BY <2>4
        <5>2. TimeRead(s, set, l.reads + k) = s.relayTime
          BY <2>1, <4>1, <5>1, TimeReadType
        <5> QED
          BY <3>1, <5>2
      <4>3. l.best # NoRelay => (Better(l.best, s, set, l.reads) <=> s.relayTime < l.best.relayTime)
        <5>1. l.reads + 1 \in Int /\ l.reads + 2 \in Int
          BY <2>4
        <5> QED
          BY <2>1, <2>4, <4>1, <5>1, TimeReadType DEF Better
      <4>4. CASE l.best = NoRelay
        <5>1. usable(n + 1) = {n + 1} /\ m.best = s
          BY <2>2, <2>7, <3>3, <4>4
        <5>2. s.relayTime \in Int
          BY <2>1, <2>4
        <5> QED
          BY <2>4, <3>2, <4>2, <5>1, <5>2
      <4>5. CASE l.best # NoRelay
        <5>1. usable(n) # {} /\ l.best \in Session /\ l.best.relayTime \in Int /\ s.relayTime \in Int
          BY <2>1, <2>4, <4>5
        <5>2. /\ m.best = IF s.relayTime < l.best.relayTime THEN s ELSE l.best
              /\ m.best.relayTime <= s.relayTime /\ m.best.relayTime <= l.best.relayTime
              /\ m.best.relayTime \in Int
          BY <3>1, <4>3, <4>5, <5>1
        <5>3. CASE s.relayTime < Now - IdleTime
          BY <2>4, <5>1, <5>2, <5>3
        <5>4. CASE ~(s.relayTime < Now - IdleTime)
          <6>1. CASE l.best.relayTime < Now - IdleTime
            BY <2>4, <5>1, <5>2, <6>1
          <6>2. CASE \A i \in usable(n) : l.best.relayTime <= order[i].relayTime
            <7>1. ASSUME NEW i \in usable(n + 1)
                  PROVE  m.best.relayTime <= order[i].relayTime
              <8>1. order[i].relayTime \in Int /\ (i = n + 1 \/ i \in usable(n))
                BY <2>2, <2>3, <2>4
              <8> QED
                BY <3>2, <5>1, <5>2, <6>2, <8>1
            <7> QED
              BY <4>2, <5>4, <7>1
          <6> QED
            BY <2>1, <3>5, <5>1, <6>1, <6>2
        <5> QED
          BY <5>3, <5>4
      <4> QED
        BY <4>4, <4>5
    <3> QED
      BY <3>4, <3>5 DEF m
  <2> QED
    BY <2>5, <2>6, <2>7
<1>5. Len(order) \in T
  <2> HIDE DEF T
  <2>1. Nat \subseteq T
    BY <1>3, <1>4, Induction
  <2> QED
    BY <1>2, <2>1
<1>6. Some(Len(order), loop[Len(order)]) /\ Idlest(Len(order), loop[Len(order)])
  BY <1>2, <1>5
<1> QED
  BY <1>1, <1>6
----------------------------------------------------------------------------
(* Every input is one the code can meet: an address and a size of a        *)
(* subnet, or a map of sessions in which node 0 is at most one of the ends *)
(* (so that no relay's time is written when set.node is 0).                *)
InputOK ==
  /\ input.kind = "address" =>
       /\ input.gateway \in Address /\ input.size \in 1..AllAddresses
       /\ AllAddresses % input.size = 0
  /\ input.kind = "relay" =>
       /\ input.order \in Seq(Session) /\ input.set \in Setting
       /\ \A i \in 1..Len(input.order) :
            input.order[i].node \in {input.req.node, input.peer.node} \/ input.order[i].node # 0

(* The invariant.                                                          *)
LEMMA InputsOK == Spec => []InputOK
<1>1. Init => InputOK
  BY DEF Init, NoInput, InputOK
<1>2. ASSUME PickAddress
      PROVE  InputOK'
  <2>1. PICK g \in Gateways, z \in Sizes, n \in Taken, x \in Taken :
          input' = [kind |-> "address", gateway |-> g, size |-> z, members |-> Members(g, z, n, x)]
    BY <1>2 DEF PickAddress
  <2>2. g \in Address /\ z \in 1..AllAddresses /\ AllAddresses % z = 0
    BY InputsAssumption
  <2> QED
    BY <2>1, <2>2 DEF InputOK
<1>3. ASSUME PickRelay
      PROVE  InputOK'
  <2>1. PICK e \in Ends, n \in 0..MaxOthers, k \in 1..MaxFrom, t \in Torn :
        \E o \in [1..n -> Others], x \in 0..n :
           \E order \in {e \o [i \in 1..n |-> [o[i] EXCEPT !.node = i]],
                         [i \in 1..n |-> [o[i] EXCEPT !.node = i]] \o e} :
              input' = [kind |-> "relay", req |-> e[1], peer |-> e[2], order |-> order,
                        set |-> [node |-> x, from |-> k, torn |-> t]]
    BY <1>3 DEF PickRelay
  <2>2. PICK o \in [1..n -> Others], x \in 0..n :
           \E order \in {e \o [i \in 1..n |-> [o[i] EXCEPT !.node = i]],
                         [i \in 1..n |-> [o[i] EXCEPT !.node = i]] \o e} :
              input' = [kind |-> "relay", req |-> e[1], peer |-> e[2], order |-> order,
                        set |-> [node |-> x, from |-> k, torn |-> t]]
    BY <2>1
  <2> DEFINE others == [i \in 1..n |-> [o[i] EXCEPT !.node = i]]
  <2>3. PICK order \in {e \o others, others \o e} :
              input' = [kind |-> "relay", req |-> e[1], peer |-> e[2], order |-> order,
                        set |-> [node |-> x, from |-> k, torn |-> t]]
    BY <2>2
  <2>4. n \in Nat /\ k \in Int /\ t \in Int /\ x \in Int
    BY InputsAssumption
  <2>5. e \in Seq(Session) /\ Len(e) = 2
    <3>1. PICK a \in Session, b \in Session : e = <<a, b>>
      BY InputsAssumption
    <3>2. <<a, b>> \in Seq(Session) /\ Len(<<a, b>>) = 2
      OBVIOUS
    <3> QED
      BY <3>1, <3>2
  <2>6. /\ others \in Seq(Session) /\ Len(others) = n
        /\ \A i \in 1..n : others[i].node # 0
    <3>1. ASSUME NEW i \in 1..n
          PROVE  others[i] \in Session /\ others[i].node # 0
      <4>1. o[i] \in Session /\ i \in Int /\ i # 0
        BY <2>4, InputsAssumption
      <4> QED
        BY <4>1 DEF Session
    <3>2. others \in [1..n -> Session]
      BY <3>1
    <3> HIDE DEF others
    <3> QED
      BY <2>4, <3>1, <3>2
  <2> HIDE DEF others
  <2>7. /\ order \in Seq(Session)
        /\ \A i \in 1..Len(order) : order[i].node \in {e[1].node, e[2].node} \/ order[i].node # 0
    <3>1. ASSUME NEW a \in Seq(Session), NEW b \in Seq(Session), NEW P,
                 \A i \in 1..Len(a) : a[i].node \in P, \A i \in 1..Len(b) : b[i].node \in P
          PROVE  a \o b \in Seq(Session) /\ \A i \in 1..Len(a \o b) : (a \o b)[i].node \in P
      <4>1. Len(a \o b) = Len(a) + Len(b)
        OBVIOUS
      <4>2. ASSUME NEW i \in 1..Len(a \o b)
            PROVE  (a \o b)[i].node \in P
        <5>1. CASE i <= Len(a)
          <6>1. i \in 1..Len(a) /\ (a \o b)[i] = a[i]
            BY <4>1, <5>1
          <6> QED
            BY <3>1, <6>1
        <5>2. CASE i > Len(a)
          <6>1. i - Len(a) \in 1..Len(b) /\ (a \o b)[i] = b[i - Len(a)]
            BY <4>1, <5>2
          <6> QED
            BY <3>1, <6>1
        <5> QED
          BY <5>1, <5>2
      <4> QED
        BY <4>2
    <3> DEFINE P == {e[1].node, e[2].node} \cup (Int \ {0})
    <3>2. \A i \in 1..Len(e) : e[i].node \in P
      BY <2>5
    <3>3. ASSUME NEW i \in 1..Len(others)
          PROVE  others[i].node \in P
      <4>1. others[i] \in Session /\ others[i].node # 0
        BY <2>6
      <4>2. others[i].node \in Int
        BY <4>1 DEF Session
      <4> QED
        BY <4>1, <4>2
    <3> HIDE DEF P
    <3>4. order \in Seq(Session) /\ \A i \in 1..Len(order) : order[i].node \in P
      <4>1. CASE order = e \o others
        BY <2>5, <2>6, <3>1, <3>2, <3>3, <4>1
      <4>2. CASE order = others \o e
        BY <2>5, <2>6, <3>1, <3>2, <3>3, <4>2
      <4> QED
        BY <2>3, <4>1, <4>2
    <3> QED
      BY <3>4 DEF P
  <2>8. [node |-> x, from |-> k, torn |-> t] \in Setting
    BY <2>4 DEF Setting
  <2> QED
    BY <2>3, <2>7, <2>8 DEF InputOK
<1>4. InputOK /\ UNCHANGED input => InputOK'
  BY DEF InputOK
<1> QED
  BY <1>1, <1>2, <1>3, <1>4, PTL DEF Spec, Next

(* The least of some numbers, if they are numbers and there is one.        *)
LEMMA LeastIs ==
  ASSUME NEW S, S \subseteq Nat, S # {}
  PROVE  Min(S) \in S /\ \A k \in S : Min(S) <= k
<1>1. \E m \in S : \A k \in S : m <= k
  BY Smallest
<1> QED
  BY <1>1 DEF Min

(* A new member gets the first free address of the subnet, and none only   *)
(* if none is free within reach (store.go:291-319); the broadcast address  *)
(* is left open.                                                           *)
THEOREM FirstFreeAllocated == Spec => []AllocFirstFree
<1>1. ASSUME InputOK, input.kind = "address",
             NEW g, g = input.gateway, NEW z, z = input.size,
             NEW free, free = FreeAt(g, z, input.members),
             NEW got, got = AllocVirtualIP(g, z, input.members)
      PROVE  IF free \ {z - 1} # {}
             THEN got = OfNum(Num(Network(g, z)) + Min(free \ {z - 1}))
             ELSE got \in {NoAddress} \cup {OfNum(Num(Network(g, z)) + k) : k \in free}
  <2>1. /\ g \in Address /\ z \in 1..AllAddresses /\ AllAddresses % z = 0
        /\ free \subseteq Nat /\ \A k \in free : k <= z - 1
    BY <1>1 DEF InputOK, FreeAt
  <2>2. IF free = {} THEN got = NoAddress ELSE got = OfNum(Num(Network(g, z)) + Min(free))
    BY <1>1, <2>1, AllocFindsFirstFree
  <2>3. CASE free \ {z - 1} # {}
    <3>1. PICK k \in free, m \in free \ {z - 1} :
            /\ k = Min(free) /\ \A j \in free : k <= j
            /\ m = Min(free \ {z - 1}) /\ \A j \in free \ {z - 1} : m <= j
      <4>1. Min(free) \in free /\ \A j \in free : Min(free) <= j
        BY <2>1, <2>3, LeastIs
      <4>2. /\ Min(free \ {z - 1}) \in free \ {z - 1}
            /\ \A j \in free \ {z - 1} : Min(free \ {z - 1}) <= j
        <5>1. free \ {z - 1} \subseteq Nat
          BY <2>1
        <5> QED
          BY <2>3, <5>1, LeastIs
      <4> QED
        BY <4>1, <4>2
    <3>2. k = m
      <4>1. k \in Nat /\ m \in Nat /\ z \in Nat /\ k <= m /\ m <= z - 1 /\ m # z - 1
        BY <2>1, <3>1
      <4>2. k \in free \ {z - 1}
        BY <4>1
      <4>3. m <= k
        BY <3>1, <4>2
      <4> QED
        BY <4>1, <4>3
    <3> QED
      BY <2>2, <2>3, <3>1, <3>2
  <2>4. CASE free \ {z - 1} = {}
    <3>1. free # {} => Min(free) \in free
      BY <2>1, LeastIs
    <3> QED
      BY <2>2, <2>4, <3>1
  <2> QED
    BY <2>3, <2>4
<1>2. InputOK => AllocFirstFree
  BY <1>1 DEF AllocFirstFree
<1> QED
  BY <1>2, InputsOK, PTL

(* CanRelay, which says what a relay must be, is the loop's own test, and  *)
(* the relays are the sessions that pass it.                               *)
LEMMA RelaysUsable ==
  ASSUME input.order \in Seq(Session)
  PROVE  LET usable == {i \in 1..Len(input.order) :
                          Usable(input.req, input.peer, input.order[i])}
         IN Relays = {input.order[i] : i \in usable}
<1>1. \A s : CanRelay(s) <=> Usable(input.req, input.peer, s)
  BY DEF CanRelay, Usable
<1>2. ToSet(input.order) = {input.order[i] : i \in 1..Len(input.order)}
  BY DEF ToSet
<1> QED
  BY <1>1, <1>2 DEF Relays

(* The relay is a node that can relay, if there is one, in whatever order  *)
(* the map is gone over and although other workers change the times that   *)
(* are compared (relayhandler.go:68-98).                                   *)
THEOREM RelayIsFit == Spec => []RelayFits
<1>1. InputOK => RelayFits
  <2> SUFFICES ASSUME InputOK, input.kind = "relay"
               PROVE  IF Relays = {} THEN Chosen = NoRelay ELSE Chosen \in Relays
    BY DEF RelayFits
  <2> DEFINE usable == {i \in 1..Len(input.order) : Usable(input.req, input.peer, input.order[i])}
  <2>1. input.order \in Seq(Session) /\ input.set \in Setting
    BY DEF InputOK
  <2>2. Relays = {input.order[i] : i \in usable}
    BY <2>1, RelaysUsable
  <2>3. usable = {} => Chosen = NoRelay
    BY <2>1, RelayFound DEF Chosen
  <2>4. usable # {} => \E i \in usable : Chosen = input.order[i]
    BY <2>1, RelayFound DEF Chosen
  <2> HIDE DEF usable
  <2> QED
    BY <2>2, <2>3, <2>4
<1> QED
  BY <1>1, InputsOK, PTL

(* It is the one that has been idle for longest, or for long enough, if no *)
(* other worker chooses at the same time (relayhandler.go:91-96).          *)
THEOREM RelayIsIdlest == Spec => []RelayIdlest
<1>1. InputOK => RelayIdlest
  <2> SUFFICES ASSUME InputOK, input.kind = "relay", input.set.node = 0, Relays # {}
               PROVE  \/ Chosen.relayTime < Now - IdleTime
                      \/ \A s \in Relays : Chosen.relayTime <= s.relayTime
    BY DEF RelayIdlest
  <2> DEFINE usable == {i \in 1..Len(input.order) : Usable(input.req, input.peer, input.order[i])}
  <2>1. input.order \in Seq(Session) /\ input.set \in Setting
    BY DEF InputOK
  <2>2. \A i \in usable : input.order[i].node # input.set.node
    BY DEF InputOK, Usable
  <2>3. Relays = {input.order[i] : i \in usable} /\ usable # {}
    BY <2>1, RelaysUsable
  <2>4. \/ Chosen.relayTime < Now - IdleTime
        \/ \A i \in usable : Chosen.relayTime <= input.order[i].relayTime
    BY <2>1, <2>2, <2>3, RelayFound DEF Chosen
  <2> QED
    BY <2>3, <2>4
<1> QED
  BY <1>1, InputsOK, PTL
=============================================================================
