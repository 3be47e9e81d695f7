---------------------------- MODULE Intake_proofs -----------------------------
(***************************************************************************)
(* Proofs about Intake, for every set of key pairs and devices, every body *)
(* posted in clear and every content of a packet.                          *)
(***************************************************************************)
EXTENDS Intake, TLAPS

-------------------------------------------------------------------------------
(***************************************************************************)
(* Answers.                                                                *)
(***************************************************************************)

\* The services answer 200, 422 or 500, whatever the data.
LEMMA ProcessStatus ==
  ASSUME NEW kind, NEW data
  PROVE  Process(kind, data) \in {"200", "422", "500"}
<1>1. \A c \in BOOLEAN : Require(c) \in {"ok", "422"}
  BY DEF Require
<1>2. \A v : CheckCode(v) \in {"ok", "422", "500"}
  BY DEF CheckCode, Require
<1>3. \A v : \A c \in BOOLEAN : Compare(v, c) \in {"ok", "422", "500"}
  BY DEF Compare, Require
<1>4. ValidateControle(data) \in {"ok", "422", "500"}
  BY <1>2 DEF ValidateControle, Both, Require
<1>5. ValidateVente(data) \in {"ok", "422", "500"}
  BY DEF ValidateVente, Both, Require, Compare
<1>6. QED
  BY <1>4, <1>5 DEF Process, Validate

\* What a packet is answered, and that 400 means that it does not decrypt.
LEMMA CipherAnswers ==
  ASSUME NEW kind, NEW d
  PROVE  /\ CipherStatus(kind, d) \in Statuses
         /\ CipherStatus(kind, d) = "400" => ~Decrypts
         /\ CipherStatus(kind, d) = "200"
              => Process(kind, packet.content.data) = "200"
  BY ProcessStatus DEF CipherStatus, Opened, Statuses

LEMMA ClearAnswers ==
  ASSUME NEW kind, NEW r
  PROVE  /\ ClearStatus(kind, r) \in Statuses
         /\ ClearStatus(kind, r) = "200"
              => IsRequest(kind, r) /\ Process(kind, Build(kind, r)) = "200"
  BY ProcessStatus DEF ClearStatus, Statuses

-------------------------------------------------------------------------------
(***************************************************************************)
(* Type correctness.                                                       *)
(***************************************************************************)
LEMMA TypeInit == Init => TypeOK
  BY DEF Init, TypeOK, Files, ServerStates, NoAnswer

\* The pair a process that is saving its keys has generated.
LEMMA ServerFields ==
  ASSUME TypeOK
  PROVE  /\ server.at \in {"down", "up", "private", "public"}
         /\ server.at \in {"private", "public"}
              => server.key \in KeyPairs /\ server = [at |-> server.at, key |-> server.key]
  BY DEF TypeOK, ServerStates

LEMMA PacketFields ==
  ASSUME TypeOK, packet # NoPacket
  PROVE  /\ packet \in Packets
         /\ packet.key \in KeyPairs
         /\ packet.content \in Contents
  BY DEF TypeOK, Packets

LEMMA TypeNext == TypeOK /\ [Next]_vars => TypeOK'
<1> SUFFICES ASSUME TypeOK, [Next]_vars PROVE TypeOK'
  OBVIOUS
<1>1. CASE Start
  <2>1. server' \in ServerStates
    BY <1>1 DEF Start, Saves, ServerStates
  <2>2. QED
    BY <1>1, <2>1 DEF Start, TypeOK
<1>2. CASE SaveKeypair
  <2>1. server' \in ServerStates
    <3>1. CASE server' = [server EXCEPT !.at = "public"]
      BY <1>2, <3>1, ServerFields DEF SaveKeypair, ServerStates
    <3>2. CASE server' = [at |-> "up"]
      BY <3>2 DEF ServerStates
    <3>3. CASE server' = server
      BY <3>3 DEF TypeOK
    <3>4. QED
      BY <1>2, <3>1, <3>2, <3>3 DEF SaveKeypair
  <2>2. private' \in Files /\ public' \in Files
    BY <1>2, ServerFields DEF SaveKeypair, TypeOK, Files
  <2>3. QED
    BY <1>2, <2>1, <2>2 DEF SaveKeypair, TypeOK
<1>3. CASE Crash
  BY <1>3 DEF Crash, TypeOK, ServerStates
<1>4. ASSUME NEW c \in Contents, NEW d \in Devices, Encrypt(c, d) PROVE TypeOK'
  BY <1>4 DEF Encrypt, TypeOK, Packets
<1>5. CASE Damage
  <2>1. packet' \in Packets
    BY <1>5, PacketFields DEF Damage, Packets
  <2>2. QED
    BY <1>5, <2>1 DEF Damage, TypeOK
<1>6. ASSUME NEW kind \in Kinds, NEW d \in Devices, SubmitCipher(kind, d)
      PROVE  TypeOK'
  <2>1. answer'.status \in Statuses
    BY <1>6, CipherAnswers DEF SubmitCipher
  <2>2. QED
    BY <1>6, <2>1 DEF SubmitCipher, TypeOK
<1>7. ASSUME NEW kind \in Kinds, NEW r \in Requests, SubmitClear(kind, r)
      PROVE  TypeOK'
  <2>1. answer'.status \in Statuses
    BY <1>7, ClearAnswers DEF SubmitClear
  <2>2. QED
    BY <1>7, <2>1 DEF SubmitClear, TypeOK
<1>8. CASE Received
  BY <1>8 DEF Received, TypeOK
<1>9. CASE UNCHANGED vars
  BY <1>9 DEF vars, TypeOK
<1>10. QED
  BY <1>1, <1>2, <1>3, <1>4, <1>5, <1>6, <1>7, <1>8, <1>9 DEF Next, Steps

\* No state has ill-typed files, packets or answers.
THEOREM TypeCorrect == Spec => []TypeOK
  BY TypeInit, TypeNext, PTL DEF Spec

-------------------------------------------------------------------------------
(***************************************************************************)
(* Keys.  A process that is writing the private key has found none that    *)
(* anybody could have used; one that is writing the public key has already *)
(* written the private key that belongs to it.                             *)
(***************************************************************************)
SavingOK ==
  /\ server.at = "private" => private \in {"absent", "torn"}
  /\ server.at = "public" => private = server.key

KeyInv == KeysKept /\ SavingOK

LEMMA KeyInit == Init => KeyInv
  BY KeyPairsAssumption DEF Init, KeyInv, KeysKept, SavingOK

\* Without a private key no public key can be read, and no packet was made.
LEMMA NoneWithoutPrivate ==
  ASSUME TypeOK, KeyInv, private \in {"absent", "torn"}
  PROVE  public \notin KeyPairs /\ packet = NoPacket
  BY KeyPairsAssumption, PacketFields DEF KeyInv, KeysKept

LEMMA KeyNext == TypeOK /\ KeyInv /\ [Next]_vars => KeyInv'
<1> SUFFICES ASSUME TypeOK, KeyInv, [Next]_vars PROVE KeyInv'
  OBVIOUS
<1> USE DEF KeyInv, KeysKept, SavingOK
<1>1. CASE Start
  BY <1>1 DEF Start, Saves
<1>2. CASE SaveKeypair
  <2>1. CASE server.at = "private"
    <3>1. public \notin KeyPairs /\ packet = NoPacket
      BY <2>1, NoneWithoutPrivate
    <3>2. UNCHANGED <<public, packet>>
      BY <1>2, <2>1 DEF SaveKeypair
    <3>3. CASE private = "torn"
      <4>1. private' = server.key /\ server' = [server EXCEPT !.at = "public"]
        BY <1>2, <2>1, <3>3 DEF SaveKeypair
      <4>2. server'.at = "public" /\ server'.key = server.key
        BY <2>1, <4>1, ServerFields
      <4>3. QED
        BY <3>1, <3>2, <4>1, <4>2
    <3>4. CASE private # "torn"
      BY <1>2, <2>1, <3>1, <3>2, <3>4 DEF SaveKeypair
    <3>5. QED
      BY <3>3, <3>4
  <2>2. CASE server.at = "public"
    <3>1. private = server.key /\ UNCHANGED <<private, packet>>
      BY <1>2, <2>2 DEF SaveKeypair
    <3>2. public' = server.key \/ public' = "torn"
      BY <1>2, <2>2 DEF SaveKeypair
    <3>3. server' = [at |-> "up"] \/ server' = server
      BY <1>2, <2>2 DEF SaveKeypair
    <3>4. QED
      BY <2>2, <3>1, <3>2, <3>3, KeyPairsAssumption
  <2>3. QED
    BY <1>2, <2>1, <2>2 DEF SaveKeypair
<1>3. CASE Crash
  BY <1>3 DEF Crash
<1>4. ASSUME NEW c \in Contents, NEW d \in Devices, Encrypt(c, d) PROVE KeyInv'
  BY <1>4 DEF Encrypt
<1>5. CASE Damage
  <2>1. packet'.key = packet.key
    BY <1>5, PacketFields DEF Damage, Packets
  <2>2. QED
    BY <1>5, <2>1 DEF Damage
<1>6. ASSUME NEW kind \in Kinds, NEW d \in Devices, SubmitCipher(kind, d)
      PROVE  KeyInv'
  BY <1>6 DEF SubmitCipher
<1>7. ASSUME NEW kind \in Kinds, NEW r \in Requests, SubmitClear(kind, r)
      PROVE  KeyInv'
  BY <1>7 DEF SubmitClear
<1>8. CASE Received
  BY <1>8 DEF Received
<1>9. CASE UNCHANGED vars
  BY <1>9 DEF vars
<1>10. QED
  BY <1>1, <1>2, <1>3, <1>4, <1>5, <1>6, <1>7, <1>8, <1>9 DEF Next, Steps

LEMMA KeyInvariant == Spec => []KeyInv
  BY TypeInit, TypeNext, KeyInit, KeyNext, PTL DEF Spec

\* A pair whose public key could ever be read stays in private_key.pem, however
\* often the process dies while it makes its keys.
THEOREM KeysAreKept == Spec => []KeysKept
<1>1. KeyInv => KeysKept
  BY DEF KeyInv
<1>2. QED
  BY <1>1, KeyInvariant, PTL

-------------------------------------------------------------------------------
(***************************************************************************)
(* What was answered.                                                      *)
(***************************************************************************)

\* The answer that is pending, in terms of the state it was given in, which is
\* still the state.
AnswerInv ==
  \/ answer = NoAnswer
  \/ \E kind \in Kinds, d \in Devices :
       /\ packet # NoPacket
       /\ answer = [route |-> "chiffre", kind |-> kind,
                    data |-> packet.content.data, status |-> CipherStatus(kind, d)]
  \/ \E kind \in Kinds, r \in Requests :
       answer = [route |-> "clair", kind |-> kind, data |-> r,
                 status |-> ClearStatus(kind, r)]

LEMMA AnswerInit == Init => AnswerInv
  BY DEF Init, AnswerInv

LEMMA AnswerNext == AnswerInv /\ [Next]_vars => AnswerInv'
<1> SUFFICES ASSUME AnswerInv, [Next]_vars PROVE AnswerInv'
  OBVIOUS
<1>1. CASE UNCHANGED vars
  BY <1>1 DEF vars, AnswerInv, CipherStatus, Decrypts
<1>2. CASE Received
  BY <1>2 DEF Received, AnswerInv
<1>3. CASE answer = NoAnswer /\ Steps
  <2>1. ASSUME NEW kind \in Kinds, NEW d \in Devices, SubmitCipher(kind, d)
        PROVE  AnswerInv'
    BY <2>1 DEF SubmitCipher, AnswerInv, CipherStatus, Decrypts
  <2>2. ASSUME NEW kind \in Kinds, NEW r \in Requests, SubmitClear(kind, r)
        PROVE  AnswerInv'
    BY <2>2 DEF SubmitClear, AnswerInv
  <2>3. ASSUME UNCHANGED answer PROVE AnswerInv'
    BY <1>3, <2>3 DEF AnswerInv
  <2>4. QED
    BY <1>3, <2>1, <2>2, <2>3
       DEF Steps, Start, SaveKeypair, Crash, Encrypt, Damage
<1>4. QED
  BY <1>1, <1>2, <1>3 DEF Next

LEMMA AnswerInvariant == Spec => []AnswerInv
  BY AnswerInit, AnswerNext, PTL DEF Spec

\* "Falsification detectee" is never said of a packet that arrives as it was
\* made, whatever happened to the server since.
THEOREM NoFalseAlarmEver == Spec => []NoFalseAlarm
<1>1. KeysKept /\ AnswerInv => NoFalseAlarm
  BY CipherAnswers DEF KeysKept, AnswerInv, NoFalseAlarm, NoAnswer, Decrypts
<1>2. QED
  BY <1>1, KeysAreKept, AnswerInvariant, PTL

-------------------------------------------------------------------------------
(***************************************************************************)
(* The data of sales.                                                      *)
(***************************************************************************)

LEMMA RequireOk ==
  ASSUME NEW c \in BOOLEAN
  PROVE  Require(c) = "ok" <=> c
  BY DEF Require

LEMMA CompareOk ==
  ASSUME NEW v, NEW c \in BOOLEAN
  PROVE  Compare(v, c) = "ok" <=>
           v.kind \in {"number", "big", "nan", "missing"} /\ c
  BY RequireOk DEF Compare

\* The sales that _validate_vente lets through.
LEMMA ValidVente ==
  ASSUME NEW data
  PROVE  ValidateVente(data) = "ok" <=>
           /\ \A f \in Mandatory : ~Absent(data[f])
           /\ data["montant"].kind \in {"number", "big", "nan", "missing"}
           /\ data["montant"].n > 0
           /\ data["nombre_voyageurs"].kind \in {"number", "big", "missing"}
           /\ data["nombre_voyageurs"].n \in 1..100
           /\ \/ data["montant"] = NaN
              \/ data["montant"].n >= data["nombre_voyageurs"].n * Dirham
<1> DEFINE montant == data["montant"]
           nb      == data["nombre_voyageurs"]
<1>1. (montant.n > 0) \in BOOLEAN
  OBVIOUS
<1>2. Compare(montant, montant.n > 0) = "ok" <=>
        montant.kind \in {"number", "big", "nan", "missing"} /\ montant.n > 0
  BY <1>1, CompareOk
<1>3. Compare(nb, nb.kind # "nan" /\ nb.n \in 1..100) = "ok" <=>
        nb.kind \in {"number", "big", "missing"} /\ nb.n \in 1..100
  BY CompareOk
<1>4. Require(montant = NaN \/ montant.n >= nb.n * Dirham) = "ok" <=>
        montant = NaN \/ montant.n >= nb.n * Dirham
  BY RequireOk
<1>5. Require(\A f \in Mandatory : ~Absent(data[f])) = "ok" <=>
        \A f \in Mandatory : ~Absent(data[f])
  BY RequireOk
<1> DEFINE c1 == Require(\A f \in Mandatory : ~Absent(data[f]))
           c2 == Compare(montant, montant.n > 0)
           c3 == Compare(nb, nb.kind # "nan" /\ nb.n \in 1..100)
           c4 == Require(montant = NaN \/ montant.n >= nb.n * Dirham)
<1>6. ValidateVente(data) = Both(c1, Both(c2, Both(c3, c4)))
  BY DEF ValidateVente
<1>7. ASSUME NEW v, NEW w, NEW x, NEW y
      PROVE  Both(v, Both(w, Both(x, y))) = "ok"
               <=> v = "ok" /\ w = "ok" /\ x = "ok" /\ y = "ok"
  BY DEF Both
<1>8. ValidateVente(data) = "ok"
        <=> c1 = "ok" /\ c2 = "ok" /\ c3 = "ok" /\ c4 = "ok"
  <2> HIDE DEF c1, c2, c3, c4
  <2>1. QED
    BY <1>6, <1>7
<1>9. QED
  BY <1>2, <1>3, <1>4, <1>5, <1>8

LEMMA ProcessVente ==
  ASSUME NEW data
  PROVE  Process("vente", data) = "200" <=>
           ValidateVente(data) = "ok" /\ FitsVente(data)
<1>1. ValidateVente(data) # "200"
  BY DEF ValidateVente, Both, Require, Compare
<1>2. QED
  BY <1>1 DEF Process, Validate, Fits

LEMMA FieldsOfSales ==
  /\ "montant" \in AllFields /\ "nombre_voyageurs" \in AllFields
  /\ "montant" \in VenteFields /\ "nombre_voyageurs" \in VenteFields
  /\ "montant" # "date_operation" /\ "nombre_voyageurs" # "date_operation"
  BY DEF AllFields, VenteFields

\* Amount and travellers of what process_vente stores.
LEMMA StoredSale ==
  ASSUME NEW data \in [AllFields -> JsonValues],
         Process("vente", data) = "200"
  PROVE  /\ data["nombre_voyageurs"].n \in 1..100
         /\ StoredAmount(data) >= Dirham * data["nombre_voyageurs"].n
<1> DEFINE montant == data["montant"]
           nb      == data["nombre_voyageurs"]
<1>1. ValidateVente(data) = "ok" /\ FitsVente(data)
  BY ProcessVente
<1>2. /\ montant.n > 0
      /\ nb.n \in 1..100
      /\ montant = NaN \/ montant.n >= nb.n * Dirham
  BY <1>1, ValidVente
<1>3. FitsInt(montant)
  BY <1>1 DEF FitsVente
<1>4. montant \in JsonValues
  BY FieldsOfSales
<1>5. montant \in [kind : {"number"}, n : Int]
  BY <1>2, <1>3, <1>4
     DEF FitsInt, IsNum, JsonValues, Missing, Null, NaN, Empty, Text, Code, Long,
         Big, Date, Stamp, List
<1>6. montant.n \in Int /\ montant # NaN
  BY <1>5 DEF NaN
<1>7. montant.n >= 2 * nb.n
  BY <1>2, <1>6 DEF Dirham
<1>8. ((montant.n + 1) \div 2) * 2 >= 2 * nb.n
  BY <1>2, <1>6, <1>7
<1>9. StoredAmount(data) = ((montant.n + 1) \div 2) * 2
  BY DEF StoredAmount, Dirham
<1>10. QED
  BY <1>2, <1>8, <1>9 DEF Dirham

\* Building a payload keeps its values JSON values, and amount and travellers as
\* the schema let them through.
LEMMA BuiltSale ==
  ASSUME NEW r \in [AllFields -> JsonValues], IsVenteRequest(r)
  PROVE  /\ Build("vente", r) \in [AllFields -> JsonValues]
         /\ \A f \in VenteFields \ {"date_operation"} :
              Build("vente", r)[f] = r[f]
         /\ Build("vente", r)["date_operation"]
              = IF r["date_operation"] = Date THEN Date ELSE Stamp
<1>1. \A v \in {Missing, Null, Date, Stamp} : v \in JsonValues
  BY DEF JsonValues
<1>2. VenteFields \subseteq AllFields /\ Fields("vente") = VenteFields
      /\ DateField("vente") = "date_operation" /\ "date_operation" \in VenteFields
  BY DEF AllFields, Fields, DateField, VenteFields
<1>3. \A f \in VenteFields \ {"date_operation"} : r[f] # Missing
  BY DEF IsVenteRequest, VenteFields, IsInt, IsText, IsNum, Missing
<1>4. QED
  BY <1>1, <1>2, <1>3 DEF Build, IsoFormat

\* Whatever is posted in clear or encrypted in a packet, each row of VenteBillet
\* has 1 to 100 travellers and, after rounding, at least a dirham for each.
THEOREM RowsArePlausible == Spec => []RowsPlausible
<1>1. TypeOK /\ AnswerInv => RowsPlausible
  <2> SUFFICES ASSUME TypeOK, AnswerInv, answer.kind = "vente",
                      answer.status = "200"
               PROVE  /\ answer.data["nombre_voyageurs"].n \in 1..100
                      /\ StoredAmount(answer.data)
                           >= Dirham * answer.data["nombre_voyageurs"].n
    BY DEF RowsPlausible
  <2>1. CASE answer.route = "chiffre"
    <3>1. /\ packet # NoPacket
          /\ answer.data = packet.content.data
          /\ Process("vente", answer.data) = "200"
      BY <2>1, CipherAnswers DEF AnswerInv, NoAnswer
    <3>2. answer.data \in [AllFields -> JsonValues]
      BY <3>1, PacketFields, DataAssumption
    <3>3. QED
      BY <3>1, <3>2, StoredSale
  <2>2. CASE answer.route = "clair"
    <3>1. /\ answer.data \in Requests
          /\ IsRequest("vente", answer.data)
          /\ Process("vente", Build("vente", answer.data)) = "200"
      BY <2>2, ClearAnswers DEF AnswerInv, NoAnswer
    <3>2. answer.data \in [AllFields -> JsonValues] /\ IsVenteRequest(answer.data)
      BY <3>1, DataAssumption DEF IsRequest
    <3>3. /\ Build("vente", answer.data) \in [AllFields -> JsonValues]
          /\ Build("vente", answer.data)["montant"] = answer.data["montant"]
          /\ Build("vente", answer.data)["nombre_voyageurs"]
               = answer.data["nombre_voyageurs"]
      BY <3>2, BuiltSale, FieldsOfSales
    <3>4. StoredAmount(Build("vente", answer.data)) = StoredAmount(answer.data)
      BY <3>3 DEF StoredAmount
    <3>5. QED
      BY <3>1, <3>3, <3>4, StoredSale
  <2>3. QED
    BY <2>1, <2>2 DEF AnswerInv, NoAnswer
<1>2. QED
  BY <1>1, TypeCorrect, AnswerInvariant, PTL

-------------------------------------------------------------------------------
(***************************************************************************)
(* Requests in clear: schema, builder, validation and columns together.    *)
(***************************************************************************)

\* The values an integer column takes of those the schema lets through.
LEMMA IntColumn ==
  ASSUME NEW v, IsInt(v)
  PROVE  FitsInt(v) <=> ~Wide(v)
  BY DEF IsInt, FitsInt, IsNum, Wide, Empty

LEMMA TextColumn ==
  ASSUME NEW v, IsText(v)
  PROVE  /\ FitsText(v) <=> ~Wide(v)
         /\ ~Absent(v)
  BY DEF IsText, FitsText, Wide, Absent

\* What the schema says of a sale, in terms of its payload.
LEMMA SaleColumns ==
  ASSUME NEW r \in [AllFields -> JsonValues], IsVenteRequest(r)
  PROVE  FitsVente(Build("vente", r))
           <=> /\ IsNum(r["montant"])
               /\ r["date_operation"] = Date
               /\ \A f \in VenteFields : ~Wide(r[f])
<1> DEFINE b == Build("vente", r)
<1>1. \A f \in VenteFields \ {"date_operation"} : b[f] = r[f]
  BY BuiltSale
<1>2. b["date_operation"] = IF r["date_operation"] = Date THEN Date ELSE Stamp
  BY BuiltSale
<1>3. VenteFields = SaleIds \cup SaleTexts
                      \cup {"montant", "nombre_voyageurs", "date_operation"}
      /\ "date_operation" \notin SaleIds \cup SaleTexts
  BY DEF VenteFields, SaleIds, SaleTexts
<1>4. \A f \in SaleIds : FitsInt(b[f]) <=> ~Wide(r[f])
  BY <1>1, <1>3, IntColumn DEF IsVenteRequest
<1>5. \A f \in SaleTexts : FitsText(b[f]) /\ ~Absent(b[f]) <=> ~Wide(r[f])
  BY <1>1, <1>3, TextColumn DEF IsVenteRequest
<1>6. FitsInt(b["montant"]) <=> IsNum(r["montant"])
  BY <1>1, FieldsOfSales DEF IsVenteRequest, FitsInt, IsNum, Empty
<1>7. FitsInt(b["nombre_voyageurs"]) /\ ~Wide(r["nombre_voyageurs"])
  BY <1>1, FieldsOfSales DEF IsVenteRequest, FitsInt, IsNum, Wide
<1>8. FitsDate(b["date_operation"]) <=> r["date_operation"] = Date
  BY <1>2 DEF FitsDate, FitsInt, IsNum, Date, Stamp, Empty
<1>9. IsNum(r["montant"]) => ~Wide(r["montant"])
  BY DEF IsNum, Wide
<1>10. ~Wide(Date)
  BY DEF Wide, Date
<1>11. FitsVente(b) <=>
         /\ \A f \in SaleIds : FitsInt(b[f])
         /\ FitsInt(b["montant"])
         /\ FitsInt(b["nombre_voyageurs"])
         /\ \A f \in SaleTexts : FitsText(b[f]) /\ ~Absent(b[f])
         /\ FitsDate(b["date_operation"])
  BY DEF FitsVente
<1>12. QED
  BY <1>3, <1>4, <1>5, <1>6, <1>7, <1>8, <1>9, <1>10, <1>11

\* What is left of the validation once the schema has let a sale through.
LEMMA SaleChecks ==
  ASSUME NEW r \in [AllFields -> JsonValues], IsVenteRequest(r)
  PROVE  ValidateVente(Build("vente", r)) = "ok"
           <=> /\ r["montant"].n > 0
               /\ \/ r["montant"] = NaN
                  \/ r["montant"].n >= r["nombre_voyageurs"].n * Dirham
<1> DEFINE b == Build("vente", r)
<1>1. /\ b["montant"] = r["montant"]
      /\ b["nombre_voyageurs"] = r["nombre_voyageurs"]
  BY BuiltSale, FieldsOfSales
<1>2. /\ r["montant"].kind \in {"number", "big", "nan", "missing"}
      /\ r["nombre_voyageurs"].kind \in {"number", "big", "missing"}
      /\ r["nombre_voyageurs"].n \in 1..100
  BY DEF IsVenteRequest, IsNum
<1>3. \A f \in Mandatory : ~Absent(b[f])
  <2>1. Mandatory \subseteq VenteFields \ {"date_operation"}
        /\ Mandatory \subseteq SaleIds \cup SaleTexts
    BY DEF Mandatory, VenteFields, SaleIds, SaleTexts
  <2>2. \A f \in SaleIds \cup SaleTexts : ~Absent(r[f])
    BY TextColumn DEF IsVenteRequest, IsInt, Absent
  <2>3. QED
    BY <2>1, <2>2, BuiltSale
<1>4. QED
  BY <1>1, <1>2, <1>3, ValidVente

\* Of the sales VenteRequest lets through exactly those are stored that cost a
\* dirham per traveller, have a date SQL Server reads, and fit their columns.
THEOREM ClearSalesEver == Spec => []ClearSales
<1>1. AnswerInv => ClearSales
  <2> SUFFICES ASSUME AnswerInv, answer.route = "clair", answer.kind = "vente",
                      IsVenteRequest(answer.data)
               PROVE  answer.status = "200" <=>
                        /\ IsNum(answer.data["montant"])
                        /\ answer.data["montant"].n
                             >= Dirham * answer.data["nombre_voyageurs"].n
                        /\ answer.data["date_operation"] = Date
                        /\ \A f \in VenteFields : ~Wide(answer.data[f])
    BY DEF ClearSales
  <2> DEFINE r == answer.data
  <2>1. r \in Requests /\ answer.status = ClearStatus("vente", r)
    BY DEF AnswerInv, NoAnswer
  <2>2. r \in [AllFields -> JsonValues]
    BY <2>1, DataAssumption
  <2>3. answer.status = "200" <=>
          ValidateVente(Build("vente", r)) = "ok" /\ FitsVente(Build("vente", r))
    BY <2>1, ProcessVente DEF ClearStatus, IsRequest
  <2>4. IsNum(r["montant"]) => r["montant"].n \in Int /\ r["montant"] # NaN
    BY <2>2, FieldsOfSales
       DEF IsNum, JsonValues, Missing, Null, NaN, Empty, Text, Code, Long, Big,
           Date, Stamp, List
  <2>5. r["nombre_voyageurs"].n \in 1..100
    BY DEF IsVenteRequest
  <2>6. IsNum(r["montant"]) =>
          (/\ r["montant"].n > 0
           /\ \/ r["montant"] = NaN
              \/ r["montant"].n >= r["nombre_voyageurs"].n * Dirham
           <=> r["montant"].n >= Dirham * r["nombre_voyageurs"].n)
    BY <2>4, <2>5 DEF Dirham
  <2>7. QED
    BY <2>2, <2>3, <2>6, SaleChecks, SaleColumns
<1>2. QED
  BY <1>1, AnswerInvariant, PTL

\* A control the schema lets through fails for its date or for a column only.
LEMMA ControlStored ==
  ASSUME NEW r \in [AllFields -> JsonValues], IsControleRequest(r),
         Process("controle", Build("controle", r)) = "500"
  PROVE  Unstorable("controle", r)
<1> DEFINE b == Build("controle", r)
<1> SUFFICES ASSUME r["date_heure_controle"] = Date,
                    \A f \in ControleFields : ~Wide(r[f])
             PROVE  FALSE
  BY DEF Unstorable, DateField, Fields
<1>1. /\ ControleFields \subseteq AllFields
      /\ Fields("controle") = ControleFields
      /\ DateField("controle") = "date_heure_controle"
      /\ {"mission_id", "date_heure_controle", "resultat_controle",
           "type_controle"} \subseteq ControleFields
  BY DEF AllFields, Fields, DateField, ControleFields
<1>2. \A f \in ControleFields \ {"date_heure_controle"} :
        b[f] = IF r[f] = Missing THEN Null ELSE r[f]
  BY <1>1 DEF Build
<1>3. b["date_heure_controle"] = Date
  BY <1>1 DEF Build, IsoFormat
<1>4. \A f \in ControleFields \ {"mission_id", "date_heure_controle"} :
        b[f].kind # "list" /\ FitsText(b[f])
  <2>1. TAKE f \in ControleFields \ {"mission_id", "date_heure_controle"}
  <2>2. IsText(r[f]) \/ Absent(r[f])
    BY DEF IsControleRequest
  <2>3. QED
    BY <1>2, <2>1, <2>2 DEF IsText, Absent, FitsText, Wide, Null
<1>5. FitsInt(b["mission_id"])
  <2>1. IsInt(r["mission_id"]) /\ ~Wide(r["mission_id"])
    BY <1>1 DEF IsControleRequest
  <2>2. r["mission_id"] # Missing
    BY <2>1 DEF IsInt, Missing
  <2>3. b["mission_id"] = r["mission_id"]
    BY <1>1, <1>2, <2>2
  <2>4. QED
    BY <2>1, <2>3, IntColumn
<1>6. FitsControle(b)
  BY <1>3, <1>4, <1>5 DEF FitsControle, FitsDate
<1>7. /\ CheckCode(b["resultat_controle"]) \in {"ok", "422"}
      /\ CheckCode(b["type_controle"]) \in {"ok", "422"}
  <2>1. /\ b["resultat_controle"].kind # "list"
        /\ b["type_controle"].kind # "list"
    BY <1>1, <1>4
  <2>2. QED
    BY <2>1 DEF CheckCode, Require
<1>8. ValidateControle(b) \in {"ok", "422"}
  BY <1>7 DEF ValidateControle, Both, Require
<1>9. QED
  BY <1>6, <1>8 DEF Process, Validate, Fits

LEMMA SaleStored ==
  ASSUME NEW r \in [AllFields -> JsonValues], IsVenteRequest(r),
         Process("vente", Build("vente", r)) = "500"
  PROVE  Unstorable("vente", r)
<1> DEFINE b == Build("vente", r)
<1> SUFFICES ASSUME r["montant"] # NaN, r["date_operation"] = Date,
                    \A f \in VenteFields : ~Wide(r[f])
             PROVE  FALSE
  BY DEF Unstorable, DateField, Fields
<1>1. IsNum(r["montant"])
  BY FieldsOfSales
     DEF IsVenteRequest, IsNum, Wide, JsonValues, Missing, Null, NaN, Empty, Text,
         Code, Long, Big, Date, Stamp, List
<1>2. FitsVente(b)
  BY <1>1, SaleColumns
<1>3. /\ b["montant"].kind = "number"
      /\ b["nombre_voyageurs"].kind = "number"
  BY <1>1, BuiltSale, FieldsOfSales DEF IsVenteRequest, IsNum
<1>4. ValidateVente(b) \in {"ok", "422"}
  BY <1>3 DEF ValidateVente, Both, Require, Compare
<1>5. QED
  BY <1>2, <1>4 DEF Process, Validate, Fits

\* An internal error in clear has one of three reasons.
THEOREM ClearFailuresExplained == Spec => []ClearNeverFails
<1>1. AnswerInv => ClearNeverFails
  <2> SUFFICES ASSUME AnswerInv, answer.route = "clair", answer.status = "500"
               PROVE  Unstorable(answer.kind, answer.data)
    BY DEF ClearNeverFails
  <2>1. /\ answer.kind \in Kinds
        /\ answer.data \in Requests
        /\ ClearStatus(answer.kind, answer.data) = "500"
    BY DEF AnswerInv, NoAnswer
  <2>2. /\ answer.data \in [AllFields -> JsonValues]
        /\ IsRequest(answer.kind, answer.data)
        /\ Process(answer.kind, Build(answer.kind, answer.data)) = "500"
    BY <2>1, DataAssumption DEF ClearStatus
  <2>3. QED
    BY <2>1, <2>2, ControlStored, SaleStored DEF Kinds, IsRequest
<1>2. QED
  BY <1>1, AnswerInvariant, PTL
===============================================================================
