------------------------------- MODULE Payloads -------------------------------
(***************************************************************************)
(* What the Back-Office makes of the fields of an operation: the request   *)
(* schemas, payload_builder, the validation of the two services, and the   *)
(* columns of the tables the operation is inserted into.  Pure operators.  *)
(*                                                                         *)
(* A JSON value is its kind and a number that is 0 exactly for the values  *)
(* Python takes for false.  Fields no code tests are left out where they   *)
(* are optional numbers or texts: numero_billet stands for them.           *)
(***************************************************************************)
EXTENDS Integers

Missing == [kind |-> "missing", n |-> 0]   \* no such key
Null    == [kind |-> "null", n |-> 0]
Num(i)  == [kind |-> "number", n |-> i]
NaN     == [kind |-> "nan", n |-> 1]       \* also Infinity: Python's json reads both
Empty   == [kind |-> "text", n |-> 0]
Text    == [kind |-> "text", n |-> 1]
Code    == [kind |-> "code", n |-> 1]      \* a text of RESULTATS_ / TYPES_VALIDES
Long    == [kind |-> "long", n |-> 1]      \* a text its column is too short for
Big     == [kind |-> "big", n |-> 1000]    \* a number its column is too small for
Date    == [kind |-> "date", n |-> 1]      \* a time in whole seconds, no offset
Stamp   == [kind |-> "stamp", n |-> 1]     \* one with an offset or microseconds
List    == [kind |-> "list", n |-> 1]

JsonValues ==
  {Missing, Null, NaN, Empty, Text, Code, Long, Big, Date, Stamp, List}
    \cup [kind : {"number"}, n : Int]

Falsy(v)  == v.n = 0
Absent(v) == v.kind \in {"missing", "null"}
IsText(v) == v.kind \in {"text", "code", "long", "date", "stamp"}
IsNum(v)  == v.kind = "number"
IsInt(v)  == v.kind \in {"number", "big"}
IsTime(v) == v.kind \in {"date", "stamp", "number"}
Wide(v)   == v.kind \in {"long", "big"}

\* Amounts are counted in half dirhams.
Dirham == 2

Kinds == {"controle", "vente"}

ControleFields == {"mission_id", "numero_billet", "code_2d_controle",
                   "resultat_controle", "type_controle",
                   "date_heure_controle"}

SaleIds == {"mission_id", "liaison_id", "niveau_confort_id", "niveau_prix_id",
            "bareme_id"}

SaleTexts == {"titre_reduction", "motif", "numero_motif"}

VenteFields == SaleIds \cup SaleTexts
                 \cup {"montant", "nombre_voyageurs", "date_operation"}

DateField(kind) ==
  IF kind = "controle" THEN "date_heure_controle" ELSE "date_operation"

Fields(kind) == IF kind = "controle" THEN ControleFields ELSE VenteFields

AllFields == ControleFields \cup VenteFields

-------------------------------------------------------------------------------
\* ControleRequest.
IsControleRequest(r) ==
  /\ IsInt(r["mission_id"])
  /\ \A f \in ControleFields \ {"mission_id", "date_heure_controle"} :
       IsText(r[f]) \/ Absent(r[f])
  /\ IsTime(r["date_heure_controle"]) \/ Absent(r["date_heure_controle"])

\* Mutant: the amount is optional.
IsVenteRequestNoAmount(r) ==
  /\ \A f \in SaleIds : IsInt(r[f])
  /\ \A f \in SaleTexts : IsText(r[f])
  /\ r["montant"].kind \in {"number", "big", "nan", "null", "missing"}
  /\ IsNum(r["nombre_voyageurs"]) /\ r["nombre_voyageurs"].n \in 1..100
  /\ IsTime(r["date_operation"]) \/ Absent(r["date_operation"])

\* VenteRequest; a float may be NaN, which compares false with everything.
IsVenteRequest(r) ==
  /\ \A f \in SaleIds : IsInt(r[f])
  /\ \A f \in SaleTexts : IsText(r[f])
  /\ r["montant"].kind \in {"number", "big", "nan"}
  /\ IsNum(r["nombre_voyageurs"]) /\ r["nombre_voyageurs"].n \in 1..100
  /\ IsTime(r["date_operation"]) \/ Absent(r["date_operation"])

IsRequest(kind, r) ==
  IF kind = "controle" THEN IsControleRequest(r) ELSE IsVenteRequest(r)

\* isoformat: the present time, and a number, which is taken for a time in UTC,
\* have an offset.
IsoFormat(v) == IF v = Date THEN Date ELSE Stamp

\* build_controle_payload and build_vente_payload: every field of the schema,
\* None where the request has none, the present time for a missing date.
Build(kind, r) ==
  [f \in AllFields |->
     IF f \notin Fields(kind) THEN Missing
     ELSE IF f = DateField(kind) THEN IsoFormat(r[f])
     ELSE IF r[f] = Missing THEN Null
     ELSE r[f]]

-------------------------------------------------------------------------------
\* A check of the services passes, raises HTTP 422, or raises a TypeError.
Require(condition) == IF condition THEN "ok" ELSE "422"

\* The first check that does not pass decides.
Both(check, next) == IF check = "ok" THEN next ELSE check

\* A truthy value must be in a set of codes; a list is not hashable.
CheckCode(v) ==
  IF ~Falsy(v) /\ v.kind = "list" THEN "500"
  ELSE Require(Falsy(v) \/ v.kind = "code")

ValidateControle(data) ==
  Both(Require(~Falsy(data["mission_id"])),
  Both(Require(~Falsy(data["numero_billet"]) \/ ~Falsy(data["code_2d_controle"])),
  Both(CheckCode(data["resultat_controle"]),
       CheckCode(data["type_controle"]))))

\* data.get(field, 0) against a number; what is no number does not compare.
Compare(v, condition) ==
  IF v.kind \in {"number", "big", "nan", "missing"} THEN Require(condition) ELSE "500"

\* champs_obligatoires: neither numero_motif nor date_operation.
Mandatory == SaleIds \cup {"titre_reduction", "motif"}

\* Mutant: the amount need not cover the travellers.
ValidateVenteNoTotal(data) ==
  LET montant == data["montant"]
      nb      == data["nombre_voyageurs"]
  IN  Both(Require(\A f \in Mandatory : ~Absent(data[f])),
      Both(Compare(montant, montant.n > 0),
           Compare(nb, nb.kind # "nan" /\ nb.n \in 1..100)))

\* Mutant: an amount of one dirham per traveller is refused.
ValidateVenteStrict(data) ==
  LET montant == data["montant"]
      nb      == data["nombre_voyageurs"]
  IN  Both(Require(\A f \in Mandatory : ~Absent(data[f])),
      Both(Compare(montant, montant.n > 0),
      Both(Compare(nb, nb.kind # "nan" /\ nb.n \in 1..100),
           Require(montant = NaN \/ montant.n > nb.n * Dirham))))

ValidateVente(data) ==
  LET montant == data["montant"]
      nb      == data["nombre_voyageurs"]
  IN  Both(Require(\A f \in Mandatory : ~Absent(data[f])),
      Both(Compare(montant, montant.n > 0),
      Both(Compare(nb, nb.kind # "nan" /\ nb.n \in 1..100),
           Require(montant = NaN \/ montant.n >= nb.n * Dirham))))

Validate(kind, data) ==
  IF kind = "controle" THEN ValidateControle(data) ELSE ValidateVente(data)

-------------------------------------------------------------------------------
\* What the columns of Controle and VenteBillet take.  SQL Server converts
\* numbers to text and to dates, and an empty text to 0, but takes no other text
\* and no NaN for a number, nothing that is wider than the column, and no list.
\* The text of a datetime may have neither an offset nor more than three digits
\* of a second.
FitsText(v) == ~Wide(v) /\ v.kind # "list"

FitsInt(v) == IsNum(v) \/ v = Empty

FitsDate(v) == v = Date \/ FitsInt(v)

FitsControle(data) ==
  /\ FitsInt(data["mission_id"])
  /\ \A f \in ControleFields \ {"mission_id", "date_heure_controle"} :
       FitsText(data[f])
  /\ FitsDate(data["date_heure_controle"]) \/ Absent(data["date_heure_controle"])

\* Every column of VenteBillet that is modelled is NOT NULL.
FitsVente(data) ==
  /\ \A f \in SaleIds \cup {"montant", "nombre_voyageurs"} : FitsInt(data[f])
  /\ \A f \in SaleTexts : FitsText(data[f]) /\ ~Absent(data[f])
  /\ FitsDate(data["date_operation"])

Fits(kind, data) ==
  IF kind = "controle" THEN FitsControle(data) ELSE FitsVente(data)

\* Montant is decimal(18, 0): the amount is rounded to whole dirhams.
StoredAmount(data) ==
  ((data["montant"].n + Dirham \div 2) \div Dirham) * Dirham

\* process_controle and process_vente, as far as the data decide.
Process(kind, data) ==
  IF Validate(kind, data) # "ok" THEN Validate(kind, data)
  ELSE IF Fits(kind, data) THEN "200" ELSE "500"
===============================================================================
