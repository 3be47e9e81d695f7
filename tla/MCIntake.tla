------------------------------- MODULE MCIntake -------------------------------
(***************************************************************************)
(* Instances of Intake for TLC: an ordinary operation of each kind, and    *)
(* what one or two fields of it may be instead.                            *)
(***************************************************************************)
EXTENDS Intake

Values == {Missing, Null, Num(0), Num(1), NaN, Empty, Text, Code, Long, Big,
           Date, Stamp, List}

Nothing == [f \in AllFields |-> Missing]

Control ==
  [Nothing EXCEPT !["mission_id"] = Num(7), !["numero_billet"] = Text,
                  !["resultat_controle"] = Code, !["type_controle"] = Code,
                  !["date_heure_controle"] = Date]

Sale ==
  [f \in AllFields |->
     IF f \in SaleIds THEN Num(7)
     ELSE IF f \in SaleTexts THEN Text
     ELSE IF f = "date_operation" THEN Date
     ELSE IF f \in {"montant", "nombre_voyageurs"} THEN Num(2)
     ELSE Missing]

Sales(amounts, travellers) ==
  {[Sale EXCEPT !["montant"] = a, !["nombre_voyageurs"] = n] :
     a \in amounts, n \in travellers}

AllRequests ==
  {[Control EXCEPT ![f] = v] : f \in ControleFields, v \in Values}
    \cup {[Control EXCEPT !["numero_billet"] = v, !["code_2d_controle"] = w] :
            v, w \in {Null, Empty, Text}}
    \cup {[Sale EXCEPT ![f] = v] : f \in VenteFields, v \in Values}
    \cup Sales({Num(i) : i \in {-1, 0, 1, 2, 3, 4, 5, 199, 200, 201, 202}},
               {Num(i) : i \in {0, 1, 2, 100, 101}})

\* Packets: what payload_builder made of a request, or data of another version
\* of the terminal.
SomeContents ==
  {[envelope |-> TRUE, data |-> d] :
     d \in {Build("controle", Control), Build("vente", Sale)}
            \cup {[Control EXCEPT !["type_controle"] = List],
                  [Control EXCEPT !["date_heure_controle"] = Stamp]}
            \cup {[Sale EXCEPT ![f] = Null] : f \in {"motif", "numero_motif"}}
            \cup Sales({Num(3), Num(4), Num(200), NaN, Null, Missing},
                       {Num(0), Num(1), Num(2), Num(100), Num(101), Text})}
    \cup {[envelope |-> FALSE, data |-> Nothing]}
===============================================================================
