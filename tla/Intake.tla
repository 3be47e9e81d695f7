-------------------------------- MODULE Intake --------------------------------
(***************************************************************************)
(* How an operation gets into the Back-Office: the two key files and their *)
(* creation at start-up (rsa.py), the packets that CryptoService encrypts  *)
(* and decrypts, and the routes of operations_router up to the services.   *)
(* There is one server process, which may die at any time and is started   *)
(* again; the key directory survives it.                                   *)
(***************************************************************************)
EXTENDS Payloads

CONSTANTS
  KeyPairs,   \* RSA key pairs
  Devices,    \* device ids
  Requests,   \* bodies posted to the routes without encryption
  Contents    \* what terminals encrypt: [envelope, data], see Opened

\* The names of files without a key are no key pairs.
ASSUME KeyPairsAssumption == KeyPairs \cap {"absent", "torn", "none"} = {}

ASSUME DataAssumption ==
  /\ Requests \subseteq [AllFields -> JsonValues]
  /\ Contents \subseteq [envelope : BOOLEAN, data : [AllFields -> JsonValues]]

VARIABLES
  private,    \* private_key.pem: "absent", "torn" or a key pair
  public,     \* public_key.pem
  server,     \* what the process does next, and the pair it has generated
  packet,     \* a packet in the network, or NoPacket
  answer      \* the answer of the last step, or NoAnswer

vars == <<private, public, server, packet, answer>>

NoPacket == [key |-> "none"]

NoAnswer == [route |-> "none", kind |-> "none", status |-> "none"]

Init ==
  /\ private = "absent"
  /\ public = "absent"
  /\ server = [at |-> "down"]
  /\ packet = NoPacket
  /\ answer = NoAnswer

-------------------------------------------------------------------------------
(***************************************************************************)
(* Start-up: CryptoService.__init__ calls init_keys as the router is       *)
(* imported.  The server serves requests from "up" on.                     *)
(***************************************************************************)
Saves(k, file) == server' = [at |-> file, key |-> k]

\* RSA.generate: a pair that nobody has.
Fresh(k) == k \notin {private, public, packet.key}

\* init_keys looks for the private key only.
Start ==
  /\ server.at = "down"
  /\ \/ /\ private # "absent"
        /\ server' = [at |-> "up"]
     \/ /\ private = "absent"
        /\ \E k \in KeyPairs : Fresh(k) /\ Saves(k, "private")
  /\ UNCHANGED <<private, public, packet, answer>>

\* Mutant: save_keypair writes the public key first.
SaveKeypairPublicFirst ==
  /\ \/ /\ server.at = "private" /\ public = server.key
        /\ private' = IF private = "torn" THEN server.key ELSE "torn"
        /\ server' = IF private = "torn" THEN [at |-> "up"] ELSE server
        /\ UNCHANGED public
     \/ /\ server.at = "private" /\ public # server.key
        /\ public' = IF public = "torn" THEN server.key ELSE "torn"
        /\ UNCHANGED <<private, server>>
  /\ UNCHANGED <<packet, answer>>

\* save_keypair: each file is opened, which empties it, then written; the
\* private key first.
SaveKeypair ==
  /\ \/ /\ server.at = "private"
        /\ private' = IF private = "torn" THEN server.key ELSE "torn"
        /\ server' = IF private = "torn" THEN [server EXCEPT !.at = "public"]
                                         ELSE server
        /\ UNCHANGED public
     \/ /\ server.at = "public"
        /\ public' = IF public = "torn" THEN server.key ELSE "torn"
        /\ server' = IF public = "torn" THEN [at |-> "up"] ELSE server
        /\ UNCHANGED private
  /\ UNCHANGED <<packet, answer>>

\* The process dies, in the middle of a write perhaps.
Crash ==
  /\ server.at # "down"
  /\ server' = [at |-> "down"]
  /\ UNCHANGED <<private, public, packet, answer>>

-------------------------------------------------------------------------------
(***************************************************************************)
(* Packets.  A packet has the pair whose public key encrypted its AES key, *)
(* its device_id, which is outside the encryption, its content, and        *)
(* whether it is still what encrypt_payload returned.                      *)
(***************************************************************************)
\* Mutant: the file is read but not imported as a key.
EncryptAny(c, d) ==
  /\ public # "absent"
  /\ packet' = [key |-> public, device |-> d, content |-> c, intact |-> TRUE]
  /\ UNCHANGED <<private, public, server, answer>>

\* encrypt_payload; it raises when public_key.pem does not load.
Encrypt(c, d) ==
  /\ public \in KeyPairs
  /\ packet' = [key |-> public, device |-> d, content |-> c, intact |-> TRUE]
  /\ UNCHANGED <<private, public, server, answer>>

\* A field of the packet changes on the way: its base64, its key or its tag.
Damage ==
  /\ packet # NoPacket
  /\ packet' = [packet EXCEPT !.intact = FALSE]
  /\ UNCHANGED <<private, public, server, answer>>

\* decrypt_payload returns the content: the tag of AES-GCM verifies under the
\* key the private key recovers.
Decrypts == packet.key = private /\ packet.intact

\* OperationPayload(** raw): a content without the fields of the envelope
\* raises, and no handler turns that into an HTTP error.
Opened(kind, c) == IF c.envelope THEN Process(kind, c.data) ELSE "500"

\* soumettre_controle_chiffre and soumettre_vente_chiffre for an agent whose
\* token names device d.  A torn key is a ValueError, like a packet that does
\* not decrypt; an absent one is not.
CipherStatus(kind, d) ==
  IF packet.device # d THEN "403"
  ELSE IF private = "absent" THEN "500"
  ELSE IF ~Decrypts THEN "400"
  ELSE Opened(kind, packet.content)

\* The packet stays in the network: it may be sent again, to either route.
SubmitCipher(kind, d) ==
  /\ server.at = "up"
  /\ packet # NoPacket
  /\ answer' = [route |-> "chiffre", kind |-> kind, data |-> packet.content.data,
                status |-> CipherStatus(kind, d)]
  /\ UNCHANGED <<private, public, server, packet>>

\* soumettre_controle and soumettre_vente.
ClearStatus(kind, r) ==
  IF IsRequest(kind, r) THEN Process(kind, Build(kind, r)) ELSE "422"

SubmitClear(kind, r) ==
  /\ server.at = "up"
  /\ answer' = [route |-> "clair", kind |-> kind, data |-> r,
                status |-> ClearStatus(kind, r)]
  /\ UNCHANGED <<private, public, server, packet>>

Received ==
  /\ answer' = NoAnswer
  /\ UNCHANGED <<private, public, server, packet>>

-------------------------------------------------------------------------------
\* answer only records what a request was told, so nothing happens in between.
Steps ==
  \/ Start
  \/ SaveKeypair
  \/ Crash
  \/ \E c \in Contents, d \in Devices : Encrypt(c, d)
  \/ Damage
  \/ \E kind \in Kinds, d \in Devices : SubmitCipher(kind, d)
  \/ \E kind \in Kinds, r \in Requests : SubmitClear(kind, r)

Next == (answer = NoAnswer /\ Steps) \/ Received

Spec == Init /\ [][Next]_vars

-------------------------------------------------------------------------------
Files == {"absent", "torn"} \cup KeyPairs

ServerStates ==
  [at : {"down", "up"}] \cup [at : {"private", "public"}, key : KeyPairs]

Packets ==
  [key : KeyPairs, device : Devices, content : Contents, intact : BOOLEAN]

Statuses == {"200", "400", "403", "422", "500"}

TypeOK ==
  /\ private \in Files
  /\ public \in Files
  /\ server \in ServerStates
  /\ packet \in Packets \cup {NoPacket}
  /\ answer = NoAnswer \/ answer.status \in Statuses

\* A pair whose public key could ever be read, and so was perhaps used by a
\* terminal, stays in private_key.pem, wherever the process died and however
\* often it was started (init_keys, save_keypair).
KeysKept ==
  /\ public \in KeyPairs => private = public
  /\ packet # NoPacket => private = packet.key

\* "Falsification detectee": no packet that arrives as encrypt_payload returned
\* it is answered 400, also after the server died while it made its keys, and
\* started again.
NoFalseAlarm ==
  answer.route = "chiffre" /\ packet.intact
    => answer.status # "400"

\* A sale in clear that its schema lets through is stored exactly when it costs
\* at least a dirham per traveller, its date is one that SQL Server reads, and
\* nothing is wider than its column: nothing else that VenteRequest allows and
\* build_vente_payload passes on stumbles over the validation or the columns.
ClearSales ==
  answer.route = "clair" /\ answer.kind = "vente"
    /\ IsVenteRequest(answer.data)
    => (answer.status = "200" <=>
          /\ IsNum(answer.data["montant"])
          /\ answer.data["montant"].n >= Dirham * answer.data["nombre_voyageurs"].n
          /\ answer.data["date_operation"] = Date
          /\ \A f \in VenteFields : ~Wide(answer.data[f]))

\* What may be wrong with a request so that it ends in an internal error.
Unstorable(kind, r) ==
  \/ r["montant"] = NaN
  \/ r[DateField(kind)] # Date
  \/ \E f \in Fields(kind) : Wide(r[f])

\* Nothing in clear ends in an internal error, except for an amount that is no
\* number, a date SQL Server does not read, and what is wider than its column:
\* in everything else schemas, builder, validation and columns fit together.
ClearNeverFails ==
  answer.route = "clair" /\ answer.status = "500"
    => Unstorable(answer.kind, answer.data)

\* Whatever the route and the content of the packet, a row of VenteBillet has 1
\* to 100 travellers and, as rounded by its column, a dirham for each.
RowsPlausible ==
  answer.kind = "vente" /\ answer.status = "200"
    => LET nb == answer.data["nombre_voyageurs"].n
       IN  nb \in 1..100 /\ StoredAmount(answer.data) >= Dirham * nb

\* "La date_heure_controle est fixee ici si non fournie": an operation in clear
\* without a date is answered as if the terminal had given it.
DateOptional ==
  answer.route = "clair" /\ Absent(answer.data[DateField(answer.kind)])
    => answer.status =
         ClearStatus(answer.kind, [answer.data EXCEPT ![DateField(answer.kind)] = Date])
===============================================================================
