--------------------------- MODULE GVOHubClients ---------------------------
(***************************************************************************)
(* The table of clients a SAMP hub keeps (GVOHub::m_clients) and the       *)
(* look-ups its handlers make in it.  A client is a record with at least   *)
(* the fields reference and private_key.  The reference "cN" of the code   *)
(* is the number N; the index -1 of the code ("not found") is 0.           *)
(***************************************************************************)
EXTENDS Naturals, Sequences, SequencesExt

References(clients) == {clients[i].reference : i \in DOMAIN clients}

(* The loop of request_register() counts up from c0 and starts over each   *)
(* time it meets the reference in the table.                               *)
MutantCountReference(clients) == Len(clients)
FreeReference(clients) ==
    CHOOSE n \in 0..Len(clients) :
        /\ n \notin References(clients)
        /\ \A m \in 0..(n - 1) : m \in References(clients)

(* get_client_index(xml): the first client with the private key.           *)
IndexOfKey(clients, key) ==
    SelectInSeq(clients, LAMBDA c : c.private_key = key)

(* get_client_index(reference): the first client with the reference.       *)
IndexOfReference(clients, reference) ==
    SelectInSeq(clients, LAMBDA c : c.reference = reference)

(* m_clients.erase()                                                       *)
MutantErasesLast(clients, i) == Front(clients)
MutantMarksOnly(clients, i) == [clients EXCEPT ![i].private_key = 0]

Erase(clients, i) == RemoveAt(clients, i)
=============================================================================
