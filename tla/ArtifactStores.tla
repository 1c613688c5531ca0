--------------------------- MODULE ArtifactStores ---------------------------
(***************************************************************************)
(* The store of artifacts' contents (artifacts/store.ts), in memory and on *)
(* R2, given the same calls.  Memory finds a content by the artifact's id  *)
(* and by its hash; R2 by a key that is made from the hash, which it gives *)
(* out for the artifact's id.  A put awaits the hash of its content        *)
(* between what it checks and what it writes, so puts overlap.             *)
(***************************************************************************)
EXTENDS Naturals, Sequences, FiniteSets

CONSTANTS
  Artifacts,   \* the ids of artifacts
  Hashes,      \* the hashes of contents
  MaxPuts      \* bound: puts under way at once

VARIABLES
  shelf,    \* in memory: the artifact an id or a hash leads to
  bucket,   \* R2: the hash that the metadata under the key of a hash tells
  coming,   \* puts that wait for the hash of their content
  crossed   \* history: ids put while a put of theirs was under way

storeVars == <<shelf, bucket, coming, crossed>>

Records == [id : Artifacts, hash : Hashes]
Nowhere == [id |-> <<>>, hash |-> <<>>]

\* getKey: what is put before the hash makes the key a name of its own.
KeyOf(hash) == <<"artifacts/", hash>>
Keys  == {KeyOf(h) : h \in Hashes}
Names == Artifacts \cup Hashes \cup Keys

ASSUME NamesDiffer ==
  Artifacts \cap Hashes = {} /\ (Artifacts \cup Hashes) \cap Keys = {} /\ <<>> \notin Artifacts \cup Hashes

\* getMetadata, getContent and exists of each store.  What R2 makes of an
\* object has the key for its id.
Listed(hash) == IF bucket[hash] = Nowhere.hash THEN Nowhere ELSE [id |-> KeyOf(hash), hash |-> bucket[hash]]
InR2(name) == IF name \in Keys THEN Listed(CHOOSE h \in Hashes : KeyOf(h) = name) ELSE Nowhere
InMemory(name) == IF name \in Keys THEN Nowhere ELSE shelf[name]

\* A put of memory that was not refused at once, of the same id.
Underway(id) == \E p \in coming : p.taken /\ p.artifact.id = id

\* put, until the content's hash is there: memory refuses an id it knows and a
\* length that does not fit.  A content that is not the hash's is refused by
\* both later and leaves no trace.
Put(a, fits) ==
  LET taken == shelf[a.id] = Nowhere /\ fits
  IN
  /\ Cardinality(coming) < MaxPuts
  /\ coming' = coming \cup {[artifact |-> a, taken |-> taken, key |-> "unseen"]}
  /\ crossed' = IF taken /\ Underway(a.id) THEN crossed \cup {a.id} ELSE crossed
  /\ UNCHANGED <<shelf, bucket>>

\* put on R2 looks whether the key of the content is there.
HeadOfKey(p) ==
  LET seen == IF bucket[p.artifact.hash] = Nowhere.hash THEN "free" ELSE "held"
  IN
  /\ p.key = "unseen"
  /\ coming' = (coming \ {p}) \cup {[p EXCEPT !.key = seen]}
  /\ UNCHANGED <<shelf, bucket, crossed>>

\* The rest of put.  A content that is there already is not stored again:
\* memory answers with the artifact it has, and the new id leads nowhere; R2
\* with the new one.  Neither the id nor R2's key is looked at again.
Stored(p) ==
  LET a == p.artifact
  IN
  /\ p.key # "unseen"
  /\ coming' = coming \ {p}
  /\ shelf' = IF p.taken /\ shelf[a.hash] = Nowhere THEN [shelf EXCEPT ![a.id] = a, ![a.hash] = a] ELSE shelf
  /\ bucket' = IF p.key = "free" THEN [bucket EXCEPT ![a.hash] = a.hash] ELSE bucket
  /\ UNCHANGED crossed

\* Mutant: the content stays in memory under its hash.
RemoveByName(name) ==
  /\ shelf' = [n \in DOMAIN shelf |-> IF InMemory(name) # Nowhere /\ n = name THEN Nowhere ELSE shelf[n]]
  /\ bucket' = [h \in Hashes |-> IF name = KeyOf(h) THEN Nowhere.hash ELSE bucket[h]]
  /\ UNCHANGED <<coming, crossed>>

\* delete: memory forgets the name and the hash of what it finds there.
Remove(name) ==
  /\ shelf' = [n \in DOMAIN shelf |->
                 IF InMemory(name) # Nowhere /\ n \in {name, shelf[name].hash} THEN Nowhere ELSE shelf[n]]
  /\ bucket' = [h \in Hashes |-> IF name = KeyOf(h) THEN Nowhere.hash ELSE bucket[h]]
  /\ UNCHANGED <<coming, crossed>>

StoresInit ==
  /\ shelf = [n \in Artifacts \cup Hashes |-> Nowhere]
  /\ bucket = [h \in Hashes |-> Nowhere.hash]
  /\ coming = {} /\ crossed = {}

StoresNext ==
  \/ \E a \in Records, fits \in BOOLEAN : Put(a, fits)
  \/ \E p \in coming : HeadOfKey(p) \/ Stored(p)
  \/ \E name \in Names : Remove(name)

StoresSpec == StoresInit /\ [][StoresNext]_storeVars

-----------------------------------------------------------------------------
\* Whatever is put and removed, and however puts overlap, a hash leads to the
\* content it is the hash of, the same in both stores.  In memory an artifact
\* under its hash is also under its id, so what a put answers can be found.
\* The exception is an id put while a put of it was under way: both pass the
\* check of the id, and the hash of the first leads to an artifact whose id
\* leads to the other.  No name but a hash, to those who ask by hash, means a
\* content in both stores: a caller that keeps the id finds nothing on R2, and
\* whoever removes a content from one leaves it in the other.
ContentsAreTheirHash ==
  /\ \A h \in Hashes : shelf[h] # Nowhere =>
       /\ shelf[h].hash = h
       /\ shelf[h].id \notin crossed => shelf[shelf[h].id] = shelf[h]
  /\ \A i \in Artifacts : shelf[i] # Nowhere => shelf[i].id = i
  /\ \A h \in Hashes : Nowhere \notin {shelf[h], Listed(h)} => shelf[h].hash = Listed(h).hash
  /\ \A name \in Names : Nowhere \in {InMemory(name), InR2(name)}

StoresTypeOK ==
  /\ shelf \in [Artifacts \cup Hashes -> Records \cup {Nowhere}]
  /\ bucket \in [Hashes -> Hashes \cup {Nowhere.hash}]
  /\ coming \subseteq [artifact : Records, taken : BOOLEAN, key : {"unseen", "free", "held"}]
  /\ crossed \subseteq Artifacts

=============================================================================
