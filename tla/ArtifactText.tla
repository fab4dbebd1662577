----------------------------- MODULE ArtifactText -----------------------------
(***************************************************************************)
(* ArtifactStorage of src/state/artifact-store.ts and the tool             *)
(* hco_execution_artifact of src/mcp/server.ts, for the texts of one       *)
(* execution: stored in chunks, read in parts by clients that follow       *)
(* next_offset.                                                            *)
(*                                                                         *)
(* Of a byte only its class in UTF-8 matters: it is a character, begins    *)
(* one of two or three bytes, or continues one.  Nothing under src/ calls  *)
(* store yet; it is modelled as the operation the class offers.            *)
(***************************************************************************)
EXTENDS Naturals, SequencesExt

CONSTANTS Artifacts, Keys,
          MaxCharacters,  \* bound on the length of a text
          MaxChunk,       \* maxChunkBytes
          MaxInline,      \* maxInlineBytes
          MaxIndividual,  \* maxIndividualBytes
          MaxTotal        \* maxTotalPerExecutionBytes

VARIABLES
  rows,    \* the rows of artifacts in the order of their insertion
  offset,  \* offset[a]: what the client that reads a asks for next, Done at the end
  parts    \* parts[a]: what the client has been given

artifactVars == <<rows, offset, parts>>

Characters == {<<"ascii">>, <<"two", "more">>, <<"three", "more", "more">>}
Texts == {FlattenSeq(s) : s \in BoundedSeq(Characters, MaxCharacters)}

Done == MaxIndividual * Cardinality(Artifacts) + 1

Init ==
  /\ rows = <<>>
  /\ offset = [a \in Artifacts |-> 0]
  /\ parts = [a \in Artifacts |-> <<>>]

-----------------------------------------------------------------------------
(* ArtifactStorage.                                                        *)

\* listArtifacts: one row for every artifact, its first
Listed == {i \in DOMAIN rows : rows[i].chunk = 0}

TotalBytes == MapThenSumSet(LAMBDA i : rows[i].size, Listed)

ChunksOf(a, k, text) ==
  [i \in 1..((Len(text) + MaxChunk - 1) \div MaxChunk) |->
     [artifact |-> a, key |-> k, size |-> Len(text), chunk |-> i - 1,
      data |-> SubSeq(text, (i - 1) * MaxChunk + 1, Min({i * MaxChunk, Len(text)}))]]

\* The chunks of one artifact in one transaction; an artifact_id that exists is
\* refused by UNIQUE(artifact_id, chunk_index), a key that exists is not.
Store(a, k, text) ==
  /\ Len(text) <= MaxIndividual
  /\ TotalBytes + Len(text) <= MaxTotal
  /\ \A i \in Listed : rows[i].artifact # a
  /\ rows' = rows \o ChunksOf(a, k, text)
  /\ UNCHANGED <<offset, parts>>

\* By key and not by artifact, in the order of the chunks.
Retrieve(k) ==
  FlattenSeq([c \in 1..Len(rows) |->
    FlattenSeq([i \in DOMAIN rows |->
      IF rows[i].key = k /\ rows[i].chunk = c - 1 THEN rows[i].data ELSE <<>>])])

DeleteArtifacts == rows' = <<>> /\ UNCHANGED <<offset, parts>>

-----------------------------------------------------------------------------
(* The tool and its client.                                                *)

\* Trailing bytes that continue a character are cut off, the one that begins it
\* is not.
Trimmed(bytes) ==
  SubSeq(bytes, 1, Max({0} \cup {i \in DOMAIN bytes : bytes[i] # "more"}))

Read(a, limit) ==
  \E m \in Listed :
    LET raw  == Retrieve(rows[m].key)
        end  == Min({offset[a] + Min({limit, MaxInline}), Len(raw)})
        part == Trimmed(SubSeq(raw, offset[a] + 1, end))
    IN
    /\ rows[m].artifact = a
    /\ offset[a] < rows[m].size
    /\ parts' = [parts EXCEPT ![a] = Append(@, part)]
    /\ offset' = [offset EXCEPT
                    ![a] = IF end < Len(raw) THEN @ + Len(part) ELSE Done]
    /\ UNCHANGED rows

\* The client takes what it has and begins again.
Restart(a) ==
  /\ offset[a] # 0
  /\ offset' = [offset EXCEPT ![a] = 0]
  /\ parts' = [parts EXCEPT ![a] = <<>>]
  /\ UNCHANGED rows

\* A limit that holds any character.
Next ==
  \/ \E a \in Artifacts, k \in Keys, text \in Texts : Store(a, k, text)
  \/ DeleteArtifacts
  \/ \E a \in Artifacts : Restart(a) \/ \E limit \in 3..MaxInline : Read(a, limit)

Spec == Init /\ [][Next]_artifactVars

-----------------------------------------------------------------------------
(* What a comment in the tool and the change log say.                      *)

\* No character is split: "ensure we don't split a UTF-8 code point"
\* (src/mcp/server.ts:526), "UTF-8 boundary safety" (CHANGELOG.md:138).  Every part
\* that a client is given is a text of whole characters.
NoCharacterSplit == \A a \in Artifacts : Range(parts[a]) \subseteq Texts
=============================================================================
