------------------------------ MODULE Sections ------------------------------
(***************************************************************************)
(* The sections of the fields: the merge of the text, the synonyms and the *)
(* vectors of a field, the building of the last two, and the readers of    *)
(* dictionaries and vectors.  A section has an opaque of its own, and      *)
(* mergeToWriter, Persist and AddrForField turn to one after the other     *)
(* with the same drops and document numbers, so a behaviour is that of one *)
(* section; the rest stays as it starts.                                   *)
(***************************************************************************)
EXTENDS MergeTerms, Synonyms, VectorSection, VectorSearch, Dictionary

VARIABLE section  \* the section at work

sectionVars == <<section, mergeVars, synVars, vecVars, searchVars, dictionaryVars>>

SectionsInit ==
  /\ section \in {"text", "synonyms", "vectors", "search", "dictionary"}
  /\ IF section \in {"text", "synonyms", "vectors"} THEN SomeDrops
     ELSE drops = [i \in Itrs |-> {}]
  /\ IF section = "text"       THEN TermInputs       ELSE NoTerms
  /\ IF section = "synonyms"   THEN SynonymInputs    ELSE NoSynonyms
  /\ IF section = "vectors"    THEN VectorInputs     ELSE NoVectors
  /\ IF section = "search"     THEN SearchInputs     ELSE NoSearch
  /\ IF section = "dictionary" THEN DictionaryInputs ELSE NoDictionary
  /\ NoEnumerator /\ MergeStart /\ SynonymsStart /\ VectorsStart
  /\ SearchStart /\ DictionaryStart

Text ==
  /\ section = "text" /\ MergeNext
  /\ UNCHANGED <<section, synVars, vecVars, searchVars, dictionaryVars>>

SynonymSection ==
  /\ section = "synonyms" /\ SynonymsNext
  /\ UNCHANGED <<section, plan, coders, dictVars, lists, todo, pc, prevTerm, roar, last,
                 vecVars, searchVars, dictionaryVars>>

VectorIndexes ==
  /\ section = "vectors" /\ VectorsNext
  /\ UNCHANGED <<section, itrVars, plan, coders, dictVars, lists, todo, pc, prevTerm, roar,
                 last, synVars, searchVars, dictionaryVars>>

Searches ==
  /\ section = "search" /\ Search
  /\ UNCHANGED <<section, mergeVars, synVars, vecVars, dictionaryVars>>

LookUps ==
  /\ section = "dictionary" /\ DictionaryNext
  /\ UNCHANGED <<section, mergeVars, synVars, vecVars, searchVars>>

SectionsNext == Text \/ SynonymSection \/ VectorIndexes \/ Searches \/ LookUps

SectionsSpec == SectionsInit /\ [][SectionsNext]_sectionVars
=============================================================================
