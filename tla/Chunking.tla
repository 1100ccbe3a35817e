------------------------------ MODULE Chunking ------------------------------
(***************************************************************************)
(* How a document is cut into the chunks that are embedded                 *)
(* (service/chunking.py, called by KnowledgeService._embed_document).      *)
(*                                                                         *)
(* A character is a sign and its place in the text that is cut, so that a  *)
(* chunk tells which stretch of the text it is; a separator is a sequence  *)
(* of signs, any there are.  Texts hold no addresses, of which remove_urls *)
(* rids them.                                                              *)
(***************************************************************************)
EXTENDS Integers, SequencesExt

CONSTANTS
  Alphabet,        \* signs that are not blank
  ChunkSize,       \* chunk_size
  ParentSize,      \* parent_chunk_size
  Overlaps,        \* the values of chunk_overlap looked at
  SeparatorLists,  \* the values of separators looked at; <<>> is the empty separator
  MaxText          \* bound: characters of a text

Space   == " "
LineEnd == "\n"
Blank(sign) == sign \in {Space, LineEnd}

Signs == Alphabet \cup {Space, LineEnd}
Chars == [sign : Signs, at : Nat]

\* A chunk has room for two characters (the schema asks for a hundred).
ASSUME ChunkingAssumption ==
  /\ MaxText \in Nat /\ Overlaps \subseteq Nat /\ SeparatorLists \subseteq Seq(Seq(Signs))
  /\ ChunkSize \in Nat /\ ChunkSize > 1 /\ ParentSize \in Nat /\ ParentSize > 1

Letters(text) == {p \in DOMAIN text : ~Blank(text[p].sign)}

\* The characters of a text that is to be cut know their places.
WithPlaces(text) == [i \in DOMAIN text |-> [sign |-> text[i].sign, at |-> i]]

Texts == {[i \in DOMAIN signs |-> [sign |-> signs[i], at |-> i]] : signs \in BoundedSeq(Signs, MaxText)}

DefaultSeparators == <<<<LineEnd, LineEnd>>, <<LineEnd>>>>

Configs == [separators : SeparatorLists, overlap : Overlaps, collapse : BOOLEAN, parents : BOOLEAN]

VARIABLE cut  \* a text, the configuration of its folder and its chunks

NoCut == [text |-> <<>>, chunks |-> <<>>]
ChunkInit == cut = NoCut

---------------------------------------------------------------------------
(* The operations on texts. *)

\* str.strip
Strip(text) ==
  IF Letters(text) = {} THEN <<>> ELSE SubSeq(text, Min(Letters(text)), Max(Letters(text)))

\* remove_extra_whitespace: blanks in a row, line ends too, become one space.
Preprocessed(text, collapse) ==
  LET t == Strip(text)
      kept(i) == IF i \in Letters(t) THEN <<t[i]>>
                 ELSE IF i - 1 \in Letters(t) THEN <<[t[i] EXCEPT !.sign = Space]>> ELSE <<>>
  IN IF collapse THEN FlattenSeq([i \in DOMAIN t |-> kept(i)]) ELSE t

\* A text that is not blank, trimmed, with an end.
Trimmed(text, end) == IF Strip(text) = <<>> THEN <<>> ELSE <<Strip(text) \o end>>

\* The separator stands at a place of the text.
Reads(text, i, separator) == \A k \in DOMAIN separator : text[i + k - 1].sign = separator[k]

\* str.split, and the parts that are not blank; all but the very last one keep their separator.
GoodSplits(text, separator) ==
  LET n == Len(separator)
      places(p) == {i \in p..(Len(text) + 1 - n) : Reads(text, i, separator)}
      splits[p \in 1..(Len(text) + 1)] ==
        IF places(p) = {} THEN Trimmed(SubSeq(text, p, Len(text)), <<>>)
        ELSE LET i == Min(places(p))
             IN Trimmed(SubSeq(text, p, i - 1), SubSeq(text, i, i + n - 1)) \o splits[i + n]
  IN splits[1]

\* Stands among the chunks of a call that does not return.
Endless == <<>>

\* Windows of the size, each beginning an overlap before the end of the last one; they do not
\* advance if the overlap is as wide as they are.
Windows(text, size, overlap) ==
  LET stop(p) == Min({p + size - 1, Len(text)})
      window(p) == Trimmed(SubSeq(text, p, stop(p)), <<>>)
      windows[p \in DOMAIN text] ==
        IF stop(p) = Len(text) THEN window(p) ELSE window(p) \o windows[stop(p) - overlap + 1]
  IN IF size < Len(text) /\ size <= overlap THEN <<Endless>> ELSE windows[1]

EndOf(text, n) == SubSeq(text, Max({1, Len(text) - n + 1}), Len(text))

---------------------------------------------------------------------------
(* Cutting. *)

\* The chunk being filled is done.
PutAway(acc) ==
  IF Strip(acc.open) = <<>> THEN acc
  ELSE [done |-> Append(acc.done, Strip(acc.open)), open |-> <<>>]

\* (not the code) The chunk being filled stays open, and so comes after those of the split.
FaultyTakeIn(acc, below) == [acc EXCEPT !.done = @ \o below]

\* The chunks of a large split follow what was filled before it.
TakeIn(acc, below) == IF below = <<>> THEN acc ELSE [PutAway(acc) EXCEPT !.done = @ \o below]

\* A split too large for a chunk is cut at the next separator, if there is one; the others
\* fill chunks one after the other.
Fill(acc, split, last, next, size, overlap) ==
  IF Len(split) > size /\ ~last THEN TakeIn(acc, next[split])
  ELSE IF Len(acc.open) + Len(split) <= size THEN [acc EXCEPT !.open = @ \o split]
  ELSE [PutAway(acc) EXCEPT !.open = EndOf(acc.open, overlap) \o split]

\* _recursive_chunk; next are the chunks of each text with the next separator.
Pieces(text, separator, last, next, size, overlap) ==
  LET fill(acc, split) == Fill(acc, split, last, next, size, overlap)
  IN IF Len(Strip(text)) < 2 THEN <<>>
     ELSE IF separator = <<>> THEN Windows(text, size, overlap)
     ELSE PutAway(FoldLeft(fill, [done |-> <<>>, open |-> <<>>], GoodSplits(text, separator))).done

Cut(text, separators, size, overlap) ==
  LET last(n) == n = Len(separators)
      pieces[n \in DOMAIN separators] ==
        [t \in Seq(Chars) |->
          Pieces(t, separators[n], last(n), IF last(n) THEN <<>> ELSE pieces[n + 1], size, overlap)]
  IN pieces[1][WithPlaces(text)]

SeparatorsOf(config) == IF config.separators = <<>> THEN DefaultSeparators ELSE config.separators

\* The text, or in parent-child mode its parents.
ParentsOf(text, config) ==
  IF config.parents THEN Cut(text, SeparatorsOf(config), ParentSize, config.overlap \div 2) ELSE <<text>>

\* chunk_text_with_config: the chunks of each parent.
ChunkText(text, config) ==
  LET parents == ParentsOf(Preprocessed(text, config.collapse), config)
  IN [p \in DOMAIN parents |-> Cut(parents[p], SeparatorsOf(config), ChunkSize, config.overlap)]

EmbedText ==
  /\ cut = NoCut
  /\ \E text \in Texts, config \in Configs :
       cut' = [text |-> text, config |-> config, chunks |-> ChunkText(text, config)]

ChunkNext == EmbedText

ChunkSpec == ChunkInit /\ [][ChunkNext]_cut

---------------------------------------------------------------------------
(* What is lost, and what must not be. *)

\* Where the letters of a separator stand in a text, once for each copy: one after the other,
\* with nothing but blanks between them.
Occurrences(text, separator) ==
  LET signs == {k \in DOMAIN separator : ~Blank(separator[k])}
  IN {Range(place) : place \in {f \in [signs -> Letters(text)] :
       /\ \A k \in signs : text[f[k]].sign = separator[k]
       /\ \A j, k \in signs : j < k => f[j] < f[k]
       /\ \A j, k \in signs, x \in Letters(text) : f[j] <= x /\ x <= f[k] => x \in Range(f)}}

\* Those of a separator that ends nothing: the document, a blank or another separator is all
\* there is right before it.
EndingNothing(text, separators) ==
  LET copies == UNION {Occurrences(text, s) : s \in ToSet(separators)}
  IN UNION {c \in copies : \A x \in c : x - 1 \in Letters(text) => x - 1 \in UNION copies}

\* A letter before blanks that are a separator as wide as a chunk.
BeforeBlanks(text, separators, size) ==
  {x \in Letters(text) : \E s \in ToSet(separators) :
     /\ size <= Len(s) /\ \A k \in DOMAIN s : Blank(s[k])
     /\ (x + 1)..(x + Len(s)) \subseteq DOMAIN text \ Letters(text)}

\* The letters the code may drop.
Loose(text, separators, size) == EndingNothing(text, separators) \cup BeforeBlanks(text, separators, size)

\* The places of the letters of a chunk in the text it is of.
PlacesIn(chunk) == {chunk[p].at : p \in Letters(chunk)}

\* A chunk is in the order of the text and leaves out nothing in between that is kept.
Unbroken(chunk, kept) ==
  /\ \A p, q \in Letters(chunk) : p < q => chunk[p].at < chunk[q].at
  /\ \A y, z \in PlacesIn(chunk), x \in kept : y < x /\ x < z => x \in PlacesIn(chunk)

\* A chunk goes as far as the one before it, and of what that one has shows no more than
\* the overlap.
Follows(before, chunk, overlap) ==
  /\ \A y \in PlacesIn(before) : \E z \in PlacesIn(chunk) : y <= z
  /\ \A q \in Letters(chunk), y \in PlacesIn(before) : chunk[q].at <= y => q <= overlap

\* A chunk wider than the size and the overlap holds a part wider than the size, with its
\* separator, that the last separator does not cut.
Fits(chunk, separator, size, overlap) ==
  Len(chunk) > size + overlap =>
    /\ separator # <<>>
    /\ \E i, j \in Letters(chunk) :
         /\ j - i + 1 + Len(separator) > size
         /\ \A k \in i..(j + 1 - Len(separator)) : ~Reads(chunk, k, separator)

\* The chunks of a text have each of its letters but those which may be dropped.  A call
\* does not return only if it comes to windows with an overlap as wide as they are.
Whole(text, chunks, separators, size, overlap) ==
  LET kept == Letters(text) \ Loose(text, separators, size)
  IN IF Endless \in ToSet(chunks) THEN size <= overlap /\ <<>> \in ToSet(separators)
     ELSE IF Len(Strip(text)) < 2 THEN chunks = <<>>
     ELSE /\ \A x \in kept : \E i \in DOMAIN chunks : x \in PlacesIn(chunks[i])
          /\ \A i \in DOMAIN chunks :
               /\ PlacesIn(chunks[i]) # {} /\ PlacesIn(chunks[i]) \subseteq Letters(text)
               /\ Unbroken(chunks[i], kept)
               /\ Fits(chunks[i], Last(separators), size, overlap)
               /\ i > 1 => Follows(chunks[i - 1], chunks[i], overlap)

\* chunk_text_with_config: of a document, and of each of its parents, no letter is missing
\* from the chunks, nor out of order, nor shown more often than the overlap accounts for,
\* whatever separators, overlaps, large splits and leftovers they are made of.  Not all is
\* kept: the code drops a separator that ends nothing, be it of letters, a letter alone before
\* a separator of blanks as wide as a chunk, and a text, a document or a parent, of a single
\* character.  Nor does every call return, if windows overlap by all of their size.
ChunksKeepText ==
  cut # NoCut =>
    LET separators == SeparatorsOf(cut.config)
        overlap == cut.config.overlap
        plain == Preprocessed(cut.text, cut.config.collapse)
        parents == ParentsOf(plain, cut.config)
    IN /\ cut.config.parents => Whole(plain, parents, separators, ParentSize, overlap \div 2)
       /\ \A p \in DOMAIN parents : Whole(parents[p], cut.chunks[p], separators, ChunkSize, overlap)
=============================================================================
