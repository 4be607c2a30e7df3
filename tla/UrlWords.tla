------------------------------ MODULE UrlWords ------------------------------
(***************************************************************************)
(* LinkFinder::parse_url (src/src/Parser.cpp): the words of the url of a   *)
(* page, and the rank its domain has in a list of the best known ones.     *)
(***************************************************************************)
EXTENDS Integers, Sequences, FiniteSets, SequencesExt

CONSTANTS
  Vowels, Consonants,  \* letters; a capital counts as a consonant
  TopLevelDomains,     \* of three letters each
  Ranked               \* word -> rank, for the words in the list

MaxDomainRank == 745000

Separator(c) == c \in {"-", "/", ".", "_"}
IsAlpha(c)   == c \in Vowels \union Consonants

IsValidWord(word, vowels) ==
  Len(word) >= 2 /\ vowels > 0 /\ ~IsPrefix(<<"w", "w", "w">>, word)

\* Any two letters, or a word that begins like a domain: but not the first word.
IsStopDomain(words, word) ==
  words # <<>> /\ (Len(word) = 2 \/ \E d \in TopLevelDomains : IsPrefix(d, word))

Smaller(a, b) == IF b < a THEN b ELSE a

\* assign_domain_rank, of one word after the other.
Rank(rank, words) ==
  FoldLeft(LAMBDA best, word : Smaller(best, IF word \in DOMAIN Ranked THEN Ranked[word]
                                             ELSE MaxDomainRank), rank, words)

NewUrl == [words |-> <<>>, word |-> <<>>, vowels |-> 0, consonants |-> 0, slashes |-> 0,
           found |-> FALSE, rank |-> MaxDomainRank]

NoWord(doc) == [doc EXCEPT !.word = <<>>, !.vowels = 0, !.consonants = 0]

Letter(doc, c) ==
  [doc EXCEPT !.word = Append(@, c),
              !.vowels = IF c \in Vowels THEN @ + 1 ELSE @,
              !.consonants = IF c \in Vowels THEN 0 ELSE @ + 1]

\* The end of a word at a character that is no letter.  Mutant: the word itself is ranked too.
RanksTheDomainToo(doc, c) ==
  LET valid == IsValidWord(doc.word, doc.vowels)
      stop  == valid /\ ~doc.found /\ IsStopDomain(doc.words, doc.word)
      words == IF valid THEN Append(doc.words, doc.word) ELSE doc.words
  IN  NoWord([doc EXCEPT !.words   = words,
                         !.found   = @ \/ stop,
                         !.rank    = IF stop THEN Rank(@, words) ELSE @,
                         !.slashes = IF c = "/" THEN @ + 1 ELSE @])

EndWord(doc, c) ==
  LET valid == IsValidWord(doc.word, doc.vowels)
      stop  == valid /\ ~doc.found /\ IsStopDomain(doc.words, doc.word)
  IN  NoWord([doc EXCEPT !.words   = IF valid THEN Append(@, doc.word) ELSE @,
                         !.found   = @ \/ stop,
                         !.rank    = IF stop THEN Rank(@, doc.words) ELSE @,
                         !.slashes = IF c = "/" THEN @ + 1 ELSE @])

\* The rest of what has four consonants in a row, or of what begins with a character that is
\* no letter, is skipped up to a separator, and the separator with it.
NextSeparator(url, at) ==
  CHOOSE i \in at..Len(url) + 1 : /\ i > Len(url) \/ Separator(url[i])
                                  /\ \A j \in at..i - 1 : ~Separator(url[j])

RECURSIVE ParseUrlFrom(_, _, _)
ParseUrlFrom(url, at, doc) ==
  LET read == Letter(doc, url[at])
      last == IF IsValidWord(doc.word, doc.vowels) THEN <<doc.word>> ELSE <<>>
  IN  IF at > Len(url) THEN [doc EXCEPT !.words = @ \o last]
      ELSE IF ~IsAlpha(url[at])
      THEN ParseUrlFrom(url, NextSeparator(url, at) + 1, EndWord(doc, url[at]))
      ELSE IF read.consonants = 4
      THEN ParseUrlFrom(url, NextSeparator(url, at) + 1, NoWord(read))
      ELSE ParseUrlFrom(url, at + 1, read)

ParseUrl(url) == ParseUrlFrom(url, 1, NewUrl)
----------------------------------------------------------------------------
(* The same, between separators. *)

\* The letters behind the separators, each up to the next other character.
Runs(url) ==
  LET starts == SelectSeq([i \in DOMAIN url |-> i],
                          LAMBDA i : IsAlpha(url[i]) /\ (i = 1 \/ Separator(url[i - 1])))
      End(i) == CHOOSE j \in i..Len(url) : /\ \A k \in i..j : IsAlpha(url[k])
                                           /\ j = Len(url) \/ ~IsAlpha(url[j + 1])
  IN  [n \in DOMAIN starts |-> SubSeq(url, starts[n], End(starts[n]))]

IsWord(run) ==
  /\ Len(run) >= 2 /\ ~IsPrefix(<<"w", "w", "w">>, run)
  /\ \E i \in DOMAIN run : run[i] \in Vowels
  /\ ~\E i \in 1..Len(run) - 3 : \A j \in i..i + 3 : run[j] \in Consonants

EndsIn(run, url) ==
  IsSuffix(run, url) /\ (Len(run) = Len(url) \/ Separator(url[Len(url) - Len(run)]))

\* The words of a url are the runs of letters that can be words, and the rank of its domain
\* is the best of those in front of the first word but one that begins like a top level
\* domain and does not end the url (Parser.cpp:25, 93): what is skipped hides no word, and
\* no count of vowels or consonants is left over from the word before.
UrlIsReadAsWords(url) ==
  LET doc   == ParseUrl(url)
      words == SelectSeq(Runs(url), IsWord)
      tops  == {i \in 2..Len(words) : /\ IsStopDomain(<<words[1]>>, words[i])
                                      /\ ~(i = Len(words) /\ EndsIn(words[i], url))}
  IN  /\ doc.words = words
      /\ doc.rank = IF tops = {} THEN MaxDomainRank
                    ELSE Rank(MaxDomainRank,
                              SubSeq(words, 1, (CHOOSE i \in tops : \A j \in tops : i <= j) - 1))
=============================================================================
