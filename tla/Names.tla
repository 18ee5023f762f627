--------------------------------- MODULE Names ---------------------------------
(***************************************************************************)
(* One file or folder name (_name in backend/app/library/naming.py): the   *)
(* values are sanitised, the template is rendered, and while the name has  *)
(* too many bytes the episode title is shortened, then the name itself is  *)
(* cut. Texts are sequences of a few characters that stand for the ones    *)
(* the code tells apart: "W" takes two bytes, "?" is illegal in a name.    *)
(***************************************************************************)
EXTENDS Integers, FiniteSets, Sequences, SequencesExt

CONSTANTS
    Letters,       \* the characters that no rule is about
    TitleTexts,    \* what a title can be
    EpisodeTexts,  \* what an episode title can be
    ColonModes,    \* the colon modes that are tried
    Limits         \* bytes: MAX_NAME_BYTES for a folder, less the reserve for a file

VARIABLES
    writing,   \* "idle", "loop" (in the while and after), "named" or "error"
    given,     \* the template, its values once sanitised, and the limit
    title,     \* the episode title that is left
    name       \* the rendered name

nameVars == <<writing, given, title, name>>

Wide    == "W"
Space   == " "
Colon   == ":"
Illegal == {"?"}
Edges   == {Space, "."}
Chars   == Letters \cup {Wide, Colon, "-", "[", "]"} \cup Illegal \cup Edges

ASSUME NamesAssumption ==
    /\ Limits \subseteq {n \in Nat : n >= 4}
    /\ TitleTexts \subseteq Seq(Chars) /\ EpisodeTexts \subseteq Seq(Chars)

Size(text) == Len(text) + Cardinality({i \in DOMAIN text : text[i] = Wide})

---------------------------------------------------------------------------
(* sanitize                                                                *)

Dash(text, i, mode) ==
    CASE mode = "smart" /\ i < Len(text) /\ text[i + 1] = Space -> <<Space, "-">>
      [] mode = "space_dash"       -> <<Space, "-">>
      [] mode = "space_dash_space" -> <<Space, "-", Space>>
      [] mode = "delete"           -> << >>
      [] OTHER                     -> <<"-">>

ColonAt(text, i, mode) == IF text[i] = Colon THEN Dash(text, i, mode) ELSE <<text[i]>>

ReplaceColons(text, mode) == FlattenSeq([i \in DOMAIN text |-> ColonAt(text, i, mode)])

LegalAt(text, i) == IF text[i] \in Illegal THEN << >> ELSE <<text[i]>>

RemoveIllegal(text) == FlattenSeq([i \in DOMAIN text |-> LegalAt(text, i)])

SpaceAt(text, i) ==
    IF i > 1 /\ text[i] = Space /\ text[i - 1] = Space THEN << >> ELSE <<text[i]>>

Collapse(text) == FlattenSeq([i \in DOMAIN text |-> SpaceAt(text, i)])

Strip(text) ==
    LET kept == {i \in DOMAIN text : text[i] \notin Edges}
    IN  IF kept = {} THEN << >> ELSE SubSeq(text, Min(kept), Max(kept))

Sanitize(text, mode) == Strip(Collapse(RemoveIllegal(ReplaceColons(text, mode))))

---------------------------------------------------------------------------
(* Templates: pieces of characters and tokens, some of them in brackets.   *)
(* A bracket with a token that is empty is dropped.                        *)

Plain(items)   == [bracket |-> FALSE, items |-> items]
Bracket(items) == [bracket |-> TRUE, items |-> items]

EpisodeFile == <<Plain(<<"Title", Space, "-", Space, "Episode Title">>)>>
MovieFolder == <<Plain(<<"Title", Space>>), Bracket(<<"[", "Episode Title", "]">>)>>

ItemText(item, values) == IF item \in DOMAIN values THEN values[item] ELSE <<item>>

Dropped(piece, values) ==
    piece.bracket /\ \E i \in DOMAIN piece.items : ItemText(piece.items[i], values) = << >>

PieceText(piece, values) ==
    IF Dropped(piece, values) THEN << >>
    ELSE FlattenSeq([i \in DOMAIN piece.items |-> ItemText(piece.items[i], values)])

Render(template, values) ==
    Strip(Collapse(FlattenSeq([i \in DOMAIN template |-> PieceText(template[i], values)])))

TitleValues(t, episode) == [v \in {"Title", "Episode Title"} |-> IF v = "Title" THEN t ELSE episode]

---------------------------------------------------------------------------
(* The steps of _name                                                      *)

Overflow == Size(name) - given.limit

\* The bytes of a text up to n, without a character that was cut in two.
FirstBytes(text, n) ==
    SubSeq(text, 1, Max({k \in 0..Len(text) : Size(SubSeq(text, 1, k)) <= n}))

NoTexts == [template |-> << >>, title |-> << >>, episode |-> << >>, mode |-> "smart", limit |-> 0]

Name ==
    /\ writing = "idle"
    /\ \E template \in {EpisodeFile, MovieFolder}, mode \in ColonModes, limit \in Limits,
          t \in TitleTexts, e \in EpisodeTexts :
        /\ given' = [template |-> template, title |-> Sanitize(t, mode),
                     episode |-> Sanitize(e, mode), mode |-> mode, limit |-> limit]
        /\ title' = Sanitize(e, mode)
        /\ name' = Render(template, TitleValues(Sanitize(t, mode), Sanitize(e, mode)))
        /\ writing' = "loop"

\* The least important part goes first, and no more of it than has to.
Shorten ==
    /\ writing = "loop" /\ Overflow > 0 /\ title # << >>
    /\ title' = Sanitize(FirstBytes(title, Max({Size(title) - Overflow, 0})), given.mode)
    /\ name' = Render(given.template, TitleValues(given.title, title'))
    /\ UNCHANGED <<writing, given>>

CutName_NoStrip(text, limit) == FirstBytes(text, limit)
CutName(text, limit) == Strip(FirstBytes(text, limit))

Finish ==
    /\ writing = "loop" /\ (Overflow <= 0 \/ title = << >>)
    /\ name' = IF Overflow > 0 THEN CutName(name, given.limit) ELSE name
    /\ writing' = IF name' = << >> THEN "error" ELSE "named"
    /\ UNCHANGED <<given, title>>

NamesInit == writing = "idle" /\ given = NoTexts /\ title = << >> /\ name = << >>

NamesNext == Name \/ Shorten \/ Finish

NamesSpec == NamesInit /\ [][NamesNext]_nameVars
---------------------------------------------------------------------------
(* Properties                                                              *)

\* A file or folder name fits its bytes whatever the titles are, is one component that no
\* system refuses (nothing illegal, no space or dot at an end, never empty), loses of its
\* main title only when nothing of the episode title is left, and is refused only when
\* there is nothing to name.
NameFits ==
    /\ writing = "named" =>
          /\ Size(name) <= given.limit /\ name # << >>
          /\ \A i \in DOMAIN name : name[i] \notin Illegal \cup {Colon}
          /\ name[1] \notin Edges /\ name[Len(name)] \notin Edges
          /\ IsPrefix(given.title, name) \/ title = << >>
          /\ IsPrefix(title, given.episode)
    /\ writing = "error" =>
          /\ Render(given.template, TitleValues(given.title, given.episode)) = << >>
          /\ given.title = << >>
=============================================================================
