------------------------------ MODULE Artifacts ------------------------------
(***************************************************************************)
(* Which parts of a model's reply become files: extractArtifacts walks the *)
(* reply with one global regular expression whose position outlives the    *)
(* call.  A reply is a sequence of lines.                                  *)
(*                                                                         *)
(* Left out: three backticks inside a line of text, characters between the *)
(* fence and the file's name, and the wording of names.                    *)
(***************************************************************************)
EXTENDS Integers, Sequences, FiniteSetsExt

CONSTANTS
    Lines,      \* the lines a reply is made of
    MaxLines    \* bound: lines of one reply

\* A fence is three backticks alone ("bare"), with a language the expression
\* can read ("tag"), or with anything else behind them ("info").  The size is
\* the number of characters of a text line, 0 for a blank one.
ASSUME LinesOK ==
    /\ Lines \subseteq [fence : {"none", "bare", "tag", "info"}, size : Nat]
    /\ MaxLines \in Nat

Replies == UNION {[1..n -> Lines] : n \in 0..MaxLines}

VARIABLES
    pc,         \* "idle", "exec" or "returned"
    response,   \* the reply being walked
    lastIndex,  \* FENCE.lastIndex, as the line it is in; 0 is the start
    index,      \* the number of the last file
    artifacts   \* the files so far: number, opening and closing line

vars == <<pc, response, lastIndex, index, artifacts>>

MIN_CONTENT_LENGTH == 24

IsFence(i) == response[i].fence # "none"

\* match[2].trim().length: the written lines, and what is between them.
ContentLength(reply, i, j) ==
    LET written == {l \in i + 1 .. j - 1 : reply[l].size > 0}
    IN  IF written = {} THEN 0
        ELSE MapThenSumSet(LAMBDA l : reply[l].size, written)
             + Max(written) - Min(written)

TooShort(i, j) == ContentLength(response, i, j) < MIN_CONTENT_LENGTH

Opens(i) == response[i].fence \in {"bare", "tag"}

\* The first match of FENCE behind lastIndex: from the next line that opens to
\* the next fence of any kind behind it.
IsMatch(i, j) ==
    /\ lastIndex < i /\ Opens(i) /\ \A l \in lastIndex + 1 .. i - 1 : ~ Opens(l)
    /\ i < j /\ IsFence(j) /\ \A l \in i + 1 .. j - 1 : ~ IsFence(l)

Positions == 1 .. Len(response)

Init ==
    /\ pc = "idle" /\ response = <<>> /\ lastIndex = 0
    /\ index = 0 /\ artifacts = <<>>

-----------------------------------------------------------------------------
Call ==
    /\ pc = "idle" /\ pc' = "exec"
    /\ \E reply \in Replies : response' = reply
    /\ lastIndex' = 0
    /\ index' = 0 /\ artifacts' = <<>>

\* Mutant: a lookahead for the closing fence, which leaves it to be read again.
BehindText(j) == j - 1

\* Where a match that ends in line j leaves lastIndex: behind the backticks,
\* and there is no other fence in that line.
BehindMatch(j) == j

SkipShort ==
    /\ pc = "exec"
    /\ \E i, j \in Positions :
          /\ IsMatch(i, j) /\ TooShort(i, j)
          /\ lastIndex' = BehindMatch(j)
    /\ UNCHANGED <<pc, response, index, artifacts>>

\* Mutant: a skipped block takes a number, as if index grew with the matches.
PushNumberedByFence ==
    /\ pc = "exec"
    /\ \E i, j \in Positions :
          /\ IsMatch(i, j) /\ ~ TooShort(i, j)
          /\ lastIndex' = BehindMatch(j)
          /\ index' = Cardinality({l \in 1 .. i : Opens(l)})
          /\ artifacts' = Append(artifacts,
                [number |-> index', opening |-> i, closing |-> j])
    /\ UNCHANGED <<pc, response>>

Push ==
    /\ pc = "exec"
    /\ \E i, j \in Positions :
          /\ IsMatch(i, j) /\ ~ TooShort(i, j)
          /\ lastIndex' = BehindMatch(j)
          /\ index' = index + 1
          /\ artifacts' = Append(artifacts,
                [number |-> index + 1, opening |-> i, closing |-> j])
    /\ UNCHANGED <<pc, response>>

\* Mutant: the position is kept when nothing matches any more.
ReturnInPlace ==
    /\ pc = "exec" /\ \A i, j \in Positions : ~ IsMatch(i, j)
    /\ pc' = "returned"
    /\ UNCHANGED <<response, lastIndex, index, artifacts>>

\* exec finds nothing, which sets lastIndex to 0.
Return ==
    /\ pc = "exec" /\ \A i, j \in Positions : ~ IsMatch(i, j)
    /\ pc' = "returned"
    /\ lastIndex' = 0
    /\ UNCHANGED <<response, index, artifacts>>

\* saveArtifacts goes on with the files (Exchange).
Take ==
    /\ pc = "returned" /\ pc' = "idle"
    /\ response' = <<>> /\ index' = 0 /\ artifacts' = <<>>
    /\ UNCHANGED lastIndex

Next == Call \/ SkipShort \/ Push \/ Return \/ Take

Spec == Init /\ [][Next]_vars

-----------------------------------------------------------------------------
Artifact == [number : Nat, opening : Nat, closing : Nat]

TypeOK ==
    /\ pc \in {"idle", "exec", "returned"}
    /\ response \in Seq(Lines) /\ Len(response) <= MaxLines
    /\ lastIndex \in 0 .. Len(response)
    /\ pc # "exec" => lastIndex = 0
    /\ artifacts \in Seq(Artifact) /\ index = Len(artifacts)

(* Whatever the reply looks like, its files are apart: numbered from one   *)
(* in the order of the text, no line in two of them, none that holds a     *)
(* fence, and none below the minimum.                                      *)
ArtifactsAreApart ==
    \A k \in DOMAIN artifacts :
        LET a == artifacts[k]
        IN  /\ a.number = k
            /\ a.opening < a.closing /\ a.closing <= Len(response)
            /\ \A l \in a.opening + 1 .. a.closing - 1 : ~ IsFence(l)
            /\ ~ TooShort(a.opening, a.closing)
            /\ \A n \in k + 1 .. Len(artifacts) :
                  a.closing < artifacts[n].opening

\* The code blocks of Markdown: any fence opens one and a bare fence ends it.
\* OpenedAt(reply)[i] is the opening of the block open behind line i, or 0.
OpenedAt(reply) ==
    LET opened[i \in 0 .. Len(reply)] ==
            IF i = 0 THEN 0
            ELSE IF opened[i - 1] = 0 /\ reply[i].fence # "none" THEN i
            ELSE IF reply[i].fence = "bare" THEN 0
            ELSE opened[i - 1]
    IN  opened

CodeBlocks ==
    LET opened == OpenedAt(response)
    IN  {b \in Positions \X Positions :
            b[1] < b[2] /\ opened[b[2] - 1] = b[1] /\ opened[b[2]] = 0}

\* No fence with an info string, and no tagged fence inside of a block.
Plain ==
    LET opened == OpenedAt(response)
    IN  \A i \in Positions :
            /\ response[i].fence # "info"
            /\ response[i].fence = "tag" => opened[i - 1] = 0

Filed == {<<artifacts[k].opening, artifacts[k].closing>> : k \in DOMAIN artifacts}

LongBlocks == {b \in CodeBlocks : ~ TooShort(b[1], b[2])}

(* "Files any code blocks the answer produced": the files of a plain reply *)
(* are the code blocks a Markdown reader would see, those below the        *)
(* minimum left out; skipped and unfinished blocks do not shift the rest.  *)
PlainRepliesAreFiled ==
    pc = "returned" /\ Plain => Filed = LongBlocks

-----------------------------------------------------------------------------
\* The inductive invariant of ArtifactsProofs: the walk never goes back
\* behind a block it has filed.
WalkInv == pc = "exec" => \A k \in DOMAIN artifacts : artifacts[k].closing <= lastIndex

\* In a plain reply it stops between blocks, with those before it filed.
PlainInv ==
    /\ pc = "exec" /\ Plain =>
          /\ OpenedAt(response)[lastIndex] = 0
          /\ Filed = {b \in LongBlocks : b[2] <= lastIndex}
    /\ PlainRepliesAreFiled

Apart == TypeOK /\ ArtifactsAreApart /\ WalkInv

IInv == Apart /\ PlainInv
=============================================================================
