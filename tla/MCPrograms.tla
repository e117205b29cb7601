----------------------------- MODULE MCPrograms -----------------------------
(* An image, typed lines and messages for Programs.                         *)
EXTENDS Programs

\* Letters stand for the names of programs and files.
cat == <<99>>
ls == <<108>>
grep == <<103>>
counter == <<110>>
syserr == <<115, 101>>
LongerName == <<115, 101, 101>>
ShorterName == <<115>>
Clear2 == <<107, 107>>
X == 120
Y == 121
F == 127

Dentry(n, t, i) == [name |-> n, filetype |-> t, inode_num |-> i]
Inode(l, b) == [length |-> l, blocks |-> b]

\* The directory and the five programs, a text of five bytes in blocks that are out
\* of order, a short one whose name fills its field, an empty one, the clock (whose
\* name fills the field too), and a file with a bad block.
Directory == <<Dentry(<<46>>, 1, 0), Dentry(cat, 2, 0), Dentry(ls, 2, 1),
               Dentry(<<X>>, 2, 4), Dentry(grep, 2, 2), Dentry(counter, 2, 3),
               Dentry(<<X, Y, Y>>, 2, 5), Dentry(<<Y>>, 2, 6), Dentry(<<114, 116, 99>>, 0, 0),
               Dentry(<<46, X>>, 2, 7), Dentry(syserr, 2, 8)>>
DiskInodes == [i \in 0 .. 8 |-> CASE i < 4 -> Inode(1, <<i>>)
                                  [] i = 4 -> Inode(5, <<6, 4, 5>>)
                                  [] i = 5 -> Inode(1, <<7>>)
                                  [] i = 6 -> Inode(0, <<>>)
                                  [] i = 7 -> Inode(2, <<99>>)
                                  [] i = 8 -> Inode(1, <<8>>)]
Kinds == [i \in {0, 1, 2, 3, 8} |->
            IF i = 8 THEN "syserr" ELSE <<"cat", "ls", "grep", "counter">>[i + 1]]

\* The image with a text t of five bytes.
Disk(t) ==
    [b \in 0 .. 8 |-> [k \in 0 .. 1 |->
       CASE b \in {0, 1, 2, 3, 8} -> F
         [] b = 6 -> t[k + 1] [] b = 4 -> t[k + 3] [] b = 5 /\ k = 0 -> t[5]
         [] OTHER -> Y]]

\* Texts with every arrangement of line ends, and with one NUL.
Texts == [1 .. 5 -> {X, Y, NL}]
NulTexts == {t \in [1 .. 5 -> {X, NL, NUL}] : Cardinality({k \in 1 .. 5 : t[k] = NUL}) = 1}
Spaced(a, b) == a \o <<SP>> \o b

\* grep on every text; the other commands on one text, with a few characters in the
\* shell's buffer before; and the tests of system calls between ls, grep and cat of
\* a name that is longer than an entry's.
SearchX == {Spaced(grep, <<X>>)}
SearchXY == {Spaced(grep, <<X, Y>>)}
Commands ==
    {<<>>, <<101>>, cat, ls, counter, Spaced(cat, <<X>>), Spaced(cat, <<46>>),
     Spaced(cat, <<46, X>>), Spaced(<<>>, <<X>>), <<X>>,
     Append(Clear2, X), <<X, Y, X, Y>>, <<X, Y, X, Y, X, Y>>}
Session(t, lines, leftover) == [disk |-> Disk(t), lines |-> lines, leftover |-> leftover]
OneText == <<X, NL, Y, X, NL>>
AllSessions ==
    {Session(t, SearchXY, <<>>) : t \in Texts}
      \cup {Session(t, SearchX, <<>>) : t \in NulTexts}
      \cup {Session(OneText, Commands, <<X, X, Y, X>>), 
              Session(OneText, {syserr, ls, Spaced(cat, <<X, Y, Y, X>>), Spaced(grep, <<Y>>)},
                      <<>>)}

SomeAnswers == {<<>>, <<48>>, <<49>>, <<50>>, <<51>>, <<57>>, <<Y>>, <<46>>,
                <<48, 48, 48, 48>>, <<X, Y, Y, Y, Y, Y, Y>>}
SomeLimits == <<1, 2, 11>>
Edges == {0, 1, 9, 10, 15, 16, 99, 100, 127, 128, 255}
SomeMessages ==
    {[format |-> f, args |-> <<n>>] :
       f \in {HexFormat, UnsignedFormat, SignedFormat, PaddedFormat}, n \in Edges}
      \cup {[format |-> AddressFormat, args |-> <<n, m>>] : n, m \in Edges}

DotName == <<46>>
ExitName == <<101>>

=============================================================================
