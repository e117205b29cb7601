------------------------------ MODULE MCFiles ------------------------------
(* Images for Files.                                                        *)
EXTENDS Files

Dentry(n, t, i) == [name |-> n, filetype |-> t, inode_num |-> i]
Inode(l, b) == [length |-> l, blocks |-> b]

\* Letters stand for names; a name has two characters at most.
dot == <<46>>
rtc == <<114, 116>>
empty == <<101>>
odd == <<111, 100>>
even == <<118>>
broken == <<98>>
bad == <<98>>

\* The directory, the clock, an empty file, a file that ends inside a block, one
\* that ends with a block and one whose block number is bad; blocks are two bytes
\* and out of order.  The names of the clock and of a file fill their fields, and
\* programs also open a name that is longer by a character.
SmallDirectory == <<Dentry(dot, 1, 0), Dentry(rtc, 0, 1), Dentry(empty, 2, 1),
                    Dentry(odd, 2, 0), Dentry(even, 2, 2), Dentry(broken, 2, 3)>>
SmallInodes == [i \in 0 .. 3 |-> CASE i = 0 -> Inode(5, <<4, 0, 2>>)
                                   [] i = 1 -> Inode(0, <<>>)
                                   [] i = 2 -> Inode(4, <<3, 1>>)
                                   [] i = 3 -> Inode(1, <<9>>)]
SmallNames == {dot, rtc, empty, odd, Append(odd, 100), even, broken, <<109>>}
SmallCounts == {-1, 0, 1, 2, 3}

\* A file whose second block number lies outside the image.
BadDirectory == <<Dentry(bad, 2, 0)>>
BadNames == {bad}
BadInodes == [i \in {0} |-> Inode(4, <<1, 7>>)]

=============================================================================
