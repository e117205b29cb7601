-------------------------------- MODULE Blink --------------------------------
(***************************************************************************)
(* The blink list of the fish demo (blink.S and the allocator of fish.c):  *)
(* characters on the screen that alternate between two shapes.  The        *)
(* structures live in a fixed array, in which location 0 marks a free one, *)
(* and are linked from mp1_list_head, newest first.  Slots are numbered    *)
(* from 1 and NULL is 0.                                                   *)
(***************************************************************************)
EXTENDS Integers, Sequences, FiniteSetsExt

CONSTANTS
    SLOTS,    \* structures in the array (80*25)
    SCREEN,   \* cells of the screen (80*25)
    WORD      \* 2^16: lengths and countdowns are 16-bit words

ASSUME BlinkAssumption ==
    /\ SLOTS \in Nat \ {0}
    /\ SCREEN \in Nat \ {0}
    /\ WORD \in Nat \ {0} /\ WORD % 2 = 0

VARIABLES
    blink_array,    \* slot -> structure
    mp1_list_head,
    video,          \* the characters of the text page at vmem_base_addr
    result,         \* what the last call returned, and the structure it copied
    painter,        \* history: the slot whose character a cell shows, or NULL
    synced          \* history: the cells last drawn by a sync

blink == <<blink_array, mp1_list_head, video, result, painter, synced>>

NULL == 0
BLANK == 32
Slots == 1 .. SLOTS
Cells == 0 .. SCREEN - 1
Zero == [location |-> 0, on_char |-> 0, off_char |-> 0, on_length |-> 0,
         off_length |-> 0, countdown |-> 0, status |-> 0, next |-> NULL]

BlinkInit ==
    /\ blink_array = [s \in Slots |-> Zero]
    /\ mp1_list_head = NULL
    /\ video = [c \in Cells |-> BLANK]
    /\ result = [val |-> 0, data |-> Zero]
    /\ painter = [c \in Cells |-> NULL]
    /\ synced = {}

-----------------------------------------------------------------------------
(* The list.                                                                *)

\* The slot reached from the head in k steps along next; NULL from the end on.
NextOf(s) == IF s = NULL THEN NULL ELSE blink_array[s].next
Node == LET node[k \in 0 .. SLOTS] == IF k = 0 THEN mp1_list_head ELSE NextOf(node[k - 1])
        IN node
Ends == Node[SLOTS] = NULL
List == LET node == Node
            length == Cardinality({k \in 0 .. SLOTS - 1 : node[k] # NULL})
        IN [i \in 1 .. length |-> node[i - 1]]

\* The first structure of the list at a location.
mp1_find_helper(loc) ==
    LET list == List
        at == {i \in 1 .. Len(list) : blink_array[list[i]].location = loc}
    IN IF at = {} THEN NULL ELSE list[Min(at)]

\* The first free structure of the array.
FreeSlots == {s \in Slots : blink_array[s].location = 0}
mp1_malloc == IF FreeSlots = {} THEN NULL ELSE Min(FreeSlots)

-----------------------------------------------------------------------------
(* The calls of mp1_ioctl.  b is what the caller fills in of a structure.   *)

Returns(val) == result' = [val |-> val, data |-> Zero]
Fails == Returns(-1) /\ UNCHANGED <<blink_array, mp1_list_head, video, painter, synced>>

\* mp1_poke, by the structure s.
mp1_poke(s, cell, char) ==
    /\ video' = [video EXCEPT ![cell] = char]
    /\ painter' = [painter EXCEPT ![cell] = s]

AddFail(b) == (b.location >= SCREEN \/ mp1_malloc = NULL) /\ Fails

\* The character starts as on.
mp1_ioctl_add(b) ==
    LET s == mp1_malloc IN
    /\ b.location < SCREEN
    /\ s # NULL
    /\ blink_array' = [blink_array EXCEPT ![s] =
         [location |-> b.location, on_char |-> b.on_char, off_char |-> b.off_char,
          on_length |-> b.on_length, off_length |-> b.off_length,
          countdown |-> b.on_length, status |-> 1, next |-> mp1_list_head]]
    /\ mp1_list_head' = s
    /\ mp1_poke(s, b.location, b.on_char)
    /\ synced' = synced \ {b.location}
    /\ Returns(0)

RemoveFail(loc) == mp1_find_helper(loc) = NULL /\ Fails

\* Mutant: the structure is unlinked but not freed.
RemoveKeep(loc) ==
    LET s == mp1_find_helper(loc) IN
    /\ s # NULL
    /\ mp1_list_head' = IF mp1_list_head = s THEN blink_array[s].next ELSE mp1_list_head
    /\ blink_array' = [t \in Slots |->
         IF blink_array[t].next = s THEN [blink_array[t] EXCEPT !.next = blink_array[s].next]
         ELSE blink_array[t]]
    /\ painter' = [c \in Cells |-> IF painter[c] = s THEN NULL ELSE painter[c]]
    /\ Returns(0)
    /\ UNCHANGED <<video, synced>>

\* Whatever points to the structure is made to point past it,
\* and mp1_free clears it.  The screen keeps the character.
mp1_ioctl_remove(loc) ==
    LET s == mp1_find_helper(loc) IN
    /\ s # NULL
    /\ mp1_list_head' = IF mp1_list_head = s THEN blink_array[s].next ELSE mp1_list_head
    /\ blink_array' = [t \in Slots |->
         IF t = s THEN Zero
         ELSE IF blink_array[t].next = s
         THEN [blink_array[t] EXCEPT !.next = blink_array[s].next]
         ELSE blink_array[t]]
    /\ painter' = [c \in Cells |-> IF painter[c] = s THEN NULL ELSE painter[c]]
    /\ Returns(0)
    /\ UNCHANGED <<video, synced>>

FindFail(loc) == mp1_find_helper(loc) = NULL /\ Fails

\* Copies the structure to the caller.
mp1_ioctl_find(loc) ==
    /\ mp1_find_helper(loc) # NULL
    /\ result' = [val |-> 0, data |-> blink_array[mp1_find_helper(loc)]]
    /\ UNCHANGED <<blink_array, mp1_list_head, video, painter, synced>>

SyncFail(src, dst) ==
    (mp1_find_helper(src) = NULL \/ mp1_find_helper(dst) = NULL) /\ Fails

\* Copies the lengths and the phase.  The conditional move tests
\* for "less", which testb never sets, so the off character is shown.
mp1_ioctl_sync(src, dst) ==
    LET from == mp1_find_helper(src)
        to == mp1_find_helper(dst) IN
    /\ from # NULL
    /\ to # NULL
    /\ blink_array' = [blink_array EXCEPT ![to] =
         [@ EXCEPT !.on_length = blink_array[from].on_length,
                   !.off_length = blink_array[from].off_length,
                   !.countdown = blink_array[from].countdown,
                   !.status = blink_array[from].status]]
    /\ mp1_poke(to, dst, blink_array[to].off_char)
    /\ synced' = synced \cup {dst}
    /\ Returns(0)
    /\ UNCHANGED mp1_list_head

-----------------------------------------------------------------------------
(* The tasklet, once per tick of the clock.                             *)

Lit(b) == b.status % 2 = 1

\* Mutant: the countdown is compared unsigned.
ExpiredUnsigned(b) == (b.countdown - 1) % WORD = 0

\* The countdown, lowered by one, is not positive as a signed word.
Expired(b) == (b.countdown - 1) % WORD \notin 1 .. WORD \div 2 - 1

Ticked(b) ==
    IF Expired(b)
    THEN [b EXCEPT !.countdown = IF Lit(b) THEN b.off_length ELSE b.on_length,
                   !.status = IF Lit(b) THEN @ - 1 ELSE @ + 1]
    ELSE [b EXCEPT !.countdown = (@ - 1) % WORD]

Drawn(b) == IF Lit(b) THEN b.off_char ELSE b.on_char

\* The places in the list that write to a cell in this tick; the last one wins.
Writers(list, cell) ==
    {i \in 1 .. Len(list) : /\ blink_array[list[i]].location = cell
                            /\ Expired(blink_array[list[i]])}

mp1_rtc_tasklet ==
    \E list \in {List} :
      LET written == {c \in Cells : Writers(list, c) # {}}
          last(c) == list[Max(Writers(list, c))]
      IN
      /\ Ends
      /\ blink_array' = [s \in Slots |-> IF \E i \in 1 .. Len(list) : list[i] = s
                                         THEN Ticked(blink_array[s]) ELSE blink_array[s]]
      /\ video' = [c \in Cells |-> IF c \in written THEN Drawn(blink_array[last(c)])
                                   ELSE video[c]]
      /\ painter' = [c \in Cells |-> IF c \in written THEN last(c) ELSE painter[c]]
      /\ synced' = synced \ written
      /\ Returns(0)
      /\ UNCHANGED mp1_list_head

-----------------------------------------------------------------------------
(* Properties.                                                              *)

Structures == [location : 0 .. SCREEN - 1, on_char : Nat, off_char : Nat,
               on_length : 0 .. WORD - 1, off_length : 0 .. WORD - 1,
               countdown : 0 .. WORD - 1, status : {0, 1}, next : 0 .. SLOTS]

\* The structures and the links between them are well formed.
BlinkTypeOK ==
    /\ \A s \in Slots : blink_array[s] \in Structures
    /\ mp1_list_head \in 0 .. SLOTS
    /\ DOMAIN video = Cells
    /\ result.val \in {0, -1}
    /\ painter \in [Cells -> 0 .. SLOTS]
    /\ synced \subseteq Cells

\* The list ends, visits no structure twice, and holds exactly the structures
\* that mp1_malloc regards as taken: none is lost by a removal, none is handed
\* out while it is linked, and the tasklet always comes to an end.
ListIsPool ==
    /\ BlinkTypeOK
    /\ Ends
    /\ \A j, k \in 1 .. Len(List) : List[j] = List[k] => j = k
    /\ {List[k] : k \in 1 .. Len(List)} = Slots \ FreeSlots

\* A cell last drawn by a structure that is still listed shows the shape of its
\* current phase, whichever structures shared the cell before; after a sync it
\* shows the off shape until the next change.
CellShowsPhase ==
    \A cell \in Cells :
      LET b == blink_array[painter[cell]] IN
      painter[cell] # NULL =>
        /\ b.location = cell
        /\ video[cell] = IF Lit(b) /\ cell \notin synced THEN b.on_char ELSE b.off_char

\* A length of 0 or with a sign bit and more ends after one tick.
Period(length) == IF length \in 1 .. WORD \div 2 THEN length ELSE 1
EntryOf(b) ==
    [location |-> b.location, shape |-> <<b.on_char, b.off_char>>,
     on |-> Period(b.on_length), off |-> Period(b.off_length),
     lit |-> Lit(b), left |-> Period(b.countdown)]

Abstract == INSTANCE BlinkList WITH
    Locations <- Cells, Shapes <- Nat \X Nat, Times <- 1 .. WORD \div 2,
    Capacity <- SLOTS,
    entries <- LET list == List IN [k \in 1 .. Len(list) |-> EntryOf(blink_array[list[k]])],
    answer <- [val |-> result.val,
               data |-> IF result.data = Zero THEN <<>> ELSE <<EntryOf(result.data)>>]

\* The array, the links and the 16-bit countdowns implement a list of blinking
\* characters with the times they were given.
ImplementsBlinkList == Abstract!ListSpec

=============================================================================
