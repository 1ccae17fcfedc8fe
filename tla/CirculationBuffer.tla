-------------------------- MODULE CirculationBuffer --------------------------
(***************************************************************************)
(* set/buffer/buffer.h: a byte queue in a ring of length_ bytes, of which  *)
(* `padding` stay free, that is enlarged when an append does not fit.      *)
(*                                                                         *)
(* A buffer is a record; the member functions are operators on it.  size_t *)
(* arithmetic is modulo SizeMod.  A copy outside an array is undefined     *)
(* behaviour: it clears the field ok, and nothing follows.                 *)
(* A byte is named by its place among the bytes that were appended and not *)
(* yet skipped: 1 is the oldest.  Any other byte, skipped or never written *)
(* (new uint8_t[n] is not cleared), is Other; so a skip renames the bytes  *)
(* that stay.                                                              *)
(***************************************************************************)
EXTENDS Integers, Sequences

CONSTANTS Lengths,    \* the lengths the constructor may be given
          MaxAppend,  \* bound: bytes per append
          MaxLength,  \* bound: how far the buffer may be enlarged
          SizeMod,    \* 2^64; in a run a smaller one, far above every length
          Caller      \* which appends the caller makes (see Allowed)

padding == 4
Other == 0

ASSUME BufferAssumption ==
  /\ Lengths \subseteq padding + 1 .. MaxLength
  /\ MaxLength \in Nat /\ SizeMod \in Nat /\ 4 * MaxLength < SizeMod
  /\ MaxAppend \in 1 .. MaxLength

VARIABLES b,       \* the buffer: buf (buf_), length, r (readindex_), w (writeindex_), ok
          stream   \* history: how many bytes were appended and not yet skipped

bufVars == <<b, stream>>

Size(n) == n % SizeMod

readed_size(x) == IF x.w < x.r THEN Size(x.length - x.r + x.w) ELSE x.w - x.r

writed_size(x) == IF x.w <= Size(x.r - padding)
                    THEN Size(x.r - padding - x.w)
                    ELSE Size(x.length - x.w + x.r - padding)

\* std::copy_n(src + from, n, dst + at), memmove for overlapping arrays.
copy_n(src, from, n, dst, at) ==
  [i \in DOMAIN dst |-> IF at <= i /\ i < at + n THEN src[from + i - at] ELSE dst[i]]

\* from .. from + n - 1 lies in an array of `size` bytes.
Inside(from, n, size) == from >= 0 /\ from + n <= size

\* relocation_location: the two pieces of wrapped content are put in order
\* from `padding` on.  The two branches differ in which piece is saved first;
\* the first one overwrites readindex_ before it uses it.
relocation_location(x) ==
  LET tail == x.length - x.r + padding
      joined == copy_n(x.buf, 0, x.w, copy_n(x.buf, x.r - padding, tail, x.buf, 0), tail)
  IN  IF x.w >= x.r THEN x
      ELSE IF ~(Inside(x.r - padding, tail, x.length) /\ Inside(tail, x.w, x.length))
             THEN [x EXCEPT !.ok = FALSE]
      ELSE [x EXCEPT !.buf = joined, !.r = padding,
                     !.w = IF x.length - x.r > x.w
                             THEN x.length - padding + x.w
                             ELSE x.length - x.r + x.w + padding]

\* Seeded fault: the unread bytes are copied without the padding before them.
make_memory_NoPadding(x, n) ==
  LET y == relocation_location(x)
      newLength == Size(y.length + 2 * Size(n - writed_size(y)))
      fresh == [i \in 0 .. newLength - 1 |-> Other]
  IN  [y EXCEPT !.length = newLength,
                !.buf = copy_n(y.buf, y.r, readed_size(y), fresh, 0)]

\* make_memory: a larger array, filled from `padding` bytes before the unread
\* content on.  The indices are not changed.
make_memory(x, n) ==
  LET y == relocation_location(x)
      newLength == Size(y.length + 2 * Size(n - writed_size(y)))
      fresh == [i \in 0 .. newLength - 1 |-> Other]
  IN  IF n < writed_size(x) THEN x
      ELSE IF \/ ~y.ok \/ newLength > MaxLength
              \/ ~Inside(y.r - padding, y.w, y.length) \/ y.w > newLength
             THEN [y EXCEPT !.ok = FALSE]
      ELSE [y EXCEPT !.length = newLength,
                     !.buf = copy_n(y.buf, y.r - padding, y.w, fresh, 0)]

\* Seeded fault: append never enlarges the buffer.
append_to_NoGrow(x, data) ==
  LET n == Len(data)
      src == [i \in 0 .. n - 1 |-> data[i + 1]]
      room == Size(x.length - x.w)
  IN  IF ~Inside(x.w, IF x.w < x.r THEN n ELSE 0, x.length) \/ n - room > x.length
        THEN [x EXCEPT !.ok = FALSE]
      ELSE IF x.w < x.r \/ room >= n
        THEN [x EXCEPT !.buf = copy_n(src, 0, n, @, x.w), !.w = Size(@ + n)]
        ELSE [x EXCEPT !.buf = copy_n(src, 0, room, copy_n(src, room, n - room, @, 0), x.w),
                       !.w = n - room]

\* append: in one piece behind writeindex_, or in two around the end.
append_to(x, data) ==
  LET n == Len(data)
      src == [i \in 0 .. n - 1 |-> data[i + 1]]
      y == IF writed_size(x) < n THEN make_memory(x, n) ELSE x
      room == Size(y.length - y.w)
      onePiece == y.w < y.r \/ room >= n
  IN  IF ~y.ok THEN y
      ELSE IF ~Inside(y.w, IF onePiece THEN n ELSE room, y.length)
              \/ (~onePiece /\ n - room > y.length)
        THEN [y EXCEPT !.ok = FALSE]
      ELSE IF onePiece
        THEN [y EXCEPT !.buf = copy_n(src, 0, n, @, y.w), !.w = Size(@ + n)]
        ELSE [y EXCEPT !.buf = copy_n(src, 0, room, copy_n(src, room, n - room, @, 0), y.w),
                       !.w = n - room]

\* peek<T>() for sizeof(T) = n.  Two pieces are combined with a shift, which
\* puts the bytes of the second behind those of the first; network2host reads
\* them most significant byte first.  So the value is the bytes in this order.
peek(x, n) ==
  LET at(i) == IF i < x.length THEN x.buf[i] ELSE Other
      re_size == x.length - x.r
  IN  [k \in 1 .. n |-> IF x.w < x.r /\ re_size <= n /\ k > re_size
                          THEN at(k - 1 - re_size) ELSE at(x.r + k - 1)]

\* skip: everything, or over the end of the array, or within it.
skip_in(x, n) ==
  IF n = readed_size(x) THEN [x EXCEPT !.r = padding, !.w = padding]
  ELSE [x EXCEPT !.r = IF x.w < x.r /\ x.length - x.r <= n
                         THEN n - x.length + x.r ELSE @ + n]

-----------------------------------------------------------------------------
BufInit ==
  /\ \E n \in Lengths :
       b = [buf |-> [i \in 0 .. n - 1 |-> Other], length |-> n, r |-> padding,
            w |-> padding, ok |-> TRUE]
  /\ stream = 0

\* Enlarging is sound when the content starts at padding, or is wrapped and
\* the piece at the end is not the longer one.
GrowsSoundly == IF b.w < b.r THEN b.length - b.r <= b.w ELSE b.r = padding

\* The caller "bounded" keeps count of its bytes and stays within the free
\* space, or enlarges where that is sound; the caller "any" leaves that to the
\* buffer: it appends what writed_size() says there is room for, or more.
Allowed(n) ==
  \/ stream + n <= b.length - padding
  \/ Caller = "bounded" /\ GrowsSoundly
  \/ Caller = "any"

append ==
  \E n \in 1 .. MaxAppend :
    /\ b.ok /\ Allowed(n)
    /\ writed_size(b) < n => b.length + 2 * (n - writed_size(b)) <= MaxLength
    /\ b' = append_to(b, [k \in 1 .. n |-> stream + k])
    /\ stream' = stream + n

\* The oldest n bytes are no longer of interest.
Forget(x, n) == [x EXCEPT !.buf = [i \in DOMAIN @ |-> IF @[i] > n THEN @[i] - n
                                                                ELSE Other]]

\* skip() asserts len <= readed_size().
skip ==
  \E n \in 1 .. MaxLength :
    /\ b.ok /\ n <= stream /\ n <= readed_size(b)
    /\ b' = Forget(skip_in(b, n), n)
    /\ stream' = stream - n

retrieve_all == /\ b.ok
                /\ b' = Forget([b EXCEPT !.r = padding, !.w = padding], stream)
                /\ stream' = 0

BufNext == append \/ skip \/ retrieve_all
BufSpec == BufInit /\ [][BufNext]_bufVars

-----------------------------------------------------------------------------
\* No append, enlargement or relocation copies outside an array.
NoOverrun == b.ok

\* peek() returns the oldest bytes not yet skipped, in the order they were
\* appended, wherever the ring wraps and whenever it was enlarged.
PeekReturnsStream ==
  \A n \in {1, 2, 4, 8} :
    n <= readed_size(b) /\ n <= stream => peek(b, n) = [k \in 1 .. n |-> k]
=============================================================================
