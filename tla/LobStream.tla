----------------------------- MODULE LobStream -----------------------------
(***************************************************************************)
(* The stream buffers over a large object and a client that reads one.     *)
(* SQLite and SDI have the object in memory (SqliteBlob_libsqlite,         *)
(* SDIBlob_libsdi).  The ODBC and the Firebird buffer (OdbcBlob_libodbc,   *)
(* OdbcMemo_libodbc, FirebirdBlob_libfbclient) are filled with one chunk   *)
(* after the other; the last bytes of a chunk are moved in front of the    *)
(* next one, so the client can go back.                                    *)
(*                                                                         *)
(* Byte i of an object is the number i.  Garbage is what was not read from *)
(* the object.                                                             *)
(***************************************************************************)
EXTENDS Integers

CONSTANTS
  Sizes,     \* how many bytes an object may have
  Bufsize,   \* DAL_STREAMBUF_BUFSIZE
  Putback,   \* DAL_STREAMBUF_PUTBACK
  EndOfFile, \* the answer at the end
  Garbage

ASSUME StreambufAssumption ==
  /\ Sizes \subseteq Nat
  /\ Putback \in Nat \ {0} /\ Bufsize \in Nat \ {1} /\ Bufsize >= Putback

VARIABLES
  engine,  \* whose stream it is
  size,    \* the bytes of the object
  m_buf,   \* what the buffer holds, by offset
  eback, gptr, egptr, \* its beginning, position and end
  delivered, \* the bytes the driver has given
  got,     \* the answer to the last call
  back     \* did the client go back since it read?

streamVars == <<engine, size, m_buf, eback, gptr, egptr, delivered, got, back>>

BufferSize == Bufsize + Putback

\* A memo of a driver with 16 bit characters is taken over one by one.
Engines == {"memory", "odbc", "odbc_memo", "firebird"}

\* The bytes of a character that OdbcMemo_libodbc stores.
CharSize == 4

\* m_buf + sizeof(m_buf): the end, where a character is a byte.
EndOfBuffer == IF engine = "odbc_memo" THEN CharSize * BufferSize ELSE BufferSize

\* The object itself is the buffer.  The others begin at their end, so that the first
\* call fills them.
StreamInit ==
  /\ engine \in Engines
  /\ size \in Sizes
  /\ delivered = 0 /\ got = EndOfFile /\ back = FALSE
  /\ IF engine = "memory"
       THEN /\ m_buf = [i \in 0 .. size - 1 |-> i + 1]
            /\ eback = 0 /\ gptr = 0 /\ egptr = size
       ELSE /\ m_buf = [i \in 0 .. BufferSize - 1 |-> Garbage]
            /\ eback = EndOfBuffer /\ gptr = EndOfBuffer /\ egptr = EndOfBuffer

\* A memo that the buffer, which ends it with a NUL, does not take at once.
Overlong == engine = "odbc_memo" /\ size >= BufferSize

\* Memory around the buffer has no bytes of the object.
At(buf, i) == IF i \in DOMAIN buf THEN buf[i] ELSE Garbage

-----------------------------------------------------------------------------
(* underflow() of the buffers that are filled                              *)

Refilled == eback = 0

\* A bug: the bytes behind the last ones are moved.
Kept_Behind ==
  [i \in DOMAIN m_buf |-> IF Refilled /\ i < Putback THEN At(m_buf, egptr - Putback + i + 1) ELSE m_buf[i]]

\* The last bytes of the chunk are moved to the front, and the next one is put
\* behind them.
Kept  == [i \in DOMAIN m_buf |->
            IF Refilled /\ i < Putback THEN At(m_buf, egptr - Putback + i) ELSE m_buf[i]]
Start == IF Refilled THEN Putback ELSE 0

\* How many bytes a call of the driver gives: SQLGetData fills the space there
\* is, for a memo without the NUL, isc_get_segment gives what is left of a segment.
Chunks ==
  LET space == IF engine = "odbc_memo" THEN BufferSize - Start - 1 ELSE BufferSize - Start
      left  == size - delivered
      most  == IF left < space THEN left ELSE space
  IN  IF engine = "firebird" /\ left > 0 THEN 1 .. most ELSE {most}

\* Where setg() is told that a chunk of n bytes ends.
ChunkEnd(n) == IF engine # "firebird" /\ n < size - delivered THEN EndOfBuffer ELSE Start + n

\* The buffer gets a chunk of n bytes; at the end its pointers stay.
Filled(n) ==
  /\ m_buf' = [i \in DOMAIN m_buf |->
                 IF i \in Start .. Start + n - 1 THEN delivered + i - Start + 1 ELSE Kept[i]]
  /\ delivered' = delivered + n
  /\ IF n = 0 THEN UNCHANGED <<eback, egptr>> ELSE eback' = 0 /\ egptr' = ChunkEnd(n)

\* The call answers with the byte at the position and leaves it, or moves on.
Answer(buf, from, end, move) ==
  /\ got' = IF from < end THEN At(buf, from) ELSE EndOfFile
  /\ gptr' = IF from < end /\ move THEN from + 1 ELSE from

\* sgetc() and sbumpc(): underflow(), and uflow(), which moves on.
Character(move) ==
  /\ back' = (back /\ ~move)
  /\ IF gptr < egptr \/ engine = "memory"
       THEN /\ Answer(m_buf, gptr, egptr, move)
            /\ UNCHANGED <<m_buf, eback, egptr, delivered>>
       ELSE \E n \in Chunks :
              /\ Filled(n)
              /\ Answer(m_buf', IF n = 0 THEN gptr ELSE Start, IF n = 0 THEN gptr ELSE ChunkEnd(n), move)

underflow == Character(FALSE) /\ UNCHANGED <<engine, size>>
uflow     == Character(TRUE) /\ UNCHANGED <<engine, size>>

-----------------------------------------------------------------------------
(* Back, and the calls of the streams in memory                            *)

\* sungetc(), and pbackfail() of the streams in memory, without a character.
pbackfail ==
  /\ back' = TRUE
  /\ IF gptr > eback THEN gptr' = gptr - 1 /\ got' = At(m_buf, gptr - 1)
     ELSE gptr' = gptr /\ got' = EndOfFile
  /\ UNCHANGED <<engine, size, m_buf, eback, egptr, delivered>>

\* A position that is too large is the end; there is no bound below.
Seeked(p) == IF p > egptr THEN egptr ELSE p

Moved(p, answer) ==
  /\ engine = "memory"
  /\ gptr' = p /\ got' = answer /\ back' = FALSE
  /\ UNCHANGED <<engine, size, m_buf, eback, egptr, delivered>>

seekpos(p) == Moved(Seeked(p), Seeked(p))

From(way) == CASE way = "beg" -> 0 [] way = "cur" -> gptr [] way = "end" -> egptr

seekoff(off, way) == Moved(Seeked(From(way) + off), Seeked(From(way) + off))

xsgetn(n) ==
  LET cp == IF n > egptr - gptr THEN egptr - gptr ELSE n
  IN  Moved(gptr + cp, cp)

-----------------------------------------------------------------------------
\* The client does not go back when it was told of the end: a call at the end
\* has moved bytes over the ones in front.  Of a Firebird stream it goes back
\* one byte at a time, as far as a stream must be able to: the segment before
\* may have had no more.  It does not seek ahead of the beginning.
MayGoBack ==
  \/ engine = "memory"
  \/ got # EndOfFile /\ (engine = "firebird" => ~back)

StreamNext ==
  \/ underflow \/ uflow
  \/ MayGoBack /\ pbackfail
  \/ \E p \in 0 .. size + 1 : seekpos(p)
  \/ \E way \in {"beg", "cur", "end"}, off \in -size .. size + 1 :
       /\ From(way) + off >= 0
       /\ seekoff(off, way)
  \/ \E n \in 0 .. size : xsgetn(n)

StreamSpec == StreamInit /\ [][StreamNext]_streamVars

\* The reader's position: what was delivered and not read yet is ahead of it.  The end
\* of a chunk that was cut off is not known.
Position ==
  IF engine = "memory" \/ (Overlong /\ delivered # 0) THEN gptr ELSE delivered - (egptr - gptr)

\* The position in an Overlong memo is behind its first chunk, where the NUL is and then
\* what is not of the memo, or another chunk has been put elsewhere.
BehindChunk == Overlong /\ delivered # 0 /\ (gptr >= BufferSize - 1 \/ delivered >= BufferSize)

\* Every stream gives its reader the bytes of the object, across chunks of any
\* length, at the boundaries of the buffer and after going back; an Overlong memo
\* as far as its first chunk goes.
Reader == INSTANCE InputStream WITH pos <- Position

ImplementsInputStream ==
  Reader!Init /\ [][Reader!Next \/ BehindChunk]_<<size, Position, got>>
=============================================================================
