----------------------------- MODULE PlistLite -----------------------------
(***************************************************************************)
(* The property-list reader of launchd/plist_lite.c: plist_parse_file and  *)
(* the recursive descent below it, with every allocation and every path    *)
(* on which something is freed again.                                      *)
(*                                                                         *)
(* A document is a sequence of items: a whole tag, a run of ordinary       *)
(* characters, an entity reference, or the mark that begins a declaration  *)
(* or a comment.  Spelling is left out (attributes, upper case, the        *)
(* digits of numeric entities), error texts too.  A value is the record    *)
(* that struct plist_value is; Null stands for a NULL pointer.             *)
(*                                                                         *)
(* The recursion of parse_value and parse_after_tag is kept on `stack`:    *)
(* one frame for every dict or array that is being read.                   *)
(***************************************************************************)
EXTENDS Integers, SequencesExt

CONSTANTS
  Inputs,     \* files and what goes wrong while each is read
  NodeCap,    \* first capacity of a dict or array (8)
  TextCap,    \* first capacity of a text buffer (64)
  IntMax,     \* INT64_MAX
  AccBits     \* width of base64_decode's accumulator (32)

(* Items.                                                                   *)
Open(n)  == [k |-> "open",  n |-> n]      \* <n ...>
Self(n)  == [k |-> "self",  n |-> n]      \* <n/>
Close(n) == [k |-> "close", n |-> n]      \* </n>
Char(c)  == [k |-> "char",  n |-> c]
Ent(c)   == [k |-> "ent",   n |-> c]      \* a reference to character c
Mark(m)  == [k |-> "mark",  n |-> m]      \* <?  <!--  <!
Part(c)  == [k |-> "part",  n |-> c]      \* the document ends inside an item
Space    == " "                           \* white space
Blank    == Char(Space)

Items == [k : {"open", "self", "close", "char", "ent"}, n : STRING]
           \cup {Mark("<?"), Mark("<!--"), Mark("<!")}
IsTag(x) == x.k \in {"open", "self", "close"}
IsLess(x) == IsTag(x) \/ x.k = "mark" \/ x = Part("<")

(* doc: the file; got: how much of it fread() may return, in items and      *)
(* with or without a part of the next one; oom: which of the calls of       *)
(* malloc, calloc, realloc and strdup fail, counted from 1.                 *)
ASSUME PlistAssumption ==
  /\ \A f \in Inputs :
       /\ f.doc \in Seq(Items)
       /\ f.got \subseteq 0..Len(f.doc)
       /\ f.oom \subseteq Nat \ {0}
  /\ {NodeCap, TextCap, IntMax, AccBits} \subseteq Nat \ {0}
  /\ TextCap > 1

Null == [type |-> "invalid"]

VARIABLES
  input,    \* the file that is read
  buf,      \* what was read of it, ps->start .. ps->end
  pc,       \* where the parser is
  p,        \* ps->p, an index of buf
  tag,      \* the tag parse_after_tag was given
  stack,    \* the dicts and arrays being read, the outermost first
  ret,      \* what the last call returned, and the blocks it owns
  wrapped,  \* the document began with <plist>
  heap,     \* allocations asked for, and blocks in use
  lost      \* history: a character of an entity found no memory

vars == <<input, buf, pc, p, tag, stack, ret, wrapped, heap, lost>>

NoTag == [k |-> "none", n |-> "none"]
Nothing == [v |-> Null, own |-> 0]

Init ==
  /\ input \in Inputs
  /\ buf = <<>> /\ pc = "open" /\ p = 1 /\ tag = NoTag
  /\ stack = <<>> /\ ret = Nothing /\ wrapped = FALSE
  /\ heap = [calls |-> 0, live |-> 0] /\ lost = FALSE

End == Len(buf) + 1

(* The k-th allocation from now on succeeds.                                *)
Granted(k) == heap.calls + k \notin input.oom

(* calls allocations were made; the number of live blocks grew by blocks.   *)
Heap(calls, blocks) ==
  heap' = [calls |-> heap.calls + calls, live |-> heap.live + blocks]

-----------------------------------------------------------------------------
(* Reading the text: cursors in, cursors out; 0 for failure.                *)

(* Step(s, x); the state s is computed once, however often Step uses it.    *)
Once(Step(_, _), s, x) == CHOOSE t \in {Step(r, x) : r \in {s}} : TRUE

(* A loop over text: its state goes from start through one Step for each    *)
(* item.                                                                    *)
Loop(Step(_, _), start, text) ==
  LET run[i \in 0..Len(text)] ==
        IF i = 0 THEN start ELSE Once(Step, run[i - 1], text[i])
  IN run[Len(text)]

(* The first position from c on that meets Test, or End.                    *)
FirstFrom(c, Test(_)) ==
  CHOOSE i \in c..End : (i = End \/ Test(i)) /\ \A j \in c..i - 1 : ~Test(j)

(* The position after that, or 0.                                           *)
AfterFirst(c, Test(_)) ==
  LET i == FirstFrom(c, Test) IN IF i = End THEN 0 ELSE i + 1

(* memmem_compat: the end of the first m from c on, or 0.                   *)
After(c, m) == AfterFirst(c, LAMBDA i : buf[i] = Char(m))

(* A tag, and the ends of declarations and comments, hold a '>'.            *)
HasGreater(x) == IsTag(x) \/ x \in {Char(">"), Char("?>"), Char("-->")}

(* How often m occurs in the places c .. i - 1.                             *)
Count(c, i, m) == Cardinality({j \in c..i - 1 : buf[j] = Char(m)})

(* <!DOCTYPE ...>, possibly with an internal subset in [ ]: it ends at the  *)
(* first '>' before which no more brackets were opened than closed.         *)
AfterDoctype(c) ==
  AfterFirst(c, LAMBDA i : HasGreater(buf[i]) /\ Count(c, i, "[") <= Count(c, i, "]"))

skip_prologue_at(c) ==
  CASE buf[c] = Mark("<?")   -> After(c + 1, "?>")
    [] buf[c] = Mark("<!--") -> After(c + 1, "-->")
    [] buf[c] = Mark("<!")   -> AfterDoctype(c + 1)

(* White space and prologue noise from c on; 0 if it does not end.          *)
skip_noise(c) ==
  LET skip[d \in 0..End] ==
        IF d = 0 \/ d = End THEN d
        ELSE IF buf[d] = Blank THEN skip[d + 1]
        ELSE IF buf[d].k = "mark" THEN skip[skip_prologue_at(d)]
        ELSE d
  IN skip[c]

(* The position of the next tag, or 0 if something else or nothing follows. *)
read_tag(c) ==
  LET d == skip_noise(c)
  IN IF d \in 1..Len(buf) /\ IsTag(buf[d]) THEN d ELSE 0

TagAt(d) == IF d = 0 THEN NoTag ELSE buf[d]

(* Mutant: any closing tag will do.                                         *)
MutantClose(c, name) ==
  LET d == read_tag(c) IN IF TagAt(d).k = "close" THEN d + 1 ELSE 0

(* The position after </name>, if that comes next, or 0.                    *)
expect_close(c, name) ==
  LET d == read_tag(c) IN IF TagAt(d) = Close(name) THEN d + 1 ELSE 0

-----------------------------------------------------------------------------
(* Character data.                                                          *)

(* Where the text that begins at c ends.                                    *)
TextEnd(c) == FirstFrom(c, LAMBDA i : IsLess(buf[i]))

(* The character c is appended, unless the full buffer cannot be doubled.   *)
sb_putc(s, c) ==
  LET full == Len(s.text) + 2 > s.cap
      put == full => Granted(s.calls + 1)
  IN [s EXCEPT !.text = IF put THEN Append(@, c) ELSE @,
               !.cap = IF full /\ put THEN 2 * @ ELSE @,
               !.calls = IF full THEN @ + 1 ELSE @,
               !.put = put]

(* read_text's loop: nobody looks at sb_putc's result for an entity.        *)
ReadItem(s, x) ==
  IF ~s.ok \/ x.k = "part" \/ x = Ent("unknown") THEN [s EXCEPT !.ok = FALSE]
  ELSE LET t == sb_putc(s, x.n)
       IN [t EXCEPT !.ok = t.put \/ x.k = "ent", !.lost = @ \/ ~t.put]

(* The text from c on, in a block of its own if ok.  The caller made k      *)
(* allocations before.                                                      *)
read_text(c, k) ==
  Loop(ReadItem,
       [text |-> <<>>, cap |-> TextCap, calls |-> k + 1, put |-> TRUE,
        lost |-> FALSE, ok |-> Granted(k + 1)],
       SubSeq(buf, c, TextEnd(c) - 1))

(* strtoll: white space, a sign, digits; the rest is ignored.               *)
DigitOf == [c \in {"0", "1", "2", "3", "4", "5", "6", "7", "8", "9"} |->
              CHOOSE n \in 0..9 : ToString(n) = c]

StrtollStep(s, c) ==
  CASE s.at = "space" /\ c = Space -> s
    [] s.at = "space" /\ c \in {"-", "+"} ->
         [s EXCEPT !.at = "digits", !.sign = IF c = "-" THEN -1 ELSE 1]
    [] s.at # "end" /\ c \in DOMAIN DigitOf ->
         [s EXCEPT !.at = "digits", !.n = 10 * @ + DigitOf[c]]
    [] OTHER -> [s EXCEPT !.at = "end"]

strtod(text) ==
  LET s == Loop(StrtollStep, [at |-> "space", sign |-> 1, n |-> 0], text)
  IN s.sign * s.n

strtoll(text) ==
  LET n == strtod(text)
  IN IF n > IntMax THEN IntMax ELSE IF n < -IntMax THEN -IntMax - 1 ELSE n

(* The characters of the base64 alphabet that occur, with their values.     *)
Alphabet == ("A" :> 0) @@ ("Q" :> 16) @@ ("z" :> 51) @@ ("1" :> 53) @@ ("/" :> 63)

(* malloc(in_len / 4 * 3 + 4)                                               *)
DecodeRoom(text) == (Len(text) \div 4) * 3 + 4

DecodeStep(s, c) ==
  CASE ~s.ok \/ s.end \/ c = Space -> s
    [] c = "=" -> [s EXCEPT !.end = TRUE]
    [] c \notin DOMAIN Alphabet -> [s EXCEPT !.ok = FALSE]
    [] OTHER ->
         LET acc == (64 * s.acc + Alphabet[c]) % 2^AccBits
         IN IF s.bits + 6 < 8
              THEN [s EXCEPT !.acc = acc, !.bits = @ + 6]
              ELSE [s EXCEPT !.acc = acc, !.bits = @ - 2,
                     !.bytes = Append(@, (acc \div 2^(s.bits - 2)) % 256)]

base64_decode(text) ==
  Loop(DecodeStep,
       [acc |-> 0, bits |-> 0, bytes |-> <<>>, ok |-> TRUE, end |-> FALSE], text)

-----------------------------------------------------------------------------
(* Returning.                                                               *)

(* A value that owns own blocks is returned; the cursor is at c.            *)
Return(v, own, c) ==
  /\ ret' = [v |-> v, own |-> own] /\ p' = c /\ pc' = "return"

(* fail(): NULL is returned; what the function held is freed by then.       *)
ReturnNull == ret' = Nothing /\ pc' = "null" /\ UNCHANGED p

(* parse_value or parse_after_tag of the tag at d.                          *)
Enter(d, at) == tag' = buf[d] /\ p' = d + 1 /\ pc' = at /\ UNCHANGED ret

(* plist_parse_file.  fopen, fseek or ftell fail, there is no memory for    *)
(* the file, or fread returns what it returns: the file may have shrunk.    *)
plist_parse_file ==
  /\ pc = "open"
  /\ \/ /\ pc' = "done" /\ UNCHANGED <<buf, heap>>
     \/ /\ ~Granted(1)
        /\ pc' = "done" /\ Heap(1, 0) /\ UNCHANGED buf
     \/ /\ Granted(1)
        /\ \E n \in input.got :
             \/ buf' = SubSeq(input.doc, 1, n)
             \/ /\ n < Len(input.doc)
                /\ LET x == input.doc[n + 1] IN
                     /\ x.k # "char"
                     /\ buf' = SubSeq(input.doc, 1, n) \o
                                 <<Part(IF x.k = "ent" THEN "&" ELSE "<")>>
        /\ pc' = "start" /\ Heap(1, 1)
  /\ UNCHANGED <<input, p, tag, stack, ret, wrapped, lost>>

(* plist_parse_string: the <plist> around the value may be missing.         *)
plist_parse_string ==
  /\ pc = "start"
  /\ LET d == read_tag(p) IN
     \/ d = 0 /\ ReturnNull /\ UNCHANGED <<tag, wrapped>>
     \/ /\ TagAt(d) \in {Open("plist"), Self("plist")}
        /\ wrapped' = TRUE /\ p' = d + 1 /\ pc' = "value"
        /\ UNCHANGED <<tag, ret>>
     \/ /\ d # 0 /\ TagAt(d) \notin {Open("plist"), Self("plist")}
        /\ Enter(d, "after") /\ UNCHANGED wrapped
  /\ UNCHANGED <<input, buf, stack, heap, lost>>

parse_value ==
  /\ pc = "value"
  /\ LET d == read_tag(p) IN
     \/ TagAt(d).k \in {"none", "close"} /\ ReturnNull /\ UNCHANGED tag
     \/ TagAt(d).k \in {"open", "self"} /\ Enter(d, "after")
  /\ UNCHANGED <<input, buf, stack, wrapped, heap, lost>>

-----------------------------------------------------------------------------
(* parse_after_tag, one action for each kind of element.                    *)

(* value_alloc fails.                                                       *)
NoMemory == ~Granted(1) /\ ReturnNull /\ Heap(1, 0) /\ UNCHANGED stack

ParseBool ==
  /\ pc = "after" /\ tag.n \in {"true", "false"}
  /\ LET c == IF tag.k = "self" THEN p ELSE expect_close(p, tag.n)
         v == [type |-> "bool", boolean |-> tag.n = "true"]
     IN \/ NoMemory
        \/ Granted(1) /\ c = 0 /\ ReturnNull /\ Heap(1, 0) /\ UNCHANGED stack
        \/ Granted(1) /\ c # 0 /\ Return(v, 1, c) /\ Heap(1, 1) /\ UNCHANGED stack
  /\ UNCHANGED <<input, buf, tag, wrapped, lost>>

(* A dict or array being read.  own: its blocks; key: the key of the value  *)
(* that is being read.                                                      *)
NewFrame(type) == [type |-> type, body |-> <<>>, cap |-> 0, own |-> 1, key |-> <<>>]

Node(f) == IF f.type = "dict" THEN [type |-> "dict", dict |-> f.body]
                              ELSE [type |-> "array", array |-> f.body]

OpenNode ==
  /\ pc = "after" /\ tag.n \in {"dict", "array"}
  /\ \/ NoMemory
     \/ /\ Granted(1) /\ tag.k = "self"
        /\ Return(Node(NewFrame(tag.n)), 1, p)
        /\ Heap(1, 1) /\ UNCHANGED stack
     \/ /\ Granted(1) /\ tag.k # "self"
        /\ stack' = Append(stack, NewFrame(tag.n))
        /\ pc' = tag.n
        /\ Heap(1, 1) /\ UNCHANGED <<p, ret>>
  /\ UNCHANGED <<input, buf, tag, wrapped, lost>>

(* <string/> and <data/>.  The result of strdup("") and malloc(1) is not    *)
(* looked at: without memory the string is a NULL pointer.                  *)
ParseEmpty ==
  /\ pc = "after" /\ tag \in {Self("string"), Self("data")}
  /\ LET own == IF Granted(2) THEN 2 ELSE 1
         v == IF tag.n = "data" THEN [type |-> "data", data |-> <<>>]
              ELSE IF Granted(2) THEN [type |-> "string", string |-> <<>>]
              ELSE [type |-> "string", null |-> TRUE]
     IN \/ NoMemory /\ UNCHANGED lost
        \/ /\ Granted(1)
           /\ Return(v, own, p) /\ Heap(2, own)
           /\ lost' = (lost \/ (tag.n = "string" /\ ~Granted(2)))
           /\ UNCHANGED stack
  /\ UNCHANGED <<input, buf, tag, wrapped>>

(* The elements with text.  A number needs no text afterwards; <integer/>   *)
(* and <real/> are read as if they were opening tags.                       *)
ParseText ==
  /\ pc = "after" /\ tag.n \in {"string", "integer", "real", "data"}
  /\ tag \notin {Self("string"), Self("data")}
  /\ LET t == read_text(p, 1)
         c == expect_close(TextEnd(p), tag.n)
         good == Granted(1) /\ t.ok /\ c # 0
         bytes == base64_decode(t.text)
     IN /\ \/ NoMemory
           \/ Granted(1) /\ ~good /\ ReturnNull /\ Heap(t.calls, 0)
           \/ /\ good /\ tag.n = "string"
              /\ Return([type |-> "string", string |-> t.text], 2, c)
              /\ Heap(t.calls, 2)
           \/ /\ good /\ tag.n = "integer"
              /\ Return([type |-> "integer", integer |-> strtoll(t.text)], 1, c)
              /\ Heap(t.calls, 1)
           \/ /\ good /\ tag.n = "real"
              /\ Return([type |-> "real", real |-> strtod(t.text)], 1, c)
              /\ Heap(t.calls, 1)
           \/ /\ good /\ tag.n = "data" /\ Granted(t.calls + 1) /\ bytes.ok
              /\ Return([type |-> "data", data |-> bytes.bytes], 2, c)
              /\ Heap(t.calls + 1, 2)
           \/ /\ good /\ tag.n = "data" /\ ~(Granted(t.calls + 1) /\ bytes.ok)
              /\ ReturnNull /\ Heap(t.calls + 1, 0)
        /\ lost' = (lost \/ (good /\ t.lost))
  /\ UNCHANGED <<input, buf, tag, stack, wrapped>>

Known == {"true", "false", "dict", "array", "string", "integer", "real", "data"}

Unsupported ==
  /\ pc = "after" /\ tag.n \notin Known
  /\ ReturnNull
  /\ UNCHANGED <<input, buf, tag, stack, wrapped, heap, lost>>

parse_after_tag ==
  ParseBool \/ OpenNode \/ ParseEmpty \/ ParseText \/ Unsupported

-----------------------------------------------------------------------------
(* The loops of dict and array.                                             *)

top == Last(stack)

(* The innermost frame f becomes g.                                         *)
Replace(g) == stack' = Append(Front(stack), g)

(* The node is complete, with the cursor at c.                              *)
NodeDone(c) == stack' = Front(stack) /\ Return(Node(top), top.own, c)

(* plist_free of the unfinished node, and NULL to whoever wanted it; calls  *)
(* allocations were made and freed blocks besides the node's go with it.    *)
NodeFails(calls, freed) ==
  /\ stack' = Front(stack) /\ ReturnNull
  /\ Heap(calls, -(top.own + freed))

(* The next key of a dict, or its end.                                      *)
DictNext ==
  /\ pc = "dict"
  /\ LET d == read_tag(p)
         isKey == TagAt(d) \in {Open("key"), Self("key")}
         t == read_text(d + 1, 0)
         c == expect_close(TextEnd(d + 1), "key")
     IN \/ TagAt(d) = Close("dict") /\ NodeDone(d + 1) /\ UNCHANGED <<heap, lost>>
        \/ /\ ~isKey /\ TagAt(d) # Close("dict")
           /\ NodeFails(0, 0) /\ UNCHANGED lost
        \/ isKey /\ (~t.ok \/ c = 0) /\ NodeFails(t.calls, 0) /\ UNCHANGED lost
        \/ /\ isKey /\ t.ok /\ c # 0
           /\ Replace([top EXCEPT !.key = <<t.text>>])
           /\ p' = c /\ pc' = "value" /\ Heap(t.calls, 1)
           /\ lost' = (lost \/ t.lost)
           /\ UNCHANGED ret
  /\ UNCHANGED <<input, buf, tag, wrapped>>

(* Mutant: a closing tag that is not the array's own is passed over by      *)
(* rewinding once more.                                                     *)
MutantArrayNext ==
  /\ pc = "array"
  /\ LET d == read_tag(p) IN
     \/ TagAt(d) = Close("array") /\ NodeDone(d + 1) /\ UNCHANGED heap
     \/ d = 0 /\ NodeFails(0, 0)
     \/ /\ d # 0 /\ TagAt(d) # Close("array")
        /\ p' = skip_noise(p)
        /\ pc' = IF TagAt(d).k = "close" THEN "array" ELSE "value"
        /\ UNCHANGED <<stack, ret, heap>>
  /\ UNCHANGED <<input, buf, tag, wrapped, lost>>

(* The next element of an array, which parse_value reads from the same      *)
(* place, or its end.                                                       *)
ArrayNext ==
  /\ pc = "array"
  /\ LET d == read_tag(p) IN
     \/ TagAt(d) = Close("array") /\ NodeDone(d + 1) /\ UNCHANGED heap
     \/ d = 0 /\ NodeFails(0, 0)
     \/ /\ d # 0 /\ TagAt(d) # Close("array")
        /\ p' = skip_noise(p) /\ pc' = "value"
        /\ UNCHANGED <<stack, ret, heap>>
  /\ UNCHANGED <<input, buf, tag, wrapped, lost>>

(* dict_append (two arrays) and array_append (one): both double their room  *)
(* when it is full.                                                         *)
Arrays(f) == IF f.type = "dict" THEN 2 ELSE 1
Full(f) == Len(f.body) = f.cap
GrowCalls(f) ==
  IF ~Full(f) THEN 0 ELSE IF f.type = "dict" /\ Granted(1) THEN 2 ELSE 1
Grows(f) == Full(f) => \A k \in 1..Arrays(f) : Granted(k)

(* The frame with the returned value in it, which it owns from now on.      *)
Appended(f) ==
  [f EXCEPT !.body = Append(@, IF f.type = "dict" THEN <<f.key[1], ret.v>> ELSE ret.v),
            !.cap = IF ~Full(f) THEN @ ELSE IF @ = 0 THEN NodeCap ELSE 2 * @,
            !.own = @ + ret.own + Len(f.key) + (IF f.cap = 0 THEN Arrays(f) ELSE 0),
            !.key = <<>>]

AppendChild ==
  /\ pc = "return" /\ stack # <<>>
  /\ \/ /\ Grows(top)
        /\ Replace(Appended(top))
        /\ ret' = Nothing /\ pc' = top.type
        /\ Heap(GrowCalls(top), IF top.cap = 0 THEN Arrays(top) ELSE 0)
        /\ UNCHANGED p
     \/ ~Grows(top) /\ NodeFails(GrowCalls(top), Len(top.key) + ret.own)
  /\ UNCHANGED <<input, buf, tag, wrapped, lost>>

(* Mutant: the key is forgotten.                                            *)
MutantChildFails ==
  /\ pc = "null" /\ stack # <<>>
  /\ NodeFails(0, 0)
  /\ UNCHANGED <<input, buf, tag, wrapped, lost>>

(* A child that failed takes the node and its key with it.                  *)
ChildFails ==
  /\ pc = "null" /\ stack # <<>>
  /\ NodeFails(0, Len(top.key))
  /\ UNCHANGED <<input, buf, tag, wrapped, lost>>

(* Back in plist_parse_string: </plist> must follow if <plist> came first.  *)
RootDone ==
  /\ pc \in {"return", "null"} /\ stack = <<>>
  /\ LET c == expect_close(p, "plist") IN
     \/ /\ pc = "null" \/ ~wrapped
        /\ pc' = "finish" /\ UNCHANGED <<p, ret, heap>>
     \/ /\ pc = "return" /\ wrapped /\ c # 0
        /\ p' = c /\ pc' = "finish" /\ UNCHANGED <<ret, heap>>
     \/ /\ pc = "return" /\ wrapped /\ c = 0
        /\ ret' = Nothing /\ Heap(0, -ret.own)
        /\ pc' = "finish" /\ UNCHANGED p
  /\ UNCHANGED <<input, buf, tag, stack, wrapped, lost>>

(* plist_parse_file frees the text.                                         *)
Finish ==
  /\ pc = "finish"
  /\ pc' = "done" /\ Heap(0, -1)
  /\ UNCHANGED <<input, buf, p, tag, stack, ret, wrapped, lost>>

Next ==
  \/ plist_parse_file \/ plist_parse_string \/ parse_value \/ parse_after_tag
  \/ DictNext \/ ArrayNext \/ AppendChild \/ ChildFails \/ RootDone \/ Finish

(* The parser runs to its end; it waits for nobody.                         *)
Spec == Init /\ [][Next]_vars /\ WF_vars(Next)

=============================================================================
