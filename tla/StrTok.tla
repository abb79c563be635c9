------------------------------- MODULE StrTok -------------------------------
(***************************************************************************)
(* strtok() with "/" as its delimiter, libc/strtok.c: it writes zeros into *)
(* the string and keeps in a static variable where the next call goes on.  *)
(* One action is one turn of one of its loops.  Pointers into the string   *)
(* are indices, 0 is NULL.                                                 *)
(***************************************************************************)
EXTENDS Integers, Sequences, FiniteSets

VARIABLES
  txt,    \* the string, with its terminating zero
  str, f, i, ptr,   \* strtok()'s local variables; f is 1 before a token
  old,    \* its static variable
  at      \* where it is: "span", "scan" or "out"

strtokVars == <<txt, str, f, i, ptr, old, at>>

NUL == "NUL"
Sep == "/"

(* What a token is made of, and what a string is.                          *)
Chars   == STRING \ {Sep, NUL}
Strings == Seq(Chars \cup {Sep})

(* strtok(s, "/"), and strtok(NULL, "/") with s the string from before.    *)
Call(s, from) ==
  /\ at = "out" /\ at' = "span"
  /\ txt' = s /\ str' = from
  /\ f' = 1 /\ i' = 0 /\ ptr' = 0
  /\ UNCHANGED old

strtok(s)  == Call(Append(s, NUL), 1)
strtokNext == Call(txt, old)

(* A bug for the properties: the loop does not move on.                    *)
SpanStays ==
  /\ at = "span"
  /\ IF txt[str] = Sep THEN UNCHANGED <<str, at>>
     ELSE at' = "scan" /\ UNCHANGED str
  /\ UNCHANGED <<txt, f, i, ptr, old>>

(* str+=strspn(str,delim);                                                 *)
Span ==
  /\ at = "span"
  /\ IF txt[str] = Sep THEN str' = str + 1 /\ UNCHANGED at
     ELSE at' = "scan" /\ UNCHANGED str
  /\ UNCHANGED <<txt, f, i, ptr, old>>

(* A delimiter is overwritten.                                             *)
ScanSep ==
  /\ at = "scan" /\ txt[str] = Sep
  /\ txt' = [txt EXCEPT ![str] = NUL]
  /\ i' = 1 /\ str' = str + 1
  /\ UNCHANGED <<f, ptr, old, at>>

(* A bug for the properties: a second token is taken for the first's rest. *)
ScanCharOn ==
  /\ at = "scan" /\ txt[str] \notin {Sep, NUL}
  /\ ptr' = IF f = 1 THEN str ELSE ptr
  /\ f' = 0 /\ str' = str + 1
  /\ UNCHANGED <<txt, i, old, at>>

(* The first character of a token sets ptr; the first one of the next      *)
(* token ends the call.                                                    *)
ScanChar ==
  /\ at = "scan" /\ txt[str] \notin {Sep, NUL}
  /\ ptr' = IF f = 1 THEN str ELSE ptr
  /\ f' = 0
  /\ IF i = 1 THEN old' = str /\ at' = "out" /\ UNCHANGED str
     ELSE str' = str + 1 /\ UNCHANGED <<old, at>>
  /\ UNCHANGED <<txt, i>>

(* A bug for the properties: old is only kept when there is more to come.  *)
ScanEndForgets ==
  /\ at = "scan" /\ txt[str] = NUL
  /\ at' = "out"
  /\ UNCHANGED <<txt, str, f, i, ptr, old>>

ScanEnd ==
  /\ at = "scan" /\ txt[str] = NUL
  /\ old' = str /\ at' = "out"
  /\ UNCHANGED <<txt, str, f, i, ptr>>

Scan == Span \/ ScanSep \/ ScanChar \/ ScanEnd

(* The string that strtok() returned.                                      *)
Token ==
  LET zeros == {k \in ptr .. Len(txt) : txt[k] = NUL}
      end   == CHOOSE k \in zeros : \A l \in zeros : k <= l
  IN  SubSeq(txt, ptr, end - 1)

StrTokInit ==
  /\ txt = <<NUL>> /\ str = 1 /\ f = 1 /\ i = 0 /\ ptr = 0
  /\ old = 0 /\ at = "out"

(***************************************************************************)
(* The reference: the tokens of s are its longest parts without delimiter. *)
(***************************************************************************)

Starts(s) == {k \in 1 .. Len(s) : s[k] # Sep /\ (k = 1 \/ s[k - 1] = Sep)}

(* The token that begins at k.                                             *)
Part(s, k) ==
  LET ends == {e \in k .. Len(s) : \A l \in k .. e : s[l] # Sep}
  IN  SubSeq(s, k, CHOOSE e \in ends : \A d \in ends : d <= e)

Tokens(s) ==
  [n \in 1 .. Cardinality(Starts(s)) |->
     Part(s, CHOOSE k \in Starts(s) :
               Cardinality({l \in Starts(s) : l < k}) = n - 1)]

=============================================================================
