------------------------------- MODULE HttpText -------------------------------
(***************************************************************************)
(* How the web framework reads HTTP: the parameters of a query, cookies,     *)
(* attribute lists, dates and names (common/cwf/http.cc, cookie.h), and the  *)
(* request it makes of them (Request::Init in stream.cc).                   *)
(*                                                                         *)
(* A text is a sequence of tokens: the characters that mean something to a   *)
(* parser, and runs of other characters.  Each behaviour is one call of one  *)
(* parser; a loop over entries or attributes takes a step for each.         *)
(***************************************************************************)
EXTENDS Integers, Sequences, FiniteSets, SequencesExt

CONSTANTS
  Tokens,   \* what texts are made of
  Inputs,   \* what each job may be given: [given, text]
  Timezone  \* the C library's timezone: seconds west of Greenwich

Jobs == {"query", "cookie", "attributes", "request", "name", "code", "date"}

\* Those that mean something to a parser.
ASSUME TokensAssumption ==
  {"=", "&", "+", "%26", "%2B", "%3D", "%00", ";", " ", "*", ",", "\"", "\\", "Cookie: ", "Domain",
   "Path", "Expires", "Tue,", "03-Sep-2019", "11:25:23", "GMT", "HTTP_", "HOST", "COOKIE",
   "QUERY_STRING", "REQUEST_METHOD", "REQUEST_URI"} \subseteq Tokens

ASSUME TimezoneAssumption == Timezone \in Int

VARIABLES
  job,     \* the parser that is called
  given,   \* <<what the text was written from>>, or <<>> (history)
  text,    \* its argument
  pos,     \* where its loop is
  result,  \* what it has found
  done     \* it has returned

vars == <<job, given, text, pos, result, done>>

-----------------------------------------------------------------------------
(* Pairs                                                                     *)

\* find_first_of('='), 0 for npos.
PosEqual(piece) == SelectInSeq(piece, LAMBDA c : c = "=")

Before(piece) == SubSeq(piece, 1, PosEqual(piece) - 1)
After(piece) == SubSeq(piece, PosEqual(piece) + 1, Len(piece))

\* The empty StringMap, and m[k] = v.
NoPairs == [k \in {} |-> <<>>]
With(m, k, v) == [x \in DOMAIN m \cup {k} |-> IF x = k THEN v ELSE m[x]]

\* find(), with kEmptyString for what is not there.
Lookup(m, k) == IF k \in DOMAIN m THEN m[k] ELSE <<>>

\* The text before the first token c, or all of it.
UpToFirst(t, c) ==
  LET at == SelectInSeq(t, LAMBDA x : x = c) IN IF at = 0 THEN t ELSE SubSeq(t, 1, at - 1)

-----------------------------------------------------------------------------
(* Queries and forms: Request::ParseQuery                                    *)

\* url_decode() (StringEncode.tla models it by its bytes) of an escape sequence, which is
\* one token, "%00" standing for the NUL as well: the result is assigned as a C string.
DecodedToken(c) ==
  CASE c = "+" -> " " [] c = "%26" -> "&" [] c = "%2B" -> "+" [] c = "%3D" -> "=" [] OTHER -> c

Decoded(value) == UpToFirst([i \in DOMAIN value |-> DecodedToken(value[i])], "%00")

\* insert() does not replace.  The key is not decoded.
InsertPair(m, piece) ==
  IF PosEqual(piece) = 0 \/ Before(piece) \in DOMAIN m THEN m
  ELSE With(m, Before(piece), Decoded(After(piece)))

-----------------------------------------------------------------------------
(* Cookies                                                                   *)

\* Mutant: Add() keeps the first value.
AddCookie_first(m, piece) ==
  IF PosEqual(piece) = 0 \/ Before(piece) \in DOMAIN m THEN m
  ELSE With(m, Before(piece), After(piece))

\* Add(): a later cookie replaces the value.
AddCookie(m, piece) ==
  IF PosEqual(piece) = 0 THEN m ELSE With(m, Before(piece), After(piece))

-----------------------------------------------------------------------------
(* The loops over queries and cookies                                        *)

Enter(kind, m, piece) == IF kind = "query" THEN InsertPair(m, piece) ELSE AddCookie(m, piece)

Separators(kind) == IF kind = "query" THEN {"&"} ELSE {";", " ", "*"}

\* boost::split() and the loop over its pieces, of which some may be empty: what was
\* entered, and where the piece begins that goes on behind i.
SplitAt(kind, t, i, before) ==
  IF t[i] \notin Separators(kind) THEN before
  ELSE [pairs |-> Enter(kind, before.pairs, SubSeq(t, before.from, i - 1)), from |-> i + 1]

Split(kind, t) ==
  LET split[i \in 0..Len(t)] ==
        IF i = 0 THEN [pairs |-> NoPairs, from |-> 1] ELSE SplitAt(kind, t, i, split[i - 1])
  IN split

PairsIn(kind, t) ==
  LET last == Split(kind, t)[Len(t)]
  IN Enter(kind, last.pairs, SubSeq(t, last.from, Len(t)))

ParseQuery(t) == PairsIn("query", t)

\* Cookie::Parse(), with and without "Cookie: ".
ParseCookie(t) == PairsIn("cookie", IF t # <<>> /\ t[1] = "Cookie: " THEN Tail(t) ELSE t)

-----------------------------------------------------------------------------
(* The cookie that is sent                                                   *)

\* Cookie::Item::text(), and the expiry date Cookie::DateFormat() writes, whatever its arguments.
DateFormat == <<"Tue,", " ", "03-Sep-2019", " ", "11:25:23", " ", "GMT">>

Attribute(name, value) == IF value = <<>> THEN <<>> ELSE <<";", name, "=">> \o value

ItemText(item) ==
  item.name \o <<"=">> \o item.value
    \o Attribute("Domain", item.domain) \o Attribute("Path", item.path)
    \o Attribute("Expires", item.expires)

\* Cookie::text() of the items in the order of their names: nothing comes between two.
CookieText(items) == FoldLeft(LAMBDA t, item : t \o ItemText(item), <<>>, items)

-----------------------------------------------------------------------------
(* Attribute lists: HttpParseAttributes                                      *)

\* The first position from i on that Ends, or the one behind the text.
UpTo(i, Ends(_)) ==
  LET ends == {j \in i..Len(text) : Ends(j)}
  IN IF ends = {} THEN Len(text) + 1 ELSE CHOOSE j \in ends : \A k \in ends : j <= k

\* Mutant: every "=" ends a name.
IsEndOfAttributeName_any(i) == text[i] \in {" ", "="}

\* A name may have equal signs at its end.
IsEndOfAttributeName(i) ==
  \/ text[i] = " "
  \/ text[i] = "=" /\ i < Len(text) /\ text[i + 1] \notin {" ", "="}

\* A quoted value from i on, where the quotation mark before it was skipped: a backslash
\* quotes any character but the last of the text.
QuotedFrom[i \in Nat \ {0}] ==
  IF i > Len(text) THEN [value |-> <<>>, next |-> i]
  ELSE IF text[i] = "\"" THEN [value |-> <<>>, next |-> i + 1]
  ELSE LET at == IF text[i] = "\\" /\ i < Len(text) THEN i + 1 ELSE i
           rest == QuotedFrom[at + 1]
       IN [value |-> <<text[at]>> \o rest.value, next |-> rest.next]

\* A value that is not quoted ends before a space or a comma.
BareFrom(i) ==
  LET end == UpTo(i, LAMBDA j : text[j] \in {" ", ","})
  IN [value |-> SubSeq(text, i, end - 1), next |-> end]

\* The value of a name that ended at i.
ValueFrom(i) ==
  IF i > Len(text) \/ text[i] # "=" THEN [value |-> <<>>, next |-> i]
  ELSE IF i < Len(text) /\ text[i + 1] = "\"" THEN QuotedFrom[i + 2]
  ELSE BareFrom(i + 1)

\* Mutant: any character is skipped.
NextPos_any(i) == i + 1

\* "Skip ','".
NextPos(i) == IF i <= Len(text) /\ text[i] = "," THEN i + 1 ELSE i

\* One turn of the loop.
NextAttribute ==
  /\ job = "attributes" /\ ~done
  /\ LET start == UpTo(pos, LAMBDA j : text[j] # " ")
         end == UpTo(start, IsEndOfAttributeName)
         found == ValueFrom(end)
     IN IF start > Len(text)
          THEN done' = TRUE /\ UNCHANGED <<pos, result>>
          ELSE /\ result' = Append(result, <<SubSeq(text, start, end - 1), found.value>>)
               /\ pos' = NextPos(found.next)
               /\ UNCHANGED done
  /\ UNCHANGED <<job, given, text>>

\* HttpHasAttribute() of a name that is there: the value of its first attribute.
HttpHasAttribute(attributes, name) ==
  attributes[SelectInSeq(attributes, LAMBDA a : a[1] = name)][2]

\* HttpHasNthAttribute(), from 0: <<name, value>>, or <<>> for false.
HttpHasNthAttribute(attributes, index) ==
  IF index >= Len(attributes) THEN <<>> ELSE attributes[index + 1]

-----------------------------------------------------------------------------
(* Names: the enumerations of http.h and the tables of http.cc               *)

\* A name stands for all its spellings: _stricmp() does not tell them apart.  The enumerators
\* are written as the names they are made of, in the order of their values.
HttpVersion == <<"1.0", "1.1", "1.x">>

HttpVerb == <<"GET", "POST", "PUT", "DELETE", "CONNECT", "HEAD">>

HttpHeader ==
  <<"Accept", "Accept-Charset", "Accept-Encoding", "Accept-Language", "Age", "Cache-Control",
    "Connection", "Content-Length", "Content-Range", "Content-Type", "Cookie", "Date", "ETag",
    "Expires", "Host", "If-Modified-Since", "If-None-Match", "Keep-Alive", "Last-Modified",
    "Location", "Proxy-Authenticate", "Proxy-Authorization", "Proxy-Connection", "Range",
    "Server", "Set-Cookie", "TE", "Trailers", "Transfer-Encoding", "Upgrade", "User-Agent",
    "WWW-Authenticate">>

kHttpVersions == <<"1.0", "1.1", "1.x">>

kHttpVerbs == <<"GET", "POST", "PUT", "DELETE", "CONNECT", "HEAD">>

\* Mutant: the table skips a value of the enumeration.
kHttpHeaders_short ==
  <<"Accept", "Accept-Charset", "Accept-Encoding", "Accept-Language", "Age", "Cache-Control",
    "Connection", "Content-Length", "Content-Type", "Cookie", "Date">>

kHttpHeaders ==
  <<"Accept", "Accept-Charset", "Accept-Encoding", "Accept-Language", "Age", "Cache-Control",
    "Connection", "Content-Length", "Content-Range", "Content-Type", "Cookie", "Date", "ETag",
    "Expires", "Host", "If-Modified-Since", "If-None-Match", "Keep-Alive", "Last-Modified",
    "Location", "Proxy-Authenticate", "Proxy-Authorization", "Proxy-Connection", "Range",
    "Server", "Set-Cookie", "TE", "Trailers", "Transfer-Encoding", "Upgrade", "User-Agent",
    "WWW-Authenticate">>

Names == [version |-> kHttpVersions, verb |-> kHttpVerbs, header |-> kHttpHeaders]
Values == [version |-> HttpVersion, verb |-> HttpVerb, header |-> HttpHeader]

\* find_string(), counting from 1; 0 when the needle is not in the haystack.
find_string(needle, haystack) == SelectInSeq(haystack, LAMBDA n : <<n>> = needle)

\* FromString(), which leaves the variable alone when there is no such name.
FromString(kind, name, old) ==
  LET index == find_string(name, Names[kind]) IN IF index = 0 THEN old ELSE Values[kind][index]

-----------------------------------------------------------------------------
(* Status codes and headers: what is said of them                            *)

\* HttpStatusCode: runs of enumerators, each with the value of its first.
CodeRuns ==
  <<[from |-> 100, names |-> <<"CONTINUE", "SWITCHING_PROTOCOLS", "PROCESSING">>],
    [from |-> 200, names |->
      <<"OK", "CREATED", "ACCEPTED", "NON_AUTHORATIVE_INFORMATION", "NO_CONTENT",
        "RESET_CONTENT", "PARTIAL_CONTENT", "MULTI_STATUS">>],
    [from |-> 300, names |->
      <<"MULTIPLE_CHOICES", "MOVED_PERMANENTLY", "FOUND", "SEE_OTHER", "NOT_MODIFIED",
        "USE_PROXY", "SWITCH_PROXY", "TEMPORARY_REDIRECT">>],
    [from |-> 400, names |->
      <<"BAD_REQUEST", "UNAUTHORIZED", "PAYMENT_REQUIRED", "FORBIDDEN", "NOT_FOUND",
        "METHOD_NOT_ALLOWED", "NOT_ACCEPTABLE", "PROXY_AUTHENTICATION_REQUIRED",
        "REQUEST_TIMEOUT", "CONFLICT", "GONE", "LENGTH_REQUIRED", "PRECONDITION_FAILED",
        "REQUEST_ENTITY_TOO_LARGE", "REQUEST_URI_TOO_LONG", "UNSUPPORTED_MEDIA_TYPE",
        "REQUEST_RANGE_NOT_SATISFIABLE", "EXPECTATION_FAILED">>],
    [from |-> 422, names |->
      <<"UNPROCESSABLE_ENTITY", "LOCKED", "FAILED_DEPENDENCY", "UNORDERED_COLLECTION",
        "UPGRADE_REQUIRED">>],
    [from |-> 449, names |-> <<"RETRY_WITH">>],
    [from |-> 500, names |->
      <<"INTERNAL_SERVER_ERROR", "NOT_IMPLEMENTED", "BAD_GATEWAY", "SERVICE_UNAVAILABLE",
        "GATEWAY_TIMEOUT", "HTTP_VERSION_NOT_SUPPORTED", "INSUFFICIENT_STORAGE">>],
    [from |-> 509, names |-> <<"BANDWIDTH_LIMIT_EXCEEDED">>]>>

\* The value of each enumerator.
HttpStatusCode ==
  LET NamesOf(run) == ToSet(run.names)
      RunOf(name) == CHOOSE i \in DOMAIN CodeRuns : name \in NamesOf(CodeRuns[i])
  IN [name \in UNION {NamesOf(CodeRuns[i]) : i \in DOMAIN CodeRuns} |->
        LET run == CodeRuns[RunOf(name)]
        IN run.from + SelectInSeq(run.names, LAMBDA n : n = name) - 1]

\* HttpCodeIsInformational() for 1 to HttpCodeIsServerError() for 5.
CodeClass(code) == code \div 100

HttpCodeHasBody(code) ==
  CodeClass(code) # 1 /\ code \notin {HttpStatusCode[n] : n \in {"NO_CONTENT", "NOT_MODIFIED"}}

HttpCodeIsCacheable(code) ==
  code \in {HttpStatusCode[n] : n \in {"OK", "UNAUTHORIZED", "PARTIAL_CONTENT",
                                       "MULTIPLE_CHOICES", "MOVED_PERMANENTLY", "GONE"}}

HttpHeaderIsEndToEnd(header) ==
  header \notin {"Connection", "Keep-Alive", "Proxy-Authenticate", "Proxy-Authorization", "TE",
                 "Trailers", "Transfer-Encoding", "Upgrade"}

HttpHeaderIsCollapsible(header) ==
  header \notin {"Set-Cookie", "Proxy-Authenticate", "WWW-Authenticate"}

-----------------------------------------------------------------------------
(* Dates: HttpDateToSeconds                                                  *)

\* Mutant: one month in R only.
tm_mon_apr(month) == IF month[3] \in {"r", "R"} THEN 3 ELSE IF month[3] = "g" THEN 7 ELSE 1

\* The month by the upper-cased third letter and another as it is written.
tm_mon(month) ==
  CASE month[3] \in {"n", "N"} -> IF month[2] = "A" THEN 0 ELSE 5
    [] month[3] \in {"b", "B"} -> 1
    [] month[3] \in {"r", "R"} -> IF month[1] = "M" THEN 2 ELSE 3
    [] month[3] \in {"y", "Y"} -> 4
    [] month[3] \in {"l", "L"} -> 6
    [] month[3] \in {"g", "G"} -> 7
    [] month[3] \in {"p", "P"} -> 8
    [] month[3] \in {"t", "T"} -> 9
    [] month[3] \in {"v", "V"} -> 10
    [] month[3] \in {"c", "C"} -> 11
    [] OTHER -> 0

\* The C library's mktime() of a local time, mon counting from 0.
mktime(mday, mon, year, hour, min, sec) ==
  LET leap(y) == y % 4 = 0 /\ (y % 100 # 0 \/ y % 400 = 0)
      before == <<0, 31, 59, 90, 120, 151, 181, 212, 243, 273, 304, 334>>
      days == 365 * (year - 1970) + Cardinality({y \in 1970..year - 1 : leap(y)})
                + before[mon + 1] + (IF mon > 1 /\ leap(year) THEN 1 ELSE 0) + mday - 1
  IN ((days * 24 + hour) * 60 + min) * 60 + sec + Timezone

\* The zones and their offsets, in hours.
kTimeZoneOffsets ==
  [UT |-> 0, GMT |-> 0, EST |-> -5, EDT |-> -4, CST |-> -6, CDT |-> -5,
   MST |-> -7, MDT |-> -6, PST |-> -8, PDT |-> -7,
   A |-> -1, B |-> -2, C |-> -3, D |-> -4, E |-> -5, F |-> -6,
   G |-> -7, H |-> -8, I |-> -9, K |-> -10, L |-> -11, M |-> -12,
   N |-> 1, O |-> 2, P |-> 3, Q |-> 4, R |-> 5, S |-> 6,
   T |-> 7, U |-> 8, V |-> 9, W |-> 10, X |-> 11, Y |-> 12]

Digits == <<"0", "1", "2", "3", "4", "5", "6", "7", "8", "9">>
IsDigit(c) == Contains(Digits, c)
DigitOf(c) == SelectInSeq(Digits, LAMBDA d : d = c) - 1

\* A zone in digits.  The sum is the condition of the conditional, not a part of its value;
\* as long as it is not zero the date does not matter.
DigitZone(non_gmt, zone) ==
  LET plus == IF zone[1] = "+" THEN 1 ELSE 0
      hours == DigitOf(zone[2]) * 10 + DigitOf(zone[3])
      minutes == DigitOf(zone[4]) * 10 + DigitOf(zone[5])
      offset == (hours * 60 + minutes) * 60
  IN IF non_gmt + plus # 0 THEN offset ELSE -offset

\* <<seconds>>, or <<>> when it returns false.  The date is what sscanf() converts: day, month,
\* year, hour, minute, second and zone, a zone in digits being a sequence of characters and any
\* other one token.  The product build's unsigned long wraps where this is negative.
HttpDateToSeconds(date) ==
  IF Len(date) # 7 THEN <<>>
  ELSE LET zone == date[7]
           non_gmt == mktime(date[1], tm_mon(date[2]), date[3], date[4], date[5], date[6])
       IN IF zone[1] \in {"+", "-"}
            THEN IF \A i \in 2..5 : i <= Len(zone) /\ IsDigit(zone[i])
                   THEN <<DigitZone(non_gmt, zone) - Timezone>>
                   ELSE <<>>
            ELSE IF zone[1] \in DOMAIN kTimeZoneOffsets
                   THEN <<non_gmt + kTimeZoneOffsets[zone[1]] * 3600 - Timezone>>
                   ELSE <<>>

-----------------------------------------------------------------------------
(* The request: Request::Init                                                *)

\* Request().
NewRequest ==
  [header |-> NoPairs, query_string |-> <<>>, method |-> "GET", url |-> <<>>, host |-> <<>>,
   cookie |-> NoPairs, query |-> NoPairs, form |-> NoPairs, ok |-> FALSE]

\* Mutant: an empty value is taken like any other.
Skipped_never(entry) == PosEqual(entry) = 0

\* A parameter without "=" or without a value.
Skipped(entry) == PosEqual(entry) = 0 \/ After(entry) = <<>>

\* One parameter of the FastCGI environment.
ReadEntry(r, entry) ==
  LET key == Before(entry)
      value == After(entry)
  IN IF Skipped(entry) THEN r
     ELSE IF key # <<>> /\ key[1] = "HTTP_" THEN [r EXCEPT !.header = With(@, Tail(key), value)]
     ELSE IF key = <<"QUERY_STRING">> THEN [r EXCEPT !.query_string = value]
     ELSE IF key = <<"REQUEST_METHOD">> THEN [r EXCEPT !.method = FromString("verb", value, @)]
     ELSE IF key = <<"REQUEST_URI">> THEN [r EXCEPT !.url = value]
     ELSE [r EXCEPT !.header = With(@, key, value)]

\* What follows the loop; RequestLoop.tla models how the body is read.  The last tests are the
\* statement of an "if (!query_string_.empty())" whose own statement is commented out.
Complete(r, body) ==
  LET host == Lookup(r.header, <<"HOST">>)
  IN [r EXCEPT
        !.host = host,
        !.cookie = ParseCookie(Lookup(r.header, <<"COOKIE">>)),
        !.query = IF r.query_string = <<>> THEN @ ELSE ParseQuery(r.query_string),
        !.form = IF r.method = "POST" /\ body # <<>> THEN ParseQuery(body) ELSE @,
        !.ok = r.query_string = <<>> \/ (r.url # <<>> /\ host # <<>> /\ DOMAIN r.header # {})]

\* Request::get(): the query's value, the form's when that is empty.
Get(r, k) == IF Lookup(r.query, k) # <<>> THEN Lookup(r.query, k) ELSE Lookup(r.form, k)

\* A number after its sign.
Unsigned(value) == IF value # <<>> /\ value[1] \in {"+", "-"} THEN Tail(value) ELSE value

\* The value of the first digits, for each number of them.
DigitSums(digits) ==
  LET sum[i \in 0..Len(digits)] == IF i = 0 THEN 0 ELSE sum[i - 1] * 10 + DigitOf(digits[i])
  IN sum

\* boost::lexical_cast<int> of a text, with the default for one that is empty or no number (or
\* more than an int holds, which is left out).
IntOf(value, default) ==
  LET digits == Unsigned(value)
      n == DigitSums(digits)[Len(digits)]
  IN IF digits = <<>> \/ \E i \in DOMAIN digits : ~IsDigit(digits[i]) THEN default
     ELSE IF value[1] = "-" THEN -n ELSE n

\* query(key, default_value) and form(key, default_value).
IntIn(pairs, k, default) == IntOf(Lookup(pairs, k), default)

\* The form is asked when the query has no text, not when its text is no number.
GetInt(r, k, default) == IntOf(Get(r, k), default)

-----------------------------------------------------------------------------
(* What texts are written from                                               *)

Text == Seq(Tokens)

Lacks(t, tokens) == \A i \in DOMAIN t : t[i] \notin tokens

\* The first pieces joined, for each number of them, and all.
Joining(pieces, separator) ==
  LET upTo[k \in 0..Len(pieces)] ==
        IF k = 0 THEN <<>>
        ELSE IF k = 1 THEN pieces[1] ELSE upTo[k - 1] \o separator \o pieces[k]
  IN upTo

Joined(pieces, separator) == Joining(pieces, separator)[Len(pieces)]

\* What a client makes of the pairs of a query or a form: keys and values are encoded, but an
\* "=" in a value may be kept.
EncodedToken(c) ==
  CASE c = " " -> "+" [] c = "&" -> "%26" [] c = "+" -> "%2B" [] c = "=" -> "%3D" [] OTHER -> c

Encoded(t, kept) == [i \in DOMAIN t |-> IF t[i] \in kept THEN t[i] ELSE EncodedToken(t[i])]

\* "%00" in a value is a NUL; a text of the other escape sequences themselves is left out.
Queries ==
  {pairs \in Seq(Text \X Text) : \A i \in DOMAIN pairs : Lacks(pairs[i][2], {"%26", "%2B", "%3D"})}

QueryText(pairs, kept) ==
  Joined([i \in DOMAIN pairs |->
            Encoded(pairs[i][1], {}) \o <<"=">> \o Encoded(pairs[i][2], kept)], <<"&">>)

\* What a client joins to a cookie.  A "*" in a name, or before a "=" in a value, is left out: there
\* a cookie is renamed, or one is read that nobody sent.
Cookies ==
  {pairs \in Seq(Text \X Text) : \A i \in DOMAIN pairs :
     /\ Lacks(pairs[i][1], {"=", ";", " ", "*", "Cookie: "}) /\ Lacks(pairs[i][2], {";", " "})
     /\ Lacks(SubSeq(pairs[i][2], Len(UpToFirst(pairs[i][2], "*")) + 1, Len(pairs[i][2])), {"="})}

CookiesText(pairs) ==
  Joined([i \in DOMAIN pairs |-> pairs[i][1] \o <<"=">> \o pairs[i][2]], <<";", " ">>)

\* Attributes; a value is quoted when it has to be, and equal signs end a name only.
Escaping(value) ==
  LET upTo[k \in 0..Len(value)] ==
        IF k = 0 THEN <<>>
        ELSE upTo[k - 1] \o (IF value[k] \in {"\"", "\\"} THEN <<"\\", value[k]>> ELSE <<value[k]>>)
  IN upTo

Quoted(value) == <<"\"">> \o Escaping(value)[Len(value)] \o <<"\"">>

IsAttributeName(name) ==
  /\ name \in Text /\ name # <<>> /\ Lacks(name, {" "})
  /\ \A i \in 1..Len(name) - 1 : name[i] = "=" => name[i + 1] = "="

IsBare(value) == value # <<>> /\ value[1] # "=" /\ Lacks(value, {"\"", "\\", " ", ","})

AttributeText(a) == a[1] \o <<"=">> \o (IF IsBare(a[2]) THEN a[2] ELSE Quoted(a[2]))

AttributesText(list) == Joined([i \in DOMAIN list |-> AttributeText(list[i])], <<",", " ">>)

\* The names of the months as RFC 1123 writes them, and in capitals.
MonthNames ==
  <<<<"J", "a", "n">>, <<"F", "e", "b">>, <<"M", "a", "r">>, <<"A", "p", "r">>, <<"M", "a", "y">>,
    <<"J", "u", "n">>, <<"J", "u", "l">>, <<"A", "u", "g">>, <<"S", "e", "p">>, <<"O", "c", "t">>,
    <<"N", "o", "v">>, <<"D", "e", "c">>>>

MonthCapitals ==
  <<<<"J", "A", "N">>, <<"F", "E", "B">>, <<"M", "A", "R">>, <<"A", "P", "R">>, <<"M", "A", "Y">>,
    <<"J", "U", "N">>, <<"J", "U", "L">>, <<"A", "U", "G">>, <<"S", "E", "P">>, <<"O", "C", "T">>,
    <<"N", "O", "V">>, <<"D", "E", "C">>>>

\* What a browser sends, and the environment the server makes of it: in any order, with
\* entries of its own and some that are no parameters.
Sent ==
  [uri : Text, host : Text, method : Tokens, query : Queries, cookies : Cookies, form : Queries]

Environment(s) ==
  {<<"QUERY_STRING", "=">> \o QueryText(s.query, {"="}),
   <<"REQUEST_METHOD", "=", s.method>>,
   <<"REQUEST_URI", "=">> \o s.uri,
   <<"HTTP_", "HOST", "=">> \o s.host,
   <<"HTTP_", "COOKIE", "=">> \o CookiesText(s.cookies)}

IsOther(entry) ==
  PosEqual(entry) = 0 \/
    Before(entry) \notin {<<"QUERY_STRING">>, <<"REQUEST_METHOD">>, <<"REQUEST_URI">>,
                        <<"HOST">>, <<"COOKIE">>, <<"HTTP_", "HOST">>, <<"HTTP_", "COOKIE">>}

\* What each job takes.
Takes(j, t) ==
  CASE j \in {"query", "cookie", "attributes"} -> t \in Text
    [] j = "request" -> t \in Seq(Text) \X Text
    [] j = "name" -> /\ t \in Tokens \X Text \X Tokens
                     /\ t[1] \in DOMAIN Values /\ t[3] \in ToSet(Values[t[1]])
    [] j = "code" -> t \in (DOMAIN HttpStatusCode) \X ToSet(HttpHeader)
    [] j = "date" -> TRUE

\* t is what somebody who means g[1] writes.
Writes(j, g, t) ==
  CASE j = "query" ->
         /\ g[1] \in Queries
         /\ \E k \in 0..Len(t) :
              /\ Lacks(SubSeq(t, 1, k), {"="}) /\ (k = 0 \/ t[k] = "&")
              /\ \E kept \in SUBSET {"="} : SubSeq(t, k + 1, Len(t)) = QueryText(g[1], kept)
    [] j = "cookie" ->
         /\ g[1] \in Cookies
         /\ IF Len(g) = 1 THEN t \in {CookiesText(g[1]), <<"Cookie: ">> \o CookiesText(g[1])}
            ELSE /\ g[1] = <<<<g[2].name, g[2].value>>>> /\ t = ItemText(g[2])
                 /\ g[2].name \notin {<<"Domain">>, <<"Path">>, <<"Expires">>}
                 /\ \A part \in {g[2].value, g[2].domain, g[2].path} :
                      part \in Text /\ Lacks(part, Separators("cookie"))
                 /\ g[2].expires \in {<<>>, DateFormat}
    [] j = "attributes" ->
         /\ g[1] \in Seq(Text \X Text)
         /\ \A i \in DOMAIN g[1] : IsAttributeName(g[1][i][1])
         /\ \/ t = AttributesText(g[1])
            \/ /\ Len(g[1]) > 1 /\ Last(g[1])[2] = <<>>
               /\ t = AttributesText(Front(g[1])) \o <<" ">> \o Last(g[1])[1]
    [] j = "date" ->
         /\ g[1] \in [mday : Int, mon : 0..11, year : Nat, hour : Int, min : Int, sec : Int, east : Int]
         /\ g[1].year >= 1970
         /\ Len(t) = 7 /\ <<t[1], t[3], t[4], t[5], t[6]>> =
              <<g[1].mday, g[1].year, g[1].hour, g[1].min, g[1].sec>>
         /\ t[2] \in {MonthNames[g[1].mon + 1], MonthCapitals[g[1].mon + 1]}
         /\ t[7] \in Text \ {<<>>}
    [] j = "request" ->
         /\ g[1] \in Sent
         /\ t[2] = QueryText(g[1].form, {})
         /\ Environment(g[1]) \subseteq ToSet(t[1])
         /\ \A i \in DOMAIN t[1] : t[1][i] \in Environment(g[1]) \/ IsOther(t[1][i])
    [] OTHER -> FALSE

ASSUME InputsAssumption ==
  /\ DOMAIN Inputs = Jobs
  /\ \A j \in Jobs : \A input \in Inputs[j] :
       Takes(j, input.text) /\ (input.given # <<>> => Writes(j, input.given, input.text))

-----------------------------------------------------------------------------
(* The calls                                                                 *)

Blank(j) ==
  CASE j \in {"query", "cookie"} -> NoPairs
    [] j = "request" -> NewRequest
    [] OTHER -> <<>>

Init ==
  /\ job \in Jobs
  /\ \E input \in Inputs[job] : given = input.given /\ text = input.text
  /\ pos = 1
  /\ result = Blank(job)
  /\ done = FALSE

Return(value) ==
  /\ result' = value
  /\ done' = TRUE
  /\ UNCHANGED <<job, given, text, pos>>

ReadQuery == job = "query" /\ ~done /\ Return(ParseQuery(text))

ReadCookie == job = "cookie" /\ ~done /\ Return(ParseCookie(text))

\* The text is the enumeration, the name and the value before the call.
ReadName == job = "name" /\ ~done /\ Return(FromString(text[1], text[2], text[3]))

\* The text is a code and a header: what the framework says of a response with them.
ReadCode ==
  /\ job = "code" /\ ~done
  /\ LET code == HttpStatusCode[text[1]] IN
       Return([code |-> code, class |-> CodeClass(code), body |-> HttpCodeHasBody(code),
               cacheable |-> HttpCodeIsCacheable(code),
               relayed |-> HttpHeaderIsEndToEnd(text[2]),
               folded |-> HttpHeaderIsCollapsible(text[2])])

ReadDate == job = "date" /\ ~done /\ Return(HttpDateToSeconds(text))

\* The text is the environment and the body.
ReadRequestEntry ==
  /\ job = "request" /\ ~done
  /\ pos <= Len(text[1])
  /\ result' = ReadEntry(result, text[1][pos])
  /\ pos' = pos + 1
  /\ UNCHANGED <<job, given, text, done>>

CompleteRequest ==
  /\ job = "request" /\ ~done
  /\ pos > Len(text[1])
  /\ Return(Complete(result, text[2]))

Returned == done /\ UNCHANGED vars

Next ==
  \/ ReadQuery \/ ReadCookie \/ ReadName \/ ReadCode \/ ReadDate
  \/ NextAttribute \/ ReadRequestEntry \/ CompleteRequest
  \/ Returned

Spec == Init /\ [][Next]_vars

-----------------------------------------------------------------------------
(* Properties                                                                *)

Known == done /\ given # <<>>

KeysOf(pairs) == {pairs[i][1] : i \in DOMAIN pairs}
FirstOf(pairs, k) == pairs[CHOOSE i \in DOMAIN pairs :
  pairs[i][1] = k /\ \A j \in 1..i - 1 : pairs[j][1] # k][2]
LastOf(pairs, k) == FirstOf(Reverse(pairs), k)

\* The pairs of a query or form, and of cookies, as they arrive.  A key is never decoded
\* (stream.cc:232) and a value ends before its first NUL (stream.cc:215); a cookie's value ends
\* before its first "*", as cookie.h:70 splits at it though the comment at line 65 says "; ".
QueryAsRead(pairs) ==
  [i \in DOMAIN pairs |-> <<Encoded(pairs[i][1], {}), UpToFirst(pairs[i][2], "%00")>>]
CookiesAsRead(pairs) == [i \in DOMAIN pairs |-> <<pairs[i][1], UpToFirst(pairs[i][2], "*")>>]

\* Types; a loop never runs past its text.
TypeOK ==
  /\ job \in Jobs
  /\ done \in BOOLEAN
  /\ job \in {"query", "cookie", "name", "code", "date"} => pos = 1
  /\ job = "attributes" => pos \in 1..Len(text) + 1
  /\ job = "request" => pos \in 1..Len(text[1]) + 1

\* What is written as a query or as a cookie arrives, every pair and nothing else (a cookie's
\* domain, path and date apart): of a query the first value of each key, of a cookie the last.  It
\* arrives as sent but for what QueryAsRead and CookiesAsRead say: the keys of a query stay encoded
\* and a value is cut at a NUL, and in a cookie at a "*" (stream.cc:212-240, cookie.h:55-98).
PairsSurvive ==
  /\ Known /\ job = "query" =>
       LET pairs == QueryAsRead(given[1]) IN result = [k \in KeysOf(pairs) |-> FirstOf(pairs, k)]
  /\ Known /\ job = "cookie" =>
       LET pairs == CookiesAsRead(given[1])
       IN /\ \A k \in KeysOf(pairs) : Lookup(result, k) = LastOf(pairs, k)
          /\ DOMAIN result \subseteq KeysOf(pairs) \cup {<<"Domain">>, <<"Path">>, <<"Expires">>}

\* A list of attributes is read back in its order, with values that hold quotation marks,
\* backslashes, spaces and commas, and names that end in "=" (http.cc:179-259).
AttributesSurvive ==
  Known /\ job = "attributes" =>
    /\ result = given[1]
    /\ \A k \in KeysOf(result) : HttpHasAttribute(result, k) = FirstOf(given[1], k)
    /\ \A i \in DOMAIN given[1] : HttpHasNthAttribute(result, i - 1) = given[1][i]
    /\ HttpHasNthAttribute(result, Len(given[1])) = <<>>

\* The status codes of RFC 2616, section 10, which http.h:12 refers to.
Rfc2616Codes ==
  {100, 101} \cup 200..206 \cup (300..305 \cup {307}) \cup 400..417 \cup 500..505

\* Every name of an enumeration is read as its own value and written as itself, so the tables are
\* in step with the enumerations; any other name leaves the value that was there.  The codes,
\* which are counted on from a few numbers, have numbers of their own, those of the RFC among
\* them, and only interim responses, 204 and 304 are without a body and none of these is
\* cacheable; what only concerns one connection is not relayed (http.h:14-139, http.cc:21-175).
NamesInStep ==
  /\ done /\ job = "name" =>
       LET kind == text[1]
           n == SelectInSeq(Values[kind], LAMBDA v : v = result)
       IN /\ result = IF \E v \in ToSet(Values[kind]) : <<v>> = text[2] THEN text[2][1] ELSE text[3]
          /\ Names[kind][n] = result
  /\ done /\ job = "code" =>
       /\ \A n \in DOMAIN HttpStatusCode \ {text[1]} : HttpStatusCode[n] # result.code
       /\ Rfc2616Codes \subseteq {HttpStatusCode[n] : n \in DOMAIN HttpStatusCode}
       /\ result.class \in 1..5
       /\ ~result.body <=> result.code \in 100..199 \cup {204, 304}
       /\ result.cacheable => result.body
       /\ text[2] = "Connection" => ~result.relayed
       /\ text[2] = "Set-Cookie" => result.relayed /\ ~result.folded

\* The days from 1970-01-01 to a date, by the count of days since a first of March.
DayNumber(year, mon, mday) ==
  LET y == IF mon < 2 THEN year - 1 ELSE year
  IN 365 * y + y \div 4 - y \div 100 + y \div 400
       + (153 * ((mon + 10) % 12) + 2) \div 5 + mday - 1 - 719468

\* The seconds since 1970-01-01 00:00:00 UTC; east is in minutes.
Instant(d) ==
  ((DayNumber(d.year, d.mon, d.mday) * 24 + d.hour) * 60 + d.min - d.east) * 60 + d.sec

\* A date of Greenwich is converted to its own second, in leap years too, whatever the time zone
\* of the process, but for a January that is not in capitals (http.cc:294-336).
GmtDates ==
  Known /\ job = "date" /\ given[1].east = 0 /\ text[7][1] \in {"UT", "GMT"}
      /\ text[2] # <<"J", "a", "n">> =>
    result = <<Instant(given[1])>>

\* What the comment of HttpDateToSeconds says: "Convert RFC1123 date (DoW, DD Mon YYYY
\* HH:MM:SS TZ) to unix timestamp" (http.h:158).
DateIsTimestamp == Known /\ job = "date" => result = <<Instant(given[1])>>

\* A number below a hundred as it is written.
Decimal(n) ==
  LET size == IF n < 0 THEN -n ELSE n
      unit == <<Digits[(size % 10) + 1]>>
      digits == IF size < 10 THEN unit ELSE <<Digits[(size \div 10) + 1]>> \o unit
  IN IF n < 0 THEN <<"-">> \o digits ELSE digits

\* A request that the server handed over in a legal environment, in any order and with
\* parameters without a value in it, is read as what arrives of what the client sent (as
\* PairsSurvive says), numbers included.  It is refused exactly if it has a query but no address
\* or no host: without a query nothing is asked of it (stream.cc:97-279).
RequestFromEnv ==
  Known /\ job = "request" =>
    LET sent == given[1]
        query == QueryAsRead(sent.query)
        form == QueryAsRead(sent.form)
        cookies == CookiesAsRead(sent.cookies)
    IN /\ result.ok <=> sent.query = <<>> \/ (sent.uri # <<>> /\ sent.host # <<>>)
       /\ result.url = sent.uri /\ result.host = sent.host
       /\ result.method = IF sent.method \in ToSet(HttpVerb) THEN sent.method ELSE "GET"
       /\ result.cookie = [k \in KeysOf(cookies) |-> LastOf(cookies, k)]
       /\ \A k \in KeysOf(query) : FirstOf(query, k) # <<>> => Get(result, k) = FirstOf(query, k)
       /\ sent.method = "POST" =>
            \A k \in KeysOf(form) \ KeysOf(query) : Get(result, k) = FirstOf(form, k)
       /\ \A k \in KeysOf(query) : \A n \in -12..12 :
            FirstOf(query, k) = Decimal(n) =>
              GetInt(result, k, 99) = n /\ IntIn(result.query, k, 99) = n
       /\ sent.method = "POST" =>
            \A k \in KeysOf(form) \ KeysOf(query) : \A n \in -12..12 :
              FirstOf(form, k) = Decimal(n) =>
                GetInt(result, k, 99) = n /\ IntIn(result.form, k, 99) = n
       /\ \A n \in DOMAIN result.header : result.header[n] # <<>>

=============================================================================
