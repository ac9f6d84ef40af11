------------------------------ MODULE MCHttpText ------------------------------
(* Texts written from small values, in every way the writers of such texts       *)
(* write them, and texts that nothing was written as.                            *)
EXTENDS HttpText

AnyToken == STRING

ListsOf(S, n) == UNION {[1..k -> S] : k \in 0..n}

Keys == {<<"a">>, <<"b">>}

-----------------------------------------------------------------------------
\* Keys and values that are changed by encoding, and one with a NUL in it.
SomeQueries ==
  ListsOf((Keys \cup {<<"a", "=", " ">>}) \X {<<>>, <<"x", " ", "&", "=">>, <<"+", "%00", "y">>}, 3)

QueryInputs ==
  {[given |-> <<q>>, text |-> front \o QueryText(q, kept)] :
     q \in SomeQueries, front \in {<<>>, <<"&", "c", "&">>}, kept \in SUBSET {"="}}
    \cup {[given |-> <<>>, text |-> <<"a", "=", "1", "%00", "2">>]}

-----------------------------------------------------------------------------
SomeCookies == ListsOf(Keys \X {<<>>, <<"1">>, <<"x", "=">>, <<"1", "*", "2", "*">>}, 3)

Items ==
  [name : Keys, value : {<<"1">>}, domain : {<<>>, <<".google.com">>}, path : {<<"/">>},
   expires : {<<>>, DateFormat}]

CookieInputs ==
  {[given |-> <<c>>, text |-> CookiesText(c)] : c \in SomeCookies}
    \cup {[given |-> <<c>>, text |-> <<"Cookie: ">> \o CookiesText(c)] : c \in SomeCookies}
    \cup {[given |-> <<<<<<item.name, item.value>>>>, item>>, text |-> CookieText(<<item>>)] :
             item \in Items}
    \cup {[given |-> <<>>, text |-> <<"a", "=", "1", "*", "b", "=", "2">>]}

-----------------------------------------------------------------------------
AttributeValues == {<<>>, <<"v">>, <<"v", "=">>} \cup ListsOf({"\"", "\\", " ", "v", ","}, 2)

AttributeLists == ListsOf({<<"n">>, <<"m", "=">>} \X AttributeValues, 2)

\* A last name that has no value, as in "Negotiate abc==".
AttributeInputs ==
  {[given |-> <<l>>, text |-> AttributesText(l)] : l \in AttributeLists}
    \cup {[given |-> <<<<l, <<<<"t", "=", "=">>, <<>>>>>>>>,
           text |-> AttributeText(l) \o <<" ", "t", "=", "=">>] :
             l \in {<<"n">>} \X AttributeValues}
    \cup {[given |-> <<>>, text |-> t] : t \in ListsOf({"n", "=", " ", ",", "\"", "\\"}, 4)}

-----------------------------------------------------------------------------
NameInputs ==
  {[given |-> <<>>, text |-> <<kind, <<n>>, Values[kind][1]>>] :
     kind \in {"version", "verb", "header"},
     n \in ToSet(HttpVersion) \cup ToSet(HttpVerb) \cup ToSet(HttpHeader) \cup {"PATCH"}}

CodeInputs ==
  {[given |-> <<>>, text |-> <<name, header>>] :
     name \in DOMAIN HttpStatusCode, header \in ToSet(HttpHeader)}

-----------------------------------------------------------------------------
\* Zones and how far east of Greenwich they are, in minutes.
Zones ==
  {<<<<"UT">>, 0>>, <<<<"GMT">>, 0>>, <<<<"EST">>, -300>>, <<<<"PDT">>, -420>>,
   <<<<"+", "0", "1", "3", "0">>, 90>>}

Calendar ==
  [mday : {1, 28}, mon : 0..11, year : {1970, 2009, 2012, 2037}, hour : {0, 23}, min : {59},
   sec : {1}]

DateText(d, month, zone) == <<d.mday, month, d.year, d.hour, d.min, d.sec, zone>>

Dated(d, z) ==
  [mday |-> d.mday, mon |-> d.mon, year |-> d.year, hour |-> d.hour, min |-> d.min, sec |-> d.sec,
   east |-> z[2]]

LeapDay == [mday |-> 29, mon |-> 1, year |-> 2012, hour |-> 0, min |-> 0, sec |-> 0, east |-> 0]

DateInputs ==
  {[given |-> <<Dated(d, z)>>, text |-> DateText(d, MonthNames[d.mon + 1], z[1])] :
     d \in Calendar, z \in Zones}
    \cup {[given |-> <<Dated(d, <<<<"GMT">>, 0>>)>>,
           text |-> DateText(d, MonthCapitals[d.mon + 1], <<"GMT">>)] : d \in Calendar}
    \cup {[given |-> <<LeapDay>>, text |-> DateText(LeapDay, <<"F", "e", "b">>, <<"GMT">>)]}
    \cup {[given |-> <<>>, text |-> t] :
            t \in {<<1, <<"J", "A", "N">>, 2009, 0, 0, 0, <<"XYZ">>>>,
                   <<1, <<"J", "A", "N">>, 2009, 0, 0, 0, <<"-", "0", "1", "x", "0">>>>,
                   <<1, <<"J", "A", "N">>, 2009>>}}

-----------------------------------------------------------------------------
SomeSent ==
  [uri : {<<>>, <<"/a">>}, host : {<<>>, <<"h">>}, method : {"GET", "POST", "PATCH"},
   query : {<<>>, <<<<<<"a">>, <<"1">>>>, <<<<"a">>, <<"2">>>>>>,
            <<<<<<"a">>, <<"-", "1", "0", "%00">>>>>>, <<<<<<"a">>, <<"-">>>>>>},
   cookies : {<<>>, <<<<<<"c">>, <<"1">>>>, <<<<"c">>, <<"2", "*">>>>>>},
   form : {<<>>, <<<<<<"a">>, <<"3">>>>, <<<<"b">>, <<" ">>>>>>}]

InOrder(s) ==
  <<<<"QUERY_STRING", "=">> \o QueryText(s.query, {"="}),
    <<"REQUEST_METHOD", "=", s.method>>,
    <<"REQUEST_URI", "=">> \o s.uri,
    <<"CONTENT_TYPE", "=">>,
    <<"SERVER_NAME", "=", "localhost">>,
    <<"HTTP_", "HOST", "=">> \o s.host,
    <<"HTTP_", "COOKIE", "=">> \o CookiesText(s.cookies)>>

\* In the order of the server's configuration and against it.
RequestInputs ==
  {[given |-> <<s>>, text |-> <<InOrder(s), QueryText(s.form, {})>>] : s \in SomeSent}
    \cup {[given |-> <<s>>,
           text |-> <<<<<<"NOTHING">>>> \o Reverse(InOrder(s)), QueryText(s.form, {})>>] :
             s \in SomeSent}

AllInputs ==
  [query |-> QueryInputs, code |-> CodeInputs, cookie |-> CookieInputs, attributes |-> AttributeInputs,
   request |-> RequestInputs, name |-> NameInputs, date |-> DateInputs]

\* The C library's timezone where the program was written: eight hours east of Greenwich.
Beijing == -28800
=============================================================================
