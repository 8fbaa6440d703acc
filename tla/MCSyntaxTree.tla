----------------------------- MODULE MCSyntaxTree -----------------------------
(***************************************************************************)
(* SyntaxTree for TLC: for every member of the factory a script that first *)
(* makes nodes its assertions allow, and scripts of names, of numbers and  *)
(* of trees some levels deep.                                              *)
(***************************************************************************)
EXTENDS SyntaxTree

MCTexts == {"const", "async", "@const", "yield_star", "foo"}

(* Scripts <<..., code>> by what the code needs before it. *)
After(prelude, codes) == {Append(prelude, code) : code \in codes}

Special ==
    {"Annotation", "ArrowFunction", "Declaration", "Function", "Method",
     "AssignmentExpression", "BinaryExpression", "UnaryExpression",
     "RepeatRegExp", "ForStatement", "ForInStatement", "ForOfStatement",
     "MemberType", "TypeApplication", "FunctionType", "NullableType",
     "NonNullableType", "OptionalType", "RestType", "TypeGroup", "TupleType",
     "UnionType", "Name", "Punctuator", "NumericLiteral"}

MCScripts ==
    After(<<"Name", "Empty">>, Codes \ Special)
      \cup After(<<"JsDocDocument", "Empty">>, {"Annotation"})
      \cup After(<<"Name", "Empty", "BindingNameElement">>,
                 {"ArrowFunction", "ForStatement", "ForInStatement", "ForOfStatement"})
      \cup After(<<"Name", "ParameterList">>, {"ArrowFunction", "Function", "Method"})
      \cup After(<<"Name", "MemberExpression">>, {"Declaration"})
      \cup After(<<"Name", "ComputedMemberExpression">>, {"Declaration"})
      \cup After(<<"Name", "Punctuator">>,
                 {"AssignmentExpression", "BinaryExpression", "UnaryExpression"})
      \cup After(<<"LiteralRegExp", "RegExpRepeat">>, {"RepeatRegExp"})
      \cup After(<<"Empty", "Module">>,
                 {"ForStatement", "ForInStatement", "ForOfStatement"})
      \cup After(<<"Name", "TypeName">>,
                 {"MemberType", "NullableType", "NonNullableType", "OptionalType",
                  "RestType", "TypeGroup", "TupleType", "UnionType"})
      \cup After(<<"Name", "TypeName", "MemberType", "Tuple">>, {"TypeApplication"})
      \cup After(<<"Name", "TypeName", "Tuple">>, {"FunctionType"})
      \cup {<<"Name", "Name", "Name">>, <<"Name", "YieldStar", "Name">>,
            <<"NumericLiteral", "NumericLiteral", "NumericLiteral", "NumericLiteral">>,
            <<"Empty", "BlockStatement", "BlockStatement", "IfStatement">>,
            <<"Empty", "BlockStatement", "WhileStatement", "BlockStatement">>}
===============================================================================
